-------------------------- MODULE ScanCommandProofs --------------------------
(***************************************************************************)
(* What a scan rests on and what it publishes.  ScanSound is inductive,    *)
(* one lemma per step of a scan: a step moves one scan and touches at most *)
(* one place, so the promises to the other scans are about that place.     *)
(* The command that runs it under the resource guard, what admits it to a  *)
(* shared host, the private workspace its generations are kept in and the  *)
(* models that may answer about them are proved after it, each over        *)
(* variables of its own.                                                   *)
(***************************************************************************)
EXTENDS ScanPublication, GuardedCommand, Admission, Workspace, ModelProvider, FiniteSetTheorems, SequenceTheorems, WellFoundedInduction, TLAPS

(***************************************************************************)
(* The publication of a scan.                                              *)
(***************************************************************************)

\* The optional second outcome of a step, an error after it took effect.
LEMMA ThenFact ==
  ASSUME TypeOK, NEW s \in Scans, NEW where \in Steps, Then(s, where)
  PROVE  /\ at' \in [Scans -> Steps] /\ faults' \in 0..MaxFaults
         /\ \A r \in Scans : at'[r] = IF r = s THEN at'[s] ELSE at[r]
         /\ at'[s] \in {where, "cleanup"}
<1>1. at' \in [Scans -> Steps] /\ at'[s] \in {where, "cleanup"}
      /\ \A r \in Scans : at'[r] = IF r = s THEN at'[s] ELSE at[r]
  BY DEF TypeOK, Then, Goto, Steps
<1>2. faults' \in 0..MaxFaults
  BY FaultsAssumption DEF TypeOK, Then
<1> QED BY <1>1, <1>2

\* A scan that starts ends the solitude of the others and may itself be alone.
LEMMA StartStep ==
  ASSUME ScanSound, NEW s \in Scans, Start(s)
  PROVE  ScanSound'
<1> USE NoneAssumption, OptionsAssumption DEF ScanSound, TypeOK, Goto, Steps, places, Running, Uses
<1>1. PICK i \in SnapIds, o \in Options, given \in Snapshot :
        /\ at[s] = "idle" /\ given = [id |-> i, parent |-> None]
        /\ bundle' = [bundle EXCEPT ![s] = given] /\ stores' = [stores EXCEPT ![s] = o]
        /\ at' = [at EXCEPT ![s] = IF "database" \in o THEN "observe" ELSE "publish"]
        /\ UNCHANGED <<places, noop, outcome, installed, faults>>
  <2>1. PICK i \in SnapIds : bundle' = [bundle EXCEPT ![s] = [id |-> i, parent |-> None]]
    BY Zenon DEF Start
  <2>2. PICK o \in Options :
          /\ stores' = [stores EXCEPT ![s] = o]
          /\ at' = [at EXCEPT ![s] = IF "database" \in o THEN "observe" ELSE "publish"]
    BY Zenon DEF Start
  <2>3. at[s] = "idle" /\ UNCHANGED <<places, noop, outcome, installed, faults>>
    BY DEF Start
  <2>4. [id |-> i, parent |-> None] \in Snapshot
    BY DEF Snapshot
  <2> QED BY <2>1, <2>2, <2>3, <2>4
<1>2. /\ alone' \in [Scans -> BOOLEAN]
      /\ \A r \in Scans \ {s} : alone'[r] => ~Running(r)
      /\ alone'[s] => \A r \in Scans : ~Running(r)
  BY DEF Start
<1>3. TypeOK'
  BY <1>1, <1>2
<1>4. StepInv'
  BY <1>1 DEF StepInv
<1>5. AloneInv'
  BY <1>1, <1>2 DEF AloneInv
<1>6. CurrentInstalled'
  BY <1>1 DEF CurrentInstalled
<1>7. SuccessMeansPublished'
  BY <1>1 DEF SuccessMeansPublished, StepInv
<1>8. AtlasDurable'
  BY <1>1 DEF AtlasDurable, AllBoth
<1> QED BY <1>3, <1>4, <1>5, <1>6, <1>7, <1>8

\* Steps that publish nothing: observing, beginning, opening and ending.
LEMMA ObserveStep ==
  ASSUME ScanSound, NEW s \in Scans, Observe(s)
  PROVE  ScanSound'
<1> USE NoneAssumption, OptionsAssumption DEF ScanSound, TypeOK, Goto, Steps, places, history, Running, Uses
<1>1. /\ at[s] = "observe" /\ bundle[s] \in Snapshot /\ UNCHANGED <<places, stores, outcome, history>>
      /\ bundle' = [bundle EXCEPT ![s].parent = ParentOf(bundle[s].id)]
      /\ noop' = [noop EXCEPT ![s] = Repeats(s)]
      /\ at' = [at EXCEPT ![s] = IF Repeats(s) THEN "commit" ELSE "begin"]
  BY DEF Observe, StepInv
<1>2. /\ bundle'[s] \in Snapshot /\ bundle'[s].id = bundle[s].id
      /\ Repeats(s) => bundle'[s] \in db
      /\ \A r \in Scans \ {s} : bundle'[r] = bundle[r]
  <2> DEFINE i == bundle[s].id
  <2>1. i \in SnapIds /\ bundle[s] = [id |-> i, parent |-> bundle[s].parent]
    BY <1>1 DEF Snapshot
  <2>2. bundle'[s] = [id |-> i, parent |-> ParentOf(i)] /\ \A r \in Scans \ {s} : bundle'[r] = bundle[r]
    BY <1>1, <2>1
  <2>3. CASE head = i
    <3>1. PICK x \in db : x = CHOOSE y \in db : y.id = i
      BY <2>1, <2>3
    <3>2. x \in db /\ x.id = i /\ x \in Snapshot
      BY <2>1, <2>3, <3>1
    <3>3. x = [id |-> i, parent |-> x.parent]
      BY <3>2 DEF Snapshot
    <3>4. ParentOf(i) = x.parent
      BY <2>3, <3>1 DEF ParentOf
    <3> QED BY <2>2, <3>2, <3>3, <3>4
  <2>4. CASE head # i
    BY <2>1, <2>2, <2>4 DEF ParentOf, Snapshot, Repeats
  <2> QED BY <2>3, <2>4
<1>3. TypeOK'
  BY <1>1, <1>2 DEF Repeats
<1>4. StepInv'
  BY <1>1, <1>2 DEF StepInv
<1>5. AloneInv'
  BY <1>1, <1>2 DEF AloneInv, Repeats
<1>6. CurrentInstalled'
  BY <1>1 DEF CurrentInstalled
<1>7. SuccessMeansPublished'
  BY <1>1, <1>2 DEF SuccessMeansPublished, StepInv
<1>8. AtlasDurable'
  BY <1>1 DEF AtlasDurable, AllBoth
<1> QED BY <1>3, <1>4, <1>5, <1>6, <1>7, <1>8

\* Beginning a build, opening the store, ending, failing and dying touch no place.
LEMMA QuietStep ==
  ASSUME ScanSound, NEW s \in Scans,
         BeginBuild(s) \/ OpenStore(s) \/ Finalize(s) \/ Cleanup(s) \/ Fault(s) \/ Crash(s)
  PROVE  ScanSound'
<1> USE NoneAssumption, FaultsAssumption DEF ScanSound, TypeOK, Goto, Steps, places, history, Running, Uses
<1>1. /\ UNCHANGED <<places, bundle, stores, noop, installed, alone>>
      /\ at[s] \notin {"idle", "done"} /\ at'[s] # "idle" /\ \A r \in Scans \ {s} : at'[r] = at[r] /\ outcome'[r] = outcome[r]
      /\ at' \in [Scans -> Steps] /\ faults' \in 0..MaxFaults
      /\ outcome' \in [Scans -> {"none", "succeeded", "failed", "interrupted"}]
  BY DEF BeginBuild, OpenStore, Finalize, Cleanup, Fault, Crash
<1>2. \/ at'[s] = "cleanup" /\ outcome'[s] = outcome[s]
      \/ at'[s] = "done" /\ outcome'[s] \in {"failed", "interrupted"}
      \/ at[s] = "begin" /\ at'[s] = "commit" /\ outcome'[s] = outcome[s]
      \/ at[s] = "open" /\ at'[s] = "write" /\ outcome'[s] = outcome[s]
      \/ at[s] = "open" /\ at'[s] = "point" /\ outcome'[s] = outcome[s] /\ store[bundle[s].id] = bundle[s]
      \/ at[s] = "finalize" /\ at'[s] = "done" /\ outcome'[s] = "succeeded"
  <2>1. CASE BeginBuild(s) BY <2>1 DEF BeginBuild
  <2>2. CASE OpenStore(s) BY <2>2 DEF OpenStore, SameContent
  <2>3. CASE Finalize(s) BY <2>3 DEF Finalize
  <2>4. CASE Cleanup(s) BY <2>4 DEF Cleanup
  <2>5. CASE Fault(s) BY <2>5 DEF Fault
  <2>6. CASE Crash(s) BY <2>6 DEF Crash
  <2> QED BY <2>1, <2>2, <2>3, <2>4, <2>5, <2>6
<1>3. TypeOK'
  BY <1>1
<1>4. StepInv' /\ AloneInv'
  <2>1. CASE at'[s] = "cleanup" /\ outcome'[s] = outcome[s]
    <3>1. StepInv' BY <1>1, <2>1 DEF StepInv
    <3>2. AloneInv' BY <1>1, <2>1 DEF AloneInv, StepInv
    <3> QED BY <3>1, <3>2
  <2>2. CASE at'[s] = "done" /\ outcome'[s] \in {"failed", "interrupted"}
    <3>1. StepInv' BY <1>1, <2>2 DEF StepInv
    <3>2. AloneInv' BY <1>1, <2>2 DEF AloneInv, StepInv
    <3> QED BY <3>1, <3>2
  <2>3. CASE at[s] = "begin" /\ at'[s] = "commit" /\ outcome'[s] = outcome[s]
    <3>1. StepInv' BY <1>1, <2>3 DEF StepInv
    <3>2. AloneInv' BY <1>1, <2>3 DEF AloneInv, StepInv
    <3> QED BY <3>1, <3>2
  <2>4. CASE at[s] = "open" /\ at'[s] = "write" /\ outcome'[s] = outcome[s]
    <3>1. StepInv' BY <1>1, <2>4 DEF StepInv
    <3>2. AloneInv' BY <1>1, <2>4 DEF AloneInv, StepInv
    <3> QED BY <3>1, <3>2
  <2>5. CASE at[s] = "open" /\ at'[s] = "point" /\ outcome'[s] = outcome[s] /\ store[bundle[s].id] = bundle[s]
    <3>1. StepInv' BY <1>1, <2>5 DEF StepInv
    <3>2. AloneInv' BY <1>1, <2>5 DEF AloneInv, StepInv
    <3> QED BY <3>1, <3>2
  <2>6. CASE at[s] = "finalize" /\ at'[s] = "done" /\ outcome'[s] = "succeeded"
    <3>1. StepInv' BY <1>1, <2>6 DEF StepInv
    <3>2. AloneInv' BY <1>1, <2>6 DEF AloneInv, StepInv
    <3> QED BY <3>1, <3>2
  <2> QED BY <1>2, <2>1, <2>2, <2>3, <2>4, <2>5, <2>6
<1>6. CurrentInstalled'
  BY <1>1 DEF CurrentInstalled
<1>7. SuccessMeansPublished'
  BY <1>1, <1>2 DEF SuccessMeansPublished, StepInv
<1>8. AtlasDurable'
  BY <1>1 DEF AtlasDurable, AllBoth
<1> QED BY <1>3, <1>4, <1>6, <1>7, <1>8

\* The database only grows, and its head moves to what was just added.
LEMMA CommitStep ==
  ASSUME ScanSound, NEW s \in Scans, CommitDatabase(s)
  PROVE  ScanSound'
<1> USE NoneAssumption, FaultsAssumption DEF ScanSound, TypeOK, Goto, Steps, places, Running, Uses
<1>1. CASE noop[s] /\ Goto(s, "publish") /\ UNCHANGED <<db, head, faults>>
  <2>1. /\ at[s] = "commit" /\ UNCHANGED <<places, bundle, stores, noop, outcome, history>>
        /\ at' = [at EXCEPT ![s] = "publish"]
    BY <1>1 DEF CommitDatabase, history
  <2>2. TypeOK'
    BY <2>1 DEF history
  <2>3. StepInv'
    BY <2>1, <1>1 DEF StepInv, history
  <2>4. AloneInv'
    BY <2>1, <1>1 DEF AloneInv, history
  <2>5. CurrentInstalled' /\ SuccessMeansPublished'
    BY <2>1 DEF CurrentInstalled, SuccessMeansPublished, StepInv, history
  <2>6. AtlasDurable'
    BY <2>1 DEF AtlasDurable, AllBoth, history
  <2> QED BY <2>2, <2>3, <2>4, <2>5, <2>6
<1>2. CASE Goto(s, "cleanup") /\ UNCHANGED <<db, head, faults>>
  <2>1. /\ at[s] = "commit" /\ UNCHANGED <<places, bundle, stores, noop, outcome, history>>
        /\ at' = [at EXCEPT ![s] = "cleanup"]
    BY <1>2 DEF CommitDatabase, history
  <2>2. TypeOK'
    BY <2>1 DEF history
  <2>3. StepInv'
    BY <2>1 DEF StepInv, history
  <2>4. AloneInv'
    BY <2>1 DEF AloneInv, history
  <2>5. CurrentInstalled' /\ SuccessMeansPublished'
    BY <2>1 DEF CurrentInstalled, SuccessMeansPublished, StepInv, history
  <2>6. AtlasDurable'
    BY <2>1 DEF AtlasDurable, AllBoth, history
  <2> QED BY <2>2, <2>3, <2>4, <2>5, <2>6
<1>3. CASE /\ ~noop[s] /\ head = bundle[s].parent /\ Unpublished(bundle[s].id)
           /\ db' = db \cup {bundle[s]} /\ head' = bundle[s].id /\ Then(s, "publish")
  <2>1. /\ at[s] = "commit" /\ bundle[s] \in Snapshot
        /\ UNCHANGED <<atlas, store, current, bundle, stores, noop, outcome, installed, alone>>
    BY <1>3 DEF CommitDatabase, StepInv
  <2>2. /\ at' \in [Scans -> Steps] /\ faults' \in 0..MaxFaults
        /\ \A r \in Scans : at'[r] = IF r = s THEN at'[s] ELSE at[r]
        /\ at'[s] \in {"publish", "cleanup"}
    BY <1>3, ThenFact
  <2>3. bundle[s].id \in SnapIds
    BY <2>1 DEF Snapshot
  <2>4. TypeOK'
    BY <1>3, <2>1, <2>2, <2>3 DEF Unpublished
  <2>5. StepInv'
    BY <1>3, <2>1, <2>2 DEF StepInv
  <2>6. AloneInv'
    BY <1>3, <2>1, <2>2 DEF AloneInv
  <2>7. CurrentInstalled' /\ SuccessMeansPublished'
    BY <1>3, <2>1, <2>2 DEF CurrentInstalled, SuccessMeansPublished, StepInv
  <2>8. AtlasDurable'
    BY <1>3, <2>1, <2>2 DEF AtlasDurable, AllBoth
  <2> QED BY <2>4, <2>5, <2>6, <2>7, <2>8
<1> QED
  BY <1>1, <1>2, <1>3 DEF CommitDatabase

\* The atlas shows the bundle of a scan whose database already has it.
LEMMA AtlasStep ==
  ASSUME ScanSound, NEW s \in Scans, PublishAtlas(s)
  PROVE  ScanSound'
<1> USE NoneAssumption, FaultsAssumption DEF ScanSound, TypeOK, Goto, Steps, places, Running, Uses
<1>1. /\ at[s] = "publish" /\ bundle[s] \in Snapshot /\ atlas' = bundle[s]
      /\ installed' = installed \cup {bundle[s]}
      /\ UNCHANGED <<db, head, store, current, bundle, stores, noop, outcome, alone>>
  BY DEF PublishAtlas, StepInv
<1>2. /\ at' \in [Scans -> Steps] /\ faults' \in 0..MaxFaults
      /\ \A r \in Scans : at'[r] = IF r = s THEN at'[s] ELSE at[r]
      /\ at'[s] \in {IF "state" \in stores[s] THEN "open" ELSE "finalize", "cleanup"}
  BY ThenFact DEF PublishAtlas
<1>3. TypeOK'
  BY <1>1, <1>2
<1>4. StepInv'
  BY <1>1, <1>2 DEF StepInv
<1>5. AloneInv'
  BY <1>1, <1>2 DEF AloneInv
<1>6. CurrentInstalled' /\ SuccessMeansPublished'
  BY <1>1, <1>2 DEF CurrentInstalled, SuccessMeansPublished, StepInv
<1>7. AtlasDurable'
  BY <1>1, <1>2 DEF AtlasDurable, AllBoth, StepInv
<1> QED BY <1>3, <1>4, <1>5, <1>6, <1>7

\* The snapshot store binds an identifier once, to a bundle the atlas has shown.
LEMMA StoreStep ==
  ASSUME ScanSound, NEW s \in Scans, CommitStore(s)
  PROVE  ScanSound'
<1> USE NoneAssumption, FaultsAssumption DEF ScanSound, TypeOK, Goto, Steps, places, Running, Uses
<1>1. /\ at[s] = "write" /\ bundle[s] \in Snapshot /\ bundle[s].id \in SnapIds /\ bundle[s] \in installed
      /\ UNCHANGED <<db, head, atlas, current, bundle, stores, noop, outcome, installed, alone>>
  BY DEF CommitStore, StepInv, Snapshot
<1>2. /\ at' \in [Scans -> Steps] /\ faults' \in 0..MaxFaults
      /\ \A r \in Scans : at'[r] = IF r = s THEN at'[s] ELSE at[r]
      /\ at'[s] \in {"point", "cleanup"}
  BY ThenFact DEF CommitStore
<1>3. /\ store' \in [SnapIds -> Snapshot \cup {None}]
      /\ \A i \in SnapIds : store'[i] = store[i] \/ (store[i] = None /\ store'[i] = bundle[s] /\ i = bundle[s].id)
      /\ at'[s] = "point" => store'[bundle[s].id] = bundle[s]
  <2>1. CASE store[bundle[s].id] = None
    <3>1. store' = [store EXCEPT ![bundle[s].id] = bundle[s]]
      BY <2>1, Zenon DEF CommitStore
    <3> QED BY <1>1, <2>1, <3>1
  <2>2. CASE store[bundle[s].id] # None
    <3>1. store' = store /\ at' = [at EXCEPT ![s] = "cleanup"]
      BY <2>2, Zenon DEF CommitStore
    <3> QED BY <2>2, <3>1
  <2> QED BY <2>1, <2>2
<1>4. TypeOK'
  BY <1>1, <1>2, <1>3
<1>5. StepInv'
  BY <1>1, <1>2, <1>3 DEF StepInv, Snapshot
<1>6. AloneInv'
  BY <1>1, <1>2 DEF AloneInv
<1>7. CurrentInstalled'
  BY <1>1, <1>3 DEF CurrentInstalled
<1>8. SuccessMeansPublished'
  BY <1>1, <1>2, <1>3 DEF SuccessMeansPublished, StepInv, Snapshot
<1>9. AtlasDurable'
  BY <1>1, <1>2, <1>3 DEF AtlasDurable, AllBoth, StepInv
<1> QED BY <1>4, <1>5, <1>6, <1>7, <1>8, <1>9

\* CURRENT moves to what the store holds and the atlas has shown.
LEMMA PointStep ==
  ASSUME ScanSound, NEW s \in Scans, PointCurrent(s)
  PROVE  ScanSound'
<1> USE NoneAssumption, FaultsAssumption DEF ScanSound, TypeOK, Goto, Steps, places, Running, Uses
<1>1. /\ at[s] = "point" /\ bundle[s] \in Snapshot /\ bundle[s].id \in SnapIds /\ bundle[s] \in installed
      /\ store[bundle[s].id] = bundle[s] /\ current' = bundle[s].id
      /\ UNCHANGED <<db, head, atlas, store, bundle, stores, noop, outcome, installed, alone>>
  BY DEF PointCurrent, Selected, StepInv, Snapshot
<1>2. /\ at' \in [Scans -> Steps] /\ faults' \in 0..MaxFaults
      /\ \A r \in Scans : at'[r] = IF r = s THEN at'[s] ELSE at[r]
      /\ at'[s] \in {"finalize", "cleanup"}
  BY ThenFact DEF PointCurrent
<1>3. TypeOK'
  BY <1>1, <1>2
<1>4. StepInv'
  BY <1>1, <1>2 DEF StepInv
<1>5. AloneInv'
  BY <1>1, <1>2 DEF AloneInv
<1>6. CurrentInstalled' /\ SuccessMeansPublished'
  BY <1>1, <1>2 DEF CurrentInstalled, SuccessMeansPublished, StepInv
<1>7. AtlasDurable'
  BY <1>1, <1>2 DEF AtlasDurable, AllBoth
<1> QED BY <1>3, <1>4, <1>5, <1>6, <1>7

LEMMA InitInv == Init => ScanSound
  BY NoneAssumption, FaultsAssumption DEF Init, ScanSound, TypeOK, Steps, StepInv, AloneInv, Running,
     CurrentInstalled, SuccessMeansPublished, AtlasDurable, Uses

LEMMA NextInv == ScanSound /\ [Next]_vars => ScanSound'
<1>1. ASSUME ScanSound, NEW s \in Scans, Start(s) \/ Publish(s) \/ Fault(s) \/ Crash(s)
      PROVE  ScanSound'
  BY <1>1, StartStep, ObserveStep, QuietStep, CommitStep, AtlasStep, StoreStep, PointStep DEF Publish
<1>2. CASE UNCHANGED vars
  BY <1>2 DEF vars, places, history, ScanSound, TypeOK, StepInv, AloneInv, Running, CurrentInstalled,
     SuccessMeansPublished, AtlasDurable, AllBoth, Uses
<1> QED BY <1>1, <1>2 DEF Next

(***************************************************************************)
(* The theorems.                                                           *)
(***************************************************************************)

\* CURRENT never points at a snapshot whose atlas was not installed, a journal
\* that ends in success is proof of every configured publication, and with a
\* database nothing is shown that it does not hold: for any scans that overlap,
\* fail after a step took effect, or die (runScan, DeferJournalCompletion).
THEOREM Soundness == Spec => []ScanSound
  BY InitInv, NextInv, PTL DEF Spec

\* A scan that nothing overlaps and that succeeds leaves the database, the atlas
\* and CURRENT at its snapshot, whatever failed or died before it.
THEOREM Agreement == Spec => SuccessAgrees
<1>1. ASSUME ScanSound, [Next]_vars, NEW s \in Scans, at[s] = "finalize", outcome'[s] = "succeeded",
             alone[s], stores[s] = {"database", "state"}
      PROVE  atlas = bundle[s] /\ head = bundle[s].id /\ current = bundle[s].id
  BY <1>1 DEF ScanSound, AloneInv, Running, Uses
<1>2. ScanSound /\ [Next]_vars =>
        [\A s \in Scans :
           at[s] = "finalize" /\ outcome'[s] = "succeeded" /\ alone[s] /\ stores[s] = {"database", "state"}
             => atlas = bundle[s] /\ head = bundle[s].id /\ current = bundle[s].id]_vars
  BY <1>1
<1> QED
  BY <1>2, Soundness, PTL DEF SuccessAgrees, Spec

(***************************************************************************)
(* A guarded command.                                                      *)
(***************************************************************************)

\* The launcher and its unit: nothing is requested before the start or after Wait has returned.
LaunchInv ==
  /\ position \in {"check", "admit", "spawn"} => launcher = "none"
  /\ launcher = "none" => unit = "none"
  /\ reaped => launcher = "done"
  /\ exitOK => launcher \in {"exited", "done"} /\ unit = "gone"
  /\ position \in {"settle", "ended", "last", "lastWait", "lastSettle"} => reaped \/ "launcher" \in result

\* Why Run stops is fixed when it leaves the select, and its errors follow at the end.
WhyInv ==
  /\ position \in {"check", "admit", "spawn", "watch"} => why = "none"
  /\ position \notin {"check", "admit", "spawn", "watch", "returned"} => why # "none"
  /\ why = "done" => reaped
  /\ position # "returned" => result \subseteq {"launcher"}

\* Every settled observation brings a request that is still under way closer to its registration.
WindowInv ==
  /\ position \in {"force", "forced"} => samples = 0
  /\ position \in {"settle", "lastSettle"} /\ "launcher" \notin result /\ unit = "requested" => lag + samples <= Lag

\* What Run reports when it returns stays true.
OutcomeInv ==
  /\ ProvenInactive /\ SuccessIsComplete /\ StopIsReported
  /\ position = "returned" /\ result \cap {"cleanup", "launcher"} = {} => launcher \in {"none", "done"}

GuardInv == GuardTypeOK /\ LaunchInv /\ WhyInv /\ WindowInv /\ OutcomeInv

\* What the errors of Run contain, by why it ended and whether the cleanup is proved.
LEMMA ErrorsFacts ==
  ASSUME NEW clean \in BOOLEAN, result \subseteq Kinds, why \in {"ctx", "busy", "rss", "done"}
  PROVE  /\ Errors(clean) \subseteq Kinds /\ result \subseteq Errors(clean)
         /\ ~clean => "cleanup" \in Errors(clean)
         /\ why # "done" => why \in Errors(clean)
         /\ Errors(clean) = {} => clean /\ why = "done" /\ exitOK
<1>1. CASE why # "done"
  <2>1. Errors(clean) = result \cup (IF clean THEN {} ELSE {"cleanup"}) \cup {why} BY <1>1 DEF Errors
  <2> QED BY <1>1, <2>1 DEF Kinds
<1>2. CASE why = "done" /\ clean /\ ctx = "ended"
  <2>1. Errors(clean) = result \cup {"ctx"} BY <1>2 DEF Errors
  <2> QED BY <1>2, <2>1 DEF Kinds
<1>3. CASE why = "done" /\ ~(clean /\ ctx = "ended")
  <2>1. Errors(clean) = result \cup (IF clean THEN {} ELSE {"cleanup"}) \cup
          ((IF exitOK THEN {} ELSE {"command"}) \cup (IF clean /\ seen THEN {"active"} ELSE {})
             \cup (IF ctx = "ended" THEN {"ctx"} ELSE {}))
    BY <1>3 DEF Errors
  <2> QED BY <1>3, <2>1 DEF Kinds
<1> QED BY <1>1, <1>2, <1>3

\* The types in four parts: where everything stands, flags, counters and errors.
PlaceType ==
  /\ ctx \in {"live", "ended"} /\ launcher \in {"none", "running", "exited", "done"}
  /\ unit \in {"none", "requested", "active", "gone"}
  /\ position \in {"check", "admit", "spawn", "watch", "term", "before", "kill", "killed", "reap", "force", "forced",
             "settle", "ended", "last", "lastWait", "lastSettle", "returned"}
  /\ why \in {"none", "ctx", "busy", "rss", "done"}

FlagType ==
  busy \in BOOLEAN /\ exitOK \in BOOLEAN /\ seen \in BOOLEAN /\ unknown \in BOOLEAN /\ reaped \in BOOLEAN

CountType ==
  /\ lag \in 0..Lag /\ samples \in 0..Samples /\ failures \in 0..MaxFailures
  /\ tries \in 0..(IF Attempts > Kills THEN Attempts ELSE Kills)

LEMMA TypeParts == GuardTypeOK <=> PlaceType /\ FlagType /\ CountType /\ result \subseteq Kinds
BY DEF GuardTypeOK, PlaceType, FlagType, CountType

\* An answer "inactive" brings a request that is under way closer to its registration.
Nearer ==
  /\ unit # "active" /\ unit' = unit /\ failures' = failures
  /\ unit = "requested" => lag > 0 /\ lag' = lag - 1
  /\ unit # "requested" => lag' = lag

\* Any other answer, or none, may see it arrive.
Missed ==
  /\ unit' \in {unit, "active"} /\ lag' = lag
  /\ unit \in {"none", "gone"} => unit' = unit
  /\ failures' = failures \/ (failures < MaxFailures /\ failures' = failures + 1)

\* What one query does to what the manager knows.
LEMMA ObservedEffect ==
  ASSUME GuardTypeOK
  PROVE  /\ Observed("inactive") => Nearer
         /\ Observed("active") => Missed
         /\ Unobserved => Missed
BY DEF GuardTypeOK, Observed, Unobserved, Nearer, Missed

\* One observation of the first settling windows: one more towards the proof, the proof, or none.
LEMMA WindowCases ==
  ASSUME GuardTypeOK, Window
  PROVE  /\ position = "settle" /\ UNCHANGED <<ctx, busy, launcher, exitOK, why, reaped>>
         /\ \/ /\ Nearer /\ samples + 1 < Samples
               /\ position' = "settle" /\ samples' = samples + 1 /\ UNCHANGED <<tries, seen, unknown, result>>
            \/ /\ Nearer /\ samples + 1 >= Samples
               /\ position' = "returned" /\ result' = Errors(TRUE) /\ UNCHANGED cleanup
            \/ /\ Missed
               /\ position' \in {"settle", "ended"} /\ samples' = 0 /\ UNCHANGED result
               /\ tries' = 0 \/ (tries' = tries + 1 /\ tries + 1 < Attempts)
               /\ seen' \in BOOLEAN /\ unknown' \in BOOLEAN
<1> USE CountAssumption DEF GuardTypeOK, world, cleanup
<1>0. (Observed("inactive") => Nearer) /\ (Observed("active") => Missed) /\ (Unobserved => Missed)
  BY ObservedEffect, Zenon
<1>1. position = "settle" /\ UNCHANGED <<ctx, busy, launcher, exitOK, why, reaped>> BY DEF Window
<1>2. CASE Observed("inactive") /\ (IF samples + 1 >= Samples THEN Quiet(TRUE)
             ELSE position' = position /\ samples' = samples + 1 /\ UNCHANGED <<tries, seen, unknown, result>>)
  <2>1. CASE samples + 1 >= Samples
    <3>1. Quiet(TRUE) BY <1>2, <2>1
    <3> QED BY <1>0, <1>1, <1>2, <2>1, <3>1 DEF Quiet, Return
  <2>2. CASE ~(samples + 1 >= Samples)
    <3>1. position' = "settle" /\ samples' = samples + 1 /\ UNCHANGED <<tries, seen, unknown, result>>
      BY <1>0, <1>1, <1>2, <2>2
    <3>2. samples + 1 < Samples BY <2>2
    <3> QED BY <1>0, <1>1, <1>2, <3>1, <3>2
  <2> QED BY <2>1, <2>2
<1>3. CASE Observed("active") /\ Intervene(TRUE)
  BY <1>0, <1>1, <1>3 DEF Intervene
<1>4. CASE Unobserved /\ (IF tries + 1 >= Attempts THEN Intervene(FALSE)
             ELSE position' = position /\ samples' = 0 /\ tries' = tries + 1 /\ UNCHANGED <<seen, unknown, result>>)
  <2>1. CASE tries + 1 >= Attempts
    <3>1. Intervene(FALSE) BY <1>4, <2>1
    <3> QED BY <1>0, <1>1, <1>4, <3>1 DEF Intervene
  <2>2. CASE ~(tries + 1 >= Attempts)
    <3>1. position' = "settle" /\ samples' = 0 /\ tries' = tries + 1 /\ UNCHANGED <<seen, unknown, result>>
      BY <1>0, <1>1, <1>4, <2>2
    <3>2. tries + 1 < Attempts BY <2>2
    <3> QED BY <1>0, <1>1, <1>4, <3>1, <3>2
  <2> QED BY <2>1, <2>2
<1> QED BY <1>0, <1>1, <1>2, <1>3, <1>4 DEF Window, Query

\* The same after the intervention; a proof is worth nothing after an unknown state.
LEMMA AgainCases ==
  ASSUME GuardTypeOK, SettleAgain
  PROVE  /\ position = "lastSettle" /\ UNCHANGED <<ctx, busy, launcher, exitOK, why, reaped, tries, seen, unknown>>
         /\ \/ /\ Nearer /\ samples + 1 < Samples
               /\ position' = "lastSettle" /\ samples' = samples + 1 /\ UNCHANGED result
            \/ /\ Nearer /\ samples + 1 >= Samples
               /\ position' = "returned" /\ result' = Errors(~unknown) /\ UNCHANGED samples
            \/ /\ Missed
               /\ position' = "last" /\ UNCHANGED <<samples, result>>
<1> USE CountAssumption DEF GuardTypeOK, world, cleanup
<1>0. (Observed("inactive") => Nearer) /\ (Observed("active") => Missed) /\ (Unobserved => Missed)
  BY ObservedEffect, Zenon
<1>1. position = "lastSettle" /\ UNCHANGED <<ctx, busy, launcher, exitOK, why, reaped>> BY DEF SettleAgain
<1>2. CASE Observed("inactive") /\ (IF samples + 1 >= Samples THEN Quiet(~unknown)
             ELSE position' = position /\ samples' = samples + 1 /\ UNCHANGED <<tries, seen, unknown, result>>)
  BY <1>0, <1>1, <1>2 DEF Quiet, Return
<1>3. CASE (Observed("active") \/ Unobserved) /\ Again
  BY <1>0, <1>1, <1>3 DEF Again
<1> QED BY <1>0, <1>1, <1>2, <1>3 DEF SettleAgain, Query

\* One more SIGKILL, or the end with an error.
LEMMA KillCases ==
  ASSUME GuardTypeOK, KillAgain
  PROVE  /\ position = "last" /\ UNCHANGED <<ctx, busy, launcher, exitOK, lag, why, reaped, samples, seen, unknown>>
         /\ \/ /\ SignalUnit(TRUE) /\ position' = "lastWait" /\ UNCHANGED result
               /\ tries < Kills /\ tries' = tries + 1
            \/ /\ position' = "returned" /\ result' = Errors(FALSE) /\ UNCHANGED <<tries, unit, failures>>
<1>1. position = "last" /\ UNCHANGED <<ctx, busy, launcher, exitOK, lag, why, reaped>> BY DEF KillAgain, world
<1>2. CASE /\ tries < Kills /\ SignalUnit(TRUE) /\ tries' = tries + 1 /\ position' = "lastWait"
           /\ UNCHANGED <<samples, seen, unknown, result>>
  BY <1>1, <1>2
<1>3. CASE tries = Kills /\ Quiet(FALSE) /\ UNCHANGED <<unit, failures>>
  BY <1>1, <1>3 DEF Quiet, Return
<1> QED BY <1>1, <1>2, <1>3 DEF KillAgain

\* Every step keeps the types: where things stand,
LEMMA PlaceStep == ASSUME GuardInv, [GuardNext]_guardVars PROVE PlaceType'
<1> USE CountAssumption, TimingAssumption, FailureAssumption DEF GuardInv, GuardTypeOK, PlaceType, world, child, cleanup
<1>1. CASE CheckPriority BY <1>1 DEF CheckPriority, Decline, Return, Step
<1>2. CASE CheckAdmission BY <1>2 DEF CheckAdmission, Decline, Return, Step
<1>3. CASE Spawn BY <1>3 DEF Spawn, Decline, Return
<1>4. CASE LauncherDone BY <1>4 DEF LauncherDone, Settle
<1>5. CASE Terminate BY <1>5 DEF Terminate, SignalUnit
<1>6. CASE WaitBefore BY <1>6 DEF WaitBefore, TryReap, Observed, Unobserved
<1>7. CASE KillUnit BY <1>7 DEF KillUnit, SignalUnit
<1>8. CASE Reap BY <1>8 DEF Reap, Settle
<1>9. CASE KillLauncher BY <1>9 DEF KillLauncher
<1>10. CASE Forced BY <1>10 DEF Forced
<1>11. CASE Window
  <2>1. position = "settle" /\ UNCHANGED <<ctx, busy, launcher, exitOK, why, reaped>> BY <1>11, WindowCases
  <2>2. CASE /\ Nearer /\ samples + 1 < Samples
             /\ position' = "settle" /\ samples' = samples + 1 /\ UNCHANGED <<tries, seen, unknown, result>>
    BY <2>1, <2>2 DEF Nearer, Missed
  <2>3. CASE /\ Nearer /\ samples + 1 >= Samples
             /\ position' = "returned" /\ result' = Errors(TRUE) /\ UNCHANGED cleanup
    BY <2>1, <2>3 DEF Nearer, Missed
  <2>4. CASE /\ Missed
             /\ position' \in {"settle", "ended"} /\ samples' = 0 /\ UNCHANGED result
             /\ tries' = 0 \/ (tries' = tries + 1 /\ tries + 1 < Attempts)
             /\ seen' \in BOOLEAN /\ unknown' \in BOOLEAN
    BY <2>1, <2>4 DEF Nearer, Missed
  <2> QED BY <1>11, WindowCases, <2>2, <2>3, <2>4
<1>12. CASE TerminateUnit BY <1>12 DEF TerminateUnit, SignalUnit
<1>13. CASE WaitInactive BY <1>13 DEF WaitInactive, Observed, Unobserved
<1>14. CASE SettleAgain
  <2>1. position = "lastSettle" /\ UNCHANGED <<ctx, busy, launcher, exitOK, why, reaped, tries, seen, unknown>>
    BY <1>14, AgainCases
  <2>2. CASE /\ Nearer /\ samples + 1 < Samples
             /\ position' = "lastSettle" /\ samples' = samples + 1 /\ UNCHANGED result
    BY <2>1, <2>2 DEF Nearer, Missed
  <2>3. CASE /\ Nearer /\ samples + 1 >= Samples
             /\ position' = "returned" /\ result' = Errors(~unknown) /\ UNCHANGED samples
    BY <2>1, <2>3 DEF Nearer, Missed
  <2>4. CASE /\ Missed
             /\ position' = "last" /\ UNCHANGED <<samples, result>>
    BY <2>1, <2>4 DEF Nearer, Missed
  <2> QED BY <1>14, AgainCases, <2>2, <2>3, <2>4
<1>15. CASE KillAgain
  <2>1. /\ position = "last" /\ UNCHANGED <<ctx, busy, launcher, exitOK, lag, why, reaped, samples, seen, unknown>>
    BY <1>15, KillCases
  <2>2. CASE /\ SignalUnit(TRUE) /\ position' = "lastWait" /\ UNCHANGED result
             /\ tries < Kills /\ tries' = tries + 1
    BY <2>1, <2>2 DEF SignalUnit
  <2>3. CASE position' = "returned" /\ result' = Errors(FALSE) /\ UNCHANGED <<tries, unit, failures>>
    BY <2>1, <2>3
  <2> QED BY <1>15, KillCases, <2>2, <2>3
<1>16. CASE Stop BY <1>16 DEF Stop
<1>17. CASE ContextEnds BY <1>17 DEF ContextEnds
<1>18. CASE PriorityChanges BY <1>18 DEF PriorityChanges
<1>19. CASE Request BY <1>19 DEF Request
<1>20. CASE Register BY <1>20 DEF Register
<1>21. CASE UnitEnds BY <1>21 DEF UnitEnds
<1>22. CASE LauncherExits BY <1>22 DEF LauncherExits
<1>23. CASE Waited BY <1>23 DEF Waited
<1>24. CASE UNCHANGED guardVars BY <1>24 DEF guardVars
<1> QED
  BY <1>1, <1>2, <1>3, <1>4, <1>5, <1>6, <1>7, <1>8, <1>9, <1>10, <1>11, <1>12, <1>13, <1>14, <1>15, <1>16, <1>17, <1>18, <1>19, <1>20, <1>21, <1>22, <1>23, <1>24 DEF GuardNext, Run

\* the flags,
LEMMA FlagStep == ASSUME GuardInv, [GuardNext]_guardVars PROVE FlagType'
<1> USE CountAssumption, TimingAssumption, FailureAssumption DEF GuardInv, GuardTypeOK, FlagType, world, child, cleanup
<1>1. CASE CheckPriority BY <1>1 DEF CheckPriority, Decline, Return, Step
<1>2. CASE CheckAdmission BY <1>2 DEF CheckAdmission, Decline, Return, Step
<1>3. CASE Spawn BY <1>3 DEF Spawn, Decline, Return
<1>4. CASE LauncherDone BY <1>4 DEF LauncherDone, Settle
<1>5. CASE Terminate BY <1>5 DEF Terminate, SignalUnit
<1>6. CASE WaitBefore BY <1>6 DEF WaitBefore, TryReap, Observed, Unobserved
<1>7. CASE KillUnit BY <1>7 DEF KillUnit, SignalUnit
<1>8. CASE Reap BY <1>8 DEF Reap, Settle
<1>9. CASE KillLauncher BY <1>9 DEF KillLauncher
<1>10. CASE Forced BY <1>10 DEF Forced
<1>11. CASE Window
  <2>1. position = "settle" /\ UNCHANGED <<ctx, busy, launcher, exitOK, why, reaped>> BY <1>11, WindowCases
  <2>2. CASE /\ Nearer /\ samples + 1 < Samples
             /\ position' = "settle" /\ samples' = samples + 1 /\ UNCHANGED <<tries, seen, unknown, result>>
    BY <2>1, <2>2 DEF Nearer, Missed
  <2>3. CASE /\ Nearer /\ samples + 1 >= Samples
             /\ position' = "returned" /\ result' = Errors(TRUE) /\ UNCHANGED cleanup
    BY <2>1, <2>3 DEF Nearer, Missed
  <2>4. CASE /\ Missed
             /\ position' \in {"settle", "ended"} /\ samples' = 0 /\ UNCHANGED result
             /\ tries' = 0 \/ (tries' = tries + 1 /\ tries + 1 < Attempts)
             /\ seen' \in BOOLEAN /\ unknown' \in BOOLEAN
    BY <2>1, <2>4 DEF Nearer, Missed
  <2> QED BY <1>11, WindowCases, <2>2, <2>3, <2>4
<1>12. CASE TerminateUnit BY <1>12 DEF TerminateUnit, SignalUnit
<1>13. CASE WaitInactive BY <1>13 DEF WaitInactive, Observed, Unobserved
<1>14. CASE SettleAgain
  <2>1. position = "lastSettle" /\ UNCHANGED <<ctx, busy, launcher, exitOK, why, reaped, tries, seen, unknown>>
    BY <1>14, AgainCases
  <2>2. CASE /\ Nearer /\ samples + 1 < Samples
             /\ position' = "lastSettle" /\ samples' = samples + 1 /\ UNCHANGED result
    BY <2>1, <2>2 DEF Nearer, Missed
  <2>3. CASE /\ Nearer /\ samples + 1 >= Samples
             /\ position' = "returned" /\ result' = Errors(~unknown) /\ UNCHANGED samples
    BY <2>1, <2>3 DEF Nearer, Missed
  <2>4. CASE /\ Missed
             /\ position' = "last" /\ UNCHANGED <<samples, result>>
    BY <2>1, <2>4 DEF Nearer, Missed
  <2> QED BY <1>14, AgainCases, <2>2, <2>3, <2>4
<1>15. CASE KillAgain
  <2>1. /\ position = "last" /\ UNCHANGED <<ctx, busy, launcher, exitOK, lag, why, reaped, samples, seen, unknown>>
    BY <1>15, KillCases
  <2>2. CASE /\ SignalUnit(TRUE) /\ position' = "lastWait" /\ UNCHANGED result
             /\ tries < Kills /\ tries' = tries + 1
    BY <2>1, <2>2 DEF SignalUnit
  <2>3. CASE position' = "returned" /\ result' = Errors(FALSE) /\ UNCHANGED <<tries, unit, failures>>
    BY <2>1, <2>3
  <2> QED BY <1>15, KillCases, <2>2, <2>3
<1>16. CASE Stop BY <1>16 DEF Stop
<1>17. CASE ContextEnds BY <1>17 DEF ContextEnds
<1>18. CASE PriorityChanges BY <1>18 DEF PriorityChanges
<1>19. CASE Request BY <1>19 DEF Request
<1>20. CASE Register BY <1>20 DEF Register
<1>21. CASE UnitEnds BY <1>21 DEF UnitEnds
<1>22. CASE LauncherExits BY <1>22 DEF LauncherExits
<1>23. CASE Waited BY <1>23 DEF Waited
<1>24. CASE UNCHANGED guardVars BY <1>24 DEF guardVars
<1> QED
  BY <1>1, <1>2, <1>3, <1>4, <1>5, <1>6, <1>7, <1>8, <1>9, <1>10, <1>11, <1>12, <1>13, <1>14, <1>15, <1>16, <1>17, <1>18, <1>19, <1>20, <1>21, <1>22, <1>23, <1>24 DEF GuardNext, Run

\* the counters,
LEMMA CountStep == ASSUME GuardInv, [GuardNext]_guardVars PROVE CountType'
<1> USE CountAssumption, TimingAssumption, FailureAssumption DEF GuardInv, GuardTypeOK, CountType, world, child, cleanup
<1>1. CASE CheckPriority BY <1>1 DEF CheckPriority, Decline, Return, Step
<1>2. CASE CheckAdmission BY <1>2 DEF CheckAdmission, Decline, Return, Step
<1>3. CASE Spawn BY <1>3 DEF Spawn, Decline, Return
<1>4. CASE LauncherDone BY <1>4 DEF LauncherDone, Settle
<1>5. CASE Terminate BY <1>5 DEF Terminate, SignalUnit
<1>6. CASE WaitBefore BY <1>6 DEF WaitBefore, TryReap, Observed, Unobserved
<1>7. CASE KillUnit BY <1>7 DEF KillUnit, SignalUnit
<1>8. CASE Reap BY <1>8 DEF Reap, Settle
<1>9. CASE KillLauncher BY <1>9 DEF KillLauncher
<1>10. CASE Forced BY <1>10 DEF Forced
<1>11. CASE Window
  <2>1. position = "settle" /\ UNCHANGED <<ctx, busy, launcher, exitOK, why, reaped>> BY <1>11, WindowCases
  <2>2. CASE /\ Nearer /\ samples + 1 < Samples
             /\ position' = "settle" /\ samples' = samples + 1 /\ UNCHANGED <<tries, seen, unknown, result>>
    BY <2>1, <2>2 DEF Nearer, Missed
  <2>3. CASE /\ Nearer /\ samples + 1 >= Samples
             /\ position' = "returned" /\ result' = Errors(TRUE) /\ UNCHANGED cleanup
    BY <2>1, <2>3 DEF Nearer, Missed
  <2>4. CASE /\ Missed
             /\ position' \in {"settle", "ended"} /\ samples' = 0 /\ UNCHANGED result
             /\ tries' = 0 \/ (tries' = tries + 1 /\ tries + 1 < Attempts)
             /\ seen' \in BOOLEAN /\ unknown' \in BOOLEAN
    BY <2>1, <2>4 DEF Nearer, Missed
  <2> QED BY <1>11, WindowCases, <2>2, <2>3, <2>4
<1>12. CASE TerminateUnit BY <1>12 DEF TerminateUnit, SignalUnit
<1>13. CASE WaitInactive BY <1>13 DEF WaitInactive, Observed, Unobserved
<1>14. CASE SettleAgain
  <2>1. position = "lastSettle" /\ UNCHANGED <<ctx, busy, launcher, exitOK, why, reaped, tries, seen, unknown>>
    BY <1>14, AgainCases
  <2>2. CASE /\ Nearer /\ samples + 1 < Samples
             /\ position' = "lastSettle" /\ samples' = samples + 1 /\ UNCHANGED result
    BY <2>1, <2>2 DEF Nearer, Missed
  <2>3. CASE /\ Nearer /\ samples + 1 >= Samples
             /\ position' = "returned" /\ result' = Errors(~unknown) /\ UNCHANGED samples
    BY <2>1, <2>3 DEF Nearer, Missed
  <2>4. CASE /\ Missed
             /\ position' = "last" /\ UNCHANGED <<samples, result>>
    BY <2>1, <2>4 DEF Nearer, Missed
  <2> QED BY <1>14, AgainCases, <2>2, <2>3, <2>4
<1>15. CASE KillAgain
  <2>1. /\ position = "last" /\ UNCHANGED <<ctx, busy, launcher, exitOK, lag, why, reaped, samples, seen, unknown>>
    BY <1>15, KillCases
  <2>2. CASE /\ SignalUnit(TRUE) /\ position' = "lastWait" /\ UNCHANGED result
             /\ tries < Kills /\ tries' = tries + 1
    BY <2>1, <2>2 DEF SignalUnit
  <2>3. CASE position' = "returned" /\ result' = Errors(FALSE) /\ UNCHANGED <<tries, unit, failures>>
    BY <2>1, <2>3
  <2> QED BY <1>15, KillCases, <2>2, <2>3
<1>16. CASE Stop BY <1>16 DEF Stop
<1>17. CASE ContextEnds BY <1>17 DEF ContextEnds
<1>18. CASE PriorityChanges BY <1>18 DEF PriorityChanges
<1>19. CASE Request BY <1>19 DEF Request
<1>20. CASE Register BY <1>20 DEF Register
<1>21. CASE UnitEnds BY <1>21 DEF UnitEnds
<1>22. CASE LauncherExits BY <1>22 DEF LauncherExits
<1>23. CASE Waited BY <1>23 DEF Waited
<1>24. CASE UNCHANGED guardVars BY <1>24 DEF guardVars
<1> QED
  BY <1>1, <1>2, <1>3, <1>4, <1>5, <1>6, <1>7, <1>8, <1>9, <1>10, <1>11, <1>12, <1>13, <1>14, <1>15, <1>16, <1>17, <1>18, <1>19, <1>20, <1>21, <1>22, <1>23, <1>24 DEF GuardNext, Run

\* and the errors.
LEMMA KindStep == ASSUME GuardInv, [GuardNext]_guardVars PROVE result' \subseteq Kinds
<1> USE CountAssumption, TimingAssumption, FailureAssumption DEF GuardInv, GuardTypeOK, Kinds, WhyInv, world, child, cleanup
<1>1. CASE CheckPriority BY <1>1 DEF CheckPriority, Decline, Return, Step
<1>2. CASE CheckAdmission BY <1>2 DEF CheckAdmission, Decline, Return, Step
<1>3. CASE Spawn BY <1>3 DEF Spawn, Decline, Return
<1>4. CASE LauncherDone BY <1>4 DEF LauncherDone, Settle
<1>5. CASE Terminate BY <1>5 DEF Terminate, SignalUnit
<1>6. CASE WaitBefore BY <1>6 DEF WaitBefore, TryReap, Observed, Unobserved
<1>7. CASE KillUnit BY <1>7 DEF KillUnit, SignalUnit
<1>8. CASE Reap BY <1>8 DEF Reap, Settle
<1>9. CASE KillLauncher BY <1>9 DEF KillLauncher
<1>10. CASE Forced BY <1>10 DEF Forced
<1>11. CASE Window
  <2>1. position = "settle" /\ UNCHANGED <<ctx, busy, launcher, exitOK, why, reaped>> BY <1>11, WindowCases
  <2>2. CASE /\ Nearer /\ samples + 1 < Samples
             /\ position' = "settle" /\ samples' = samples + 1 /\ UNCHANGED <<tries, seen, unknown, result>>
    BY <2>1, <2>2 DEF Nearer, Missed
  <2>3. CASE /\ Nearer /\ samples + 1 >= Samples
             /\ position' = "returned" /\ result' = Errors(TRUE) /\ UNCHANGED cleanup
    BY <2>1, <2>3, ErrorsFacts DEF Nearer
  <2>4. CASE /\ Missed
             /\ position' \in {"settle", "ended"} /\ samples' = 0 /\ UNCHANGED result
             /\ tries' = 0 \/ (tries' = tries + 1 /\ tries + 1 < Attempts)
             /\ seen' \in BOOLEAN /\ unknown' \in BOOLEAN
    BY <2>1, <2>4 DEF Nearer, Missed
  <2> QED BY <1>11, WindowCases, <2>2, <2>3, <2>4
<1>12. CASE TerminateUnit BY <1>12 DEF TerminateUnit, SignalUnit
<1>13. CASE WaitInactive BY <1>13 DEF WaitInactive, Observed, Unobserved
<1>14. CASE SettleAgain
  <2>1. position = "lastSettle" /\ UNCHANGED <<ctx, busy, launcher, exitOK, why, reaped, tries, seen, unknown>>
    BY <1>14, AgainCases
  <2>2. CASE /\ Nearer /\ samples + 1 < Samples
             /\ position' = "lastSettle" /\ samples' = samples + 1 /\ UNCHANGED result
    BY <2>1, <2>2 DEF Nearer, Missed
  <2>3. CASE /\ Nearer /\ samples + 1 >= Samples
             /\ position' = "returned" /\ result' = Errors(~unknown) /\ UNCHANGED samples
    BY <2>1, <2>3, ErrorsFacts DEF Nearer
  <2>4. CASE /\ Missed
             /\ position' = "last" /\ UNCHANGED <<samples, result>>
    BY <2>1, <2>4 DEF Nearer, Missed
  <2> QED BY <1>14, AgainCases, <2>2, <2>3, <2>4
<1>15. CASE KillAgain
  <2>1. /\ position = "last" /\ UNCHANGED <<ctx, busy, launcher, exitOK, lag, why, reaped, samples, seen, unknown>>
    BY <1>15, KillCases
  <2>2. CASE /\ SignalUnit(TRUE) /\ position' = "lastWait" /\ UNCHANGED result
             /\ tries < Kills /\ tries' = tries + 1
    BY <2>1, <2>2 DEF SignalUnit
  <2>3. CASE position' = "returned" /\ result' = Errors(FALSE) /\ UNCHANGED <<tries, unit, failures>>
    BY <2>1, <2>3, ErrorsFacts
  <2> QED BY <1>15, KillCases, <2>2, <2>3
<1>16. CASE Stop BY <1>16 DEF Stop
<1>17. CASE ContextEnds BY <1>17 DEF ContextEnds
<1>18. CASE PriorityChanges BY <1>18 DEF PriorityChanges
<1>19. CASE Request BY <1>19 DEF Request
<1>20. CASE Register BY <1>20 DEF Register
<1>21. CASE UnitEnds BY <1>21 DEF UnitEnds
<1>22. CASE LauncherExits BY <1>22 DEF LauncherExits
<1>23. CASE Waited BY <1>23 DEF Waited
<1>24. CASE UNCHANGED guardVars BY <1>24 DEF guardVars
<1> QED
  BY <1>1, <1>2, <1>3, <1>4, <1>5, <1>6, <1>7, <1>8, <1>9, <1>10, <1>11, <1>12, <1>13, <1>14, <1>15, <1>16, <1>17, <1>18, <1>19, <1>20, <1>21, <1>22, <1>23, <1>24 DEF GuardNext, Run

\* A launcher that has been waited for stays so, and its unit follows its exit status.
LEMMA LaunchStep == ASSUME GuardInv, [GuardNext]_guardVars PROVE LaunchInv'
<1> USE CountAssumption, TimingAssumption, FailureAssumption DEF GuardInv, GuardTypeOK, LaunchInv, world, child, cleanup
<1>1. CASE CheckPriority BY <1>1 DEF CheckPriority, Decline, Return, Step
<1>2. CASE CheckAdmission BY <1>2 DEF CheckAdmission, Decline, Return, Step
<1>3. CASE Spawn BY <1>3 DEF Spawn, Decline, Return
<1>4. CASE LauncherDone BY <1>4 DEF LauncherDone, Settle
<1>5. CASE Terminate BY <1>5 DEF Terminate, SignalUnit
<1>6. CASE WaitBefore BY <1>6 DEF WaitBefore, TryReap, Observed, Unobserved
<1>7. CASE KillUnit BY <1>7 DEF KillUnit, SignalUnit
<1>8. CASE Reap BY <1>8 DEF Reap, Settle
<1>9. CASE KillLauncher BY <1>9 DEF KillLauncher
<1>10. CASE Forced BY <1>10 DEF Forced
<1>11. CASE Window
  <2>1. position = "settle" /\ UNCHANGED <<ctx, busy, launcher, exitOK, why, reaped>> BY <1>11, WindowCases
  <2>2. CASE /\ Nearer /\ samples + 1 < Samples
             /\ position' = "settle" /\ samples' = samples + 1 /\ UNCHANGED <<tries, seen, unknown, result>>
    BY <2>1, <2>2 DEF Nearer, Missed
  <2>3. CASE /\ Nearer /\ samples + 1 >= Samples
             /\ position' = "returned" /\ result' = Errors(TRUE) /\ UNCHANGED cleanup
    BY <2>1, <2>3, ErrorsFacts DEF Nearer
  <2>4. CASE /\ Missed
             /\ position' \in {"settle", "ended"} /\ samples' = 0 /\ UNCHANGED result
             /\ tries' = 0 \/ (tries' = tries + 1 /\ tries + 1 < Attempts)
             /\ seen' \in BOOLEAN /\ unknown' \in BOOLEAN
    BY <2>1, <2>4 DEF Nearer, Missed
  <2> QED BY <1>11, WindowCases, <2>2, <2>3, <2>4
<1>12. CASE TerminateUnit BY <1>12 DEF TerminateUnit, SignalUnit
<1>13. CASE WaitInactive BY <1>13 DEF WaitInactive, Observed, Unobserved
<1>14. CASE SettleAgain
  <2>1. position = "lastSettle" /\ UNCHANGED <<ctx, busy, launcher, exitOK, why, reaped, tries, seen, unknown>>
    BY <1>14, AgainCases
  <2>2. CASE /\ Nearer /\ samples + 1 < Samples
             /\ position' = "lastSettle" /\ samples' = samples + 1 /\ UNCHANGED result
    BY <2>1, <2>2 DEF Nearer, Missed
  <2>3. CASE /\ Nearer /\ samples + 1 >= Samples
             /\ position' = "returned" /\ result' = Errors(~unknown) /\ UNCHANGED samples
    BY <2>1, <2>3, ErrorsFacts DEF Nearer
  <2>4. CASE /\ Missed
             /\ position' = "last" /\ UNCHANGED <<samples, result>>
    BY <2>1, <2>4 DEF Nearer, Missed
  <2> QED BY <1>14, AgainCases, <2>2, <2>3, <2>4
<1>15. CASE KillAgain
  <2>1. /\ position = "last" /\ UNCHANGED <<ctx, busy, launcher, exitOK, lag, why, reaped, samples, seen, unknown>>
    BY <1>15, KillCases
  <2>2. CASE /\ SignalUnit(TRUE) /\ position' = "lastWait" /\ UNCHANGED result
             /\ tries < Kills /\ tries' = tries + 1
    BY <2>1, <2>2 DEF SignalUnit
  <2>3. CASE position' = "returned" /\ result' = Errors(FALSE) /\ UNCHANGED <<tries, unit, failures>>
    BY <2>1, <2>3, ErrorsFacts
  <2> QED BY <1>15, KillCases, <2>2, <2>3
<1>16. CASE Stop BY <1>16 DEF Stop
<1>17. CASE ContextEnds BY <1>17 DEF ContextEnds
<1>18. CASE PriorityChanges BY <1>18 DEF PriorityChanges
<1>19. CASE Request BY <1>19 DEF Request
<1>20. CASE Register BY <1>20 DEF Register
<1>21. CASE UnitEnds BY <1>21 DEF UnitEnds
<1>22. CASE LauncherExits BY <1>22 DEF LauncherExits
<1>23. CASE Waited BY <1>23 DEF Waited
<1>24. CASE UNCHANGED guardVars BY <1>24 DEF guardVars
<1> QED
  BY <1>1, <1>2, <1>3, <1>4, <1>5, <1>6, <1>7, <1>8, <1>9, <1>10, <1>11, <1>12, <1>13, <1>14, <1>15, <1>16, <1>17, <1>18, <1>19, <1>20, <1>21, <1>22, <1>23, <1>24 DEF GuardNext, Run

\* The reason is set once, where Run leaves the select.
LEMMA WhyStep == ASSUME GuardInv, [GuardNext]_guardVars PROVE WhyInv'
<1> USE CountAssumption, TimingAssumption, FailureAssumption DEF GuardInv, GuardTypeOK, WhyInv, LaunchInv, world, child, cleanup
<1>1. CASE CheckPriority BY <1>1 DEF CheckPriority, Decline, Return, Step
<1>2. CASE CheckAdmission BY <1>2 DEF CheckAdmission, Decline, Return, Step
<1>3. CASE Spawn BY <1>3 DEF Spawn, Decline, Return
<1>4. CASE LauncherDone BY <1>4 DEF LauncherDone, Settle
<1>5. CASE Terminate BY <1>5 DEF Terminate, SignalUnit
<1>6. CASE WaitBefore BY <1>6 DEF WaitBefore, TryReap, Observed, Unobserved
<1>7. CASE KillUnit BY <1>7 DEF KillUnit, SignalUnit
<1>8. CASE Reap BY <1>8 DEF Reap, Settle
<1>9. CASE KillLauncher BY <1>9 DEF KillLauncher
<1>10. CASE Forced BY <1>10 DEF Forced
<1>11. CASE Window
  <2>1. position = "settle" /\ UNCHANGED <<ctx, busy, launcher, exitOK, why, reaped>> BY <1>11, WindowCases
  <2>2. CASE /\ Nearer /\ samples + 1 < Samples
             /\ position' = "settle" /\ samples' = samples + 1 /\ UNCHANGED <<tries, seen, unknown, result>>
    BY <2>1, <2>2 DEF Nearer, Missed
  <2>3. CASE /\ Nearer /\ samples + 1 >= Samples
             /\ position' = "returned" /\ result' = Errors(TRUE) /\ UNCHANGED cleanup
    BY <2>1, <2>3, ErrorsFacts DEF Nearer
  <2>4. CASE /\ Missed
             /\ position' \in {"settle", "ended"} /\ samples' = 0 /\ UNCHANGED result
             /\ tries' = 0 \/ (tries' = tries + 1 /\ tries + 1 < Attempts)
             /\ seen' \in BOOLEAN /\ unknown' \in BOOLEAN
    BY <2>1, <2>4 DEF Nearer, Missed
  <2> QED BY <1>11, WindowCases, <2>2, <2>3, <2>4
<1>12. CASE TerminateUnit BY <1>12 DEF TerminateUnit, SignalUnit
<1>13. CASE WaitInactive BY <1>13 DEF WaitInactive, Observed, Unobserved
<1>14. CASE SettleAgain
  <2>1. position = "lastSettle" /\ UNCHANGED <<ctx, busy, launcher, exitOK, why, reaped, tries, seen, unknown>>
    BY <1>14, AgainCases
  <2>2. CASE /\ Nearer /\ samples + 1 < Samples
             /\ position' = "lastSettle" /\ samples' = samples + 1 /\ UNCHANGED result
    BY <2>1, <2>2 DEF Nearer, Missed
  <2>3. CASE /\ Nearer /\ samples + 1 >= Samples
             /\ position' = "returned" /\ result' = Errors(~unknown) /\ UNCHANGED samples
    BY <2>1, <2>3, ErrorsFacts DEF Nearer
  <2>4. CASE /\ Missed
             /\ position' = "last" /\ UNCHANGED <<samples, result>>
    BY <2>1, <2>4 DEF Nearer, Missed
  <2> QED BY <1>14, AgainCases, <2>2, <2>3, <2>4
<1>15. CASE KillAgain
  <2>1. /\ position = "last" /\ UNCHANGED <<ctx, busy, launcher, exitOK, lag, why, reaped, samples, seen, unknown>>
    BY <1>15, KillCases
  <2>2. CASE /\ SignalUnit(TRUE) /\ position' = "lastWait" /\ UNCHANGED result
             /\ tries < Kills /\ tries' = tries + 1
    BY <2>1, <2>2 DEF SignalUnit
  <2>3. CASE position' = "returned" /\ result' = Errors(FALSE) /\ UNCHANGED <<tries, unit, failures>>
    BY <2>1, <2>3, ErrorsFacts
  <2> QED BY <1>15, KillCases, <2>2, <2>3
<1>16. CASE Stop BY <1>16 DEF Stop
<1>17. CASE ContextEnds BY <1>17 DEF ContextEnds
<1>18. CASE PriorityChanges BY <1>18 DEF PriorityChanges
<1>19. CASE Request BY <1>19 DEF Request
<1>20. CASE Register BY <1>20 DEF Register
<1>21. CASE UnitEnds BY <1>21 DEF UnitEnds
<1>22. CASE LauncherExits BY <1>22 DEF LauncherExits
<1>23. CASE Waited BY <1>23 DEF Waited
<1>24. CASE UNCHANGED guardVars BY <1>24 DEF guardVars
<1> QED
  BY <1>1, <1>2, <1>3, <1>4, <1>5, <1>6, <1>7, <1>8, <1>9, <1>10, <1>11, <1>12, <1>13, <1>14, <1>15, <1>16, <1>17, <1>18, <1>19, <1>20, <1>21, <1>22, <1>23, <1>24 DEF GuardNext, Run

\* A settled observation without an answer starts the window again; one that finds nothing
\* takes a step off the lag of a request that is under way.
LEMMA WindowStep == ASSUME GuardInv, [GuardNext]_guardVars PROVE WindowInv'
<1> USE CountAssumption, TimingAssumption, FailureAssumption DEF GuardInv, GuardTypeOK, WindowInv, LaunchInv, world, child, cleanup
<1>1. CASE CheckPriority BY <1>1 DEF CheckPriority, Decline, Return, Step
<1>2. CASE CheckAdmission BY <1>2 DEF CheckAdmission, Decline, Return, Step
<1>3. CASE Spawn BY <1>3 DEF Spawn, Decline, Return
<1>4. CASE LauncherDone BY <1>4 DEF LauncherDone, Settle
<1>5. CASE Terminate BY <1>5 DEF Terminate, SignalUnit
<1>6. CASE WaitBefore BY <1>6 DEF WaitBefore, TryReap, Observed, Unobserved
<1>7. CASE KillUnit BY <1>7 DEF KillUnit, SignalUnit
<1>8. CASE Reap BY <1>8 DEF Reap, Settle
<1>9. CASE KillLauncher BY <1>9 DEF KillLauncher
<1>10. CASE Forced BY <1>10 DEF Forced
<1>11. CASE Window
  <2>1. position = "settle" /\ UNCHANGED <<ctx, busy, launcher, exitOK, why, reaped>> BY <1>11, WindowCases
  <2>2. CASE /\ Nearer /\ samples + 1 < Samples
             /\ position' = "settle" /\ samples' = samples + 1 /\ UNCHANGED <<tries, seen, unknown, result>>
    BY <2>1, <2>2 DEF Nearer, Missed
  <2>3. CASE /\ Nearer /\ samples + 1 >= Samples
             /\ position' = "returned" /\ result' = Errors(TRUE) /\ UNCHANGED cleanup
    BY <2>1, <2>3, ErrorsFacts DEF Nearer
  <2>4. CASE /\ Missed
             /\ position' \in {"settle", "ended"} /\ samples' = 0 /\ UNCHANGED result
             /\ tries' = 0 \/ (tries' = tries + 1 /\ tries + 1 < Attempts)
             /\ seen' \in BOOLEAN /\ unknown' \in BOOLEAN
    BY <2>1, <2>4 DEF Nearer, Missed
  <2> QED BY <1>11, WindowCases, <2>2, <2>3, <2>4
<1>12. CASE TerminateUnit BY <1>12 DEF TerminateUnit, SignalUnit
<1>13. CASE WaitInactive BY <1>13 DEF WaitInactive, Observed, Unobserved
<1>14. CASE SettleAgain
  <2>1. position = "lastSettle" /\ UNCHANGED <<ctx, busy, launcher, exitOK, why, reaped, tries, seen, unknown>>
    BY <1>14, AgainCases
  <2>2. CASE /\ Nearer /\ samples + 1 < Samples
             /\ position' = "lastSettle" /\ samples' = samples + 1 /\ UNCHANGED result
    BY <2>1, <2>2 DEF Nearer, Missed
  <2>3. CASE /\ Nearer /\ samples + 1 >= Samples
             /\ position' = "returned" /\ result' = Errors(~unknown) /\ UNCHANGED samples
    BY <2>1, <2>3, ErrorsFacts DEF Nearer
  <2>4. CASE /\ Missed
             /\ position' = "last" /\ UNCHANGED <<samples, result>>
    BY <2>1, <2>4 DEF Nearer, Missed
  <2> QED BY <1>14, AgainCases, <2>2, <2>3, <2>4
<1>15. CASE KillAgain
  <2>1. /\ position = "last" /\ UNCHANGED <<ctx, busy, launcher, exitOK, lag, why, reaped, samples, seen, unknown>>
    BY <1>15, KillCases
  <2>2. CASE /\ SignalUnit(TRUE) /\ position' = "lastWait" /\ UNCHANGED result
             /\ tries < Kills /\ tries' = tries + 1
    BY <2>1, <2>2 DEF SignalUnit
  <2>3. CASE position' = "returned" /\ result' = Errors(FALSE) /\ UNCHANGED <<tries, unit, failures>>
    BY <2>1, <2>3, ErrorsFacts
  <2> QED BY <1>15, KillCases, <2>2, <2>3
<1>16. CASE Stop BY <1>16 DEF Stop
<1>17. CASE ContextEnds BY <1>17 DEF ContextEnds
<1>18. CASE PriorityChanges BY <1>18 DEF PriorityChanges
<1>19. CASE Request BY <1>19 DEF Request
<1>20. CASE Register BY <1>20 DEF Register
<1>21. CASE UnitEnds BY <1>21 DEF UnitEnds
<1>22. CASE LauncherExits BY <1>22 DEF LauncherExits
<1>23. CASE Waited BY <1>23 DEF Waited
<1>24. CASE UNCHANGED guardVars BY <1>24 DEF guardVars
<1> QED
  BY <1>1, <1>2, <1>3, <1>4, <1>5, <1>6, <1>7, <1>8, <1>9, <1>10, <1>11, <1>12, <1>13, <1>14, <1>15, <1>16, <1>17, <1>18, <1>19, <1>20, <1>21, <1>22, <1>23, <1>24 DEF GuardNext, Run

\* Run returns from the cleanup, where the proof is complete, or with an error that says it is not.
LEMMA OutcomeStep == ASSUME GuardInv, [GuardNext]_guardVars PROVE OutcomeInv'
<1> USE CountAssumption, TimingAssumption, FailureAssumption DEF GuardInv, GuardTypeOK, OutcomeInv, ProvenInactive, SuccessIsComplete, StopIsReported, WindowInv, LaunchInv, WhyInv, world, child, cleanup
<1>1. CASE CheckPriority BY <1>1 DEF CheckPriority, Decline, Return, Step
<1>2. CASE CheckAdmission BY <1>2 DEF CheckAdmission, Decline, Return, Step
<1>3. CASE Spawn BY <1>3 DEF Spawn, Decline, Return
<1>4. CASE LauncherDone BY <1>4 DEF LauncherDone, Settle
<1>5. CASE Terminate BY <1>5 DEF Terminate, SignalUnit
<1>6. CASE WaitBefore BY <1>6 DEF WaitBefore, TryReap, Observed, Unobserved
<1>7. CASE KillUnit BY <1>7 DEF KillUnit, SignalUnit
<1>8. CASE Reap BY <1>8 DEF Reap, Settle
<1>9. CASE KillLauncher BY <1>9 DEF KillLauncher
<1>10. CASE Forced BY <1>10 DEF Forced
<1>11. CASE Window
  <2>1. position = "settle" /\ UNCHANGED <<ctx, busy, launcher, exitOK, why, reaped>> BY <1>11, WindowCases
  <2>2. CASE /\ Nearer /\ samples + 1 < Samples
             /\ position' = "settle" /\ samples' = samples + 1 /\ UNCHANGED <<tries, seen, unknown, result>>
    BY <2>1, <2>2 DEF Nearer, Missed
  <2>3. CASE /\ Nearer /\ samples + 1 >= Samples
             /\ position' = "returned" /\ result' = Errors(TRUE) /\ UNCHANGED cleanup
    <3> HIDE DEF OutcomeInv, ProvenInactive, SuccessIsComplete, StopIsReported
    <3>1. result \subseteq Errors(TRUE) /\ (why # "done" => why \in Errors(TRUE))
          /\ (~TRUE => "cleanup" \in Errors(TRUE)) /\ (Errors(TRUE) = {} => why = "done" /\ exitOK)
      BY <2>1, ErrorsFacts
    <3>2. "launcher" \notin result => unit # "requested"
      BY <2>1, <2>3 DEF Nearer
    <3>3. "launcher" \notin result => launcher = "done" BY <2>1
    <3>4. result' \cap {"cleanup", "launcher"} = {} => "launcher" \notin result BY <2>3, <3>1
    <3>5. ProvenInactive' BY <2>3, <3>2, <3>4 DEF ProvenInactive, Nearer
    <3>6. SuccessIsComplete' BY <2>1, <2>3, <3>1 DEF SuccessIsComplete, Nearer
    <3>7. StopIsReported' BY <2>1, <2>3, <3>1 DEF StopIsReported
    <3> QED BY <2>1, <3>3, <3>4, <3>5, <3>6, <3>7 DEF OutcomeInv
  <2>4. CASE /\ Missed
             /\ position' \in {"settle", "ended"} /\ samples' = 0 /\ UNCHANGED result
             /\ tries' = 0 \/ (tries' = tries + 1 /\ tries + 1 < Attempts)
             /\ seen' \in BOOLEAN /\ unknown' \in BOOLEAN
    BY <2>1, <2>4 DEF Nearer, Missed
  <2> QED BY <1>11, WindowCases, <2>2, <2>3, <2>4
<1>12. CASE TerminateUnit BY <1>12 DEF TerminateUnit, SignalUnit
<1>13. CASE WaitInactive BY <1>13 DEF WaitInactive, Observed, Unobserved
<1>14. CASE SettleAgain
  <2>1. position = "lastSettle" /\ UNCHANGED <<ctx, busy, launcher, exitOK, why, reaped, tries, seen, unknown>>
    BY <1>14, AgainCases
  <2>2. CASE /\ Nearer /\ samples + 1 < Samples
             /\ position' = "lastSettle" /\ samples' = samples + 1 /\ UNCHANGED result
    BY <2>1, <2>2 DEF Nearer, Missed
  <2>3. CASE /\ Nearer /\ samples + 1 >= Samples
             /\ position' = "returned" /\ result' = Errors(~unknown) /\ UNCHANGED samples
    <3> HIDE DEF OutcomeInv, ProvenInactive, SuccessIsComplete, StopIsReported
    <3>1. result \subseteq Errors((~unknown)) /\ (why # "done" => why \in Errors((~unknown)))
          /\ (~(~unknown) => "cleanup" \in Errors((~unknown))) /\ (Errors((~unknown)) = {} => why = "done" /\ exitOK)
      BY <2>1, ErrorsFacts
    <3>2. "launcher" \notin result => unit # "requested"
      BY <2>1, <2>3 DEF Nearer
    <3>3. "launcher" \notin result => launcher = "done" BY <2>1
    <3>4. result' \cap {"cleanup", "launcher"} = {} => "launcher" \notin result BY <2>3, <3>1
    <3>5. ProvenInactive' BY <2>3, <3>2, <3>4 DEF ProvenInactive, Nearer
    <3>6. SuccessIsComplete' BY <2>1, <2>3, <3>1 DEF SuccessIsComplete, Nearer
    <3>7. StopIsReported' BY <2>1, <2>3, <3>1 DEF StopIsReported
    <3> QED BY <2>1, <3>3, <3>4, <3>5, <3>6, <3>7 DEF OutcomeInv
  <2>4. CASE /\ Missed
             /\ position' = "last" /\ UNCHANGED <<samples, result>>
    BY <2>1, <2>4 DEF Nearer, Missed
  <2> QED BY <1>14, AgainCases, <2>2, <2>3, <2>4
<1>15. CASE KillAgain
  <2>1. /\ position = "last" /\ UNCHANGED <<ctx, busy, launcher, exitOK, lag, why, reaped, samples, seen, unknown>>
    BY <1>15, KillCases
  <2>2. CASE /\ SignalUnit(TRUE) /\ position' = "lastWait" /\ UNCHANGED result
             /\ tries < Kills /\ tries' = tries + 1
    BY <2>1, <2>2 DEF SignalUnit
  <2>3. CASE position' = "returned" /\ result' = Errors(FALSE) /\ UNCHANGED <<tries, unit, failures>>
    BY <2>1, <2>3, ErrorsFacts
  <2> QED BY <1>15, KillCases, <2>2, <2>3
<1>16. CASE Stop BY <1>16 DEF Stop
<1>17. CASE ContextEnds BY <1>17 DEF ContextEnds
<1>18. CASE PriorityChanges BY <1>18 DEF PriorityChanges
<1>19. CASE Request BY <1>19 DEF Request
<1>20. CASE Register BY <1>20 DEF Register
<1>21. CASE UnitEnds BY <1>21 DEF UnitEnds
<1>22. CASE LauncherExits BY <1>22 DEF LauncherExits
<1>23. CASE Waited BY <1>23 DEF Waited
<1>24. CASE UNCHANGED guardVars BY <1>24 DEF guardVars
<1> QED
  BY <1>1, <1>2, <1>3, <1>4, <1>5, <1>6, <1>7, <1>8, <1>9, <1>10, <1>11, <1>12, <1>13, <1>14, <1>15, <1>16, <1>17, <1>18, <1>19, <1>20, <1>21, <1>22, <1>23, <1>24 DEF GuardNext, Run

LEMMA GuardStart == GuardInit => GuardInv
<1> SUFFICES ASSUME GuardInit PROVE GuardInv OBVIOUS
<1>1. PlaceType /\ FlagType /\ result \subseteq Kinds BY DEF GuardInit, PlaceType, FlagType, Kinds
<1>2. CountType BY CountAssumption, TimingAssumption, FailureAssumption DEF GuardInit, CountType
<1>3. LaunchInv /\ WhyInv BY DEF GuardInit, LaunchInv, WhyInv
<1>4. WindowInv BY TimingAssumption DEF GuardInit, WindowInv
<1>5. OutcomeInv BY DEF GuardInit, OutcomeInv, ProvenInactive, SuccessIsComplete, StopIsReported
<1> QED BY <1>1, <1>2, <1>3, <1>4, <1>5, TypeParts DEF GuardInv

LEMMA GuardStep == GuardInv /\ [GuardNext]_guardVars => GuardInv'
<1> SUFFICES ASSUME GuardInv, [GuardNext]_guardVars PROVE GuardInv' OBVIOUS
<1>1. GuardTypeOK'
  <2>1. PlaceType' /\ FlagType' /\ CountType' /\ result' \subseteq Kinds
    BY PlaceStep, FlagStep, CountStep, KindStep
  <2> QED BY <2>1 DEF GuardTypeOK, PlaceType, FlagType, CountType
<1>2. LaunchInv' /\ WhyInv' BY LaunchStep, WhyStep
<1>3. WindowInv' /\ OutcomeInv' BY WindowStep, OutcomeStep
<1> QED BY <1>1, <1>2, <1>3 DEF GuardInv

\* Run returns without a cleanup error only when no unit is active and none can still appear, a
\* success is the command's own, and a stopped command says why: for any number of samples, attempts
\* and signals, and whatever queries and signals fail, as long as a request that is under way is
\* registered within fewer observations than a proof takes (Command.Run, cleanupUnitAfterLauncherExit).
THEOREM Guard == GuardSpec => []GuardSound
<1>1. GuardInit => GuardInv BY GuardStart
<1>2. GuardInv /\ [GuardNext]_guardVars => GuardInv' BY GuardStep
<1>3. GuardInv => GuardSound BY DEF GuardInv, OutcomeInv, GuardSound
<1> QED BY <1>1, <1>2, <1>3, PTL DEF GuardSpec

(***************************************************************************)
(* The measurement of other workloads.                                     *)
(***************************************************************************)

\* What a process table says of a process: its number, and its start and ticks as numbers.
Entry == [parent : Pids \cup {0}, start : Nat, marked : BOOLEAN, ticks : Nat]
Reading == [start : Nat, ticks : Nat]
Watch == [watched : SUBSET Pids, alive : SUBSET Pids, spent : [Pids -> Nat], kept : SUBSET Pids, found : [Pids -> Nat], clock : Nat]

HostInv ==
  /\ DOMAIN process \subseteq Pids /\ process \in [DOMAIN process -> Entry]
  /\ clock \in Nat /\ starts \in Nat
  /\ \A p \in DOMAIN process : process[p].start <= starts

\* What the sample under way has read so far.
Shown == IF step \in Sampling THEN look.seen ELSE << >>

LookInv ==
  /\ conflicts \subseteq Pids
  /\ look = [left |-> look.left, seen |-> look.seen, clock |-> look.clock] /\ look.clock \in Nat
  /\ look.left \subseteq Pids /\ DOMAIN look.seen \subseteq Pids
  /\ DOMAIN Shown \subseteq conflicts /\ DOMAIN Shown \cap look.left = {} /\ Shown \in [DOMAIN Shown -> Reading]
  /\ step \in Sampling => look.left \subseteq conflicts
  /\ \A p \in DOMAIN Shown : Shown[p].start <= starts

BaselineInv ==
  /\ baseline.clock \in Nat /\ DOMAIN baseline.of \subseteq Pids /\ baseline.of \in [DOMAIN baseline.of -> Reading]
  /\ \A p \in DOMAIN baseline.of : baseline.of[p].start <= starts
  /\ before \in Watch /\ before.watched = DOMAIN baseline.of /\ before.clock = baseline.clock

\* A process is the one that was read, and has used what it had and what it spent since.
SameRun(p, taken) ==
  p \in DOMAIN process /\ process[p].start = taken.start => p \in before.alive
Spent(p, taken) ==
  p \in before.alive => process[p].start = taken.start /\ process[p].ticks = taken.ticks + before.spent[p]

\* Start times tell the processes apart: what was read last of each is followed for as long as it runs.
WatchInv ==
  /\ before.alive \subseteq DOMAIN process /\ before.alive \subseteq DOMAIN baseline.of \cup DOMAIN Shown
  /\ \A p \in DOMAIN Shown : SameRun(p, Shown[p]) /\ Spent(p, Shown[p])
  /\ \A p \in DOMAIN baseline.of \ DOMAIN Shown : SameRun(p, baseline.of[p]) /\ Spent(p, baseline.of[p])

\* The processes of the baseline that the sample under way has found again.
KeptInv ==
  \A p \in DOMAIN Shown \cap DOMAIN baseline.of :
    Shown[p].start = baseline.of[p].start =>
      p \in before.kept /\ Shown[p].ticks = baseline.of[p].ticks + before.found[p]

LoadInv == HostInv /\ LookInv /\ BaselineInv /\ WatchInv /\ KeptInv

\* The sum the check takes is the sum of what was really used: both add the same, in the same order.
LEMMA SameSum ==
  ASSUME NEW sample,
         \A p \in conflicts : (IF sample[p].ticks > baseline.of[p].ticks
                               THEN sample[p].ticks - baseline.of[p].ticks ELSE 0) = FoundSince(p)
  PROVE  Used(sample) = MapThenSumSet(FoundSince, conflicts)
<1> DEFINE taken(s) == CHOOSE x \in s : TRUE
           used(p) == IF sample[p].ticks > baseline.of[p].ticks THEN sample[p].ticks - baseline.of[p].ticks ELSE 0
           F(h) == [s \in SUBSET conflicts |-> IF s = {} THEN 0 ELSE used(taken(s)) + h[s \ {taken(s)}]]
           G(h) == [s \in SUBSET conflicts |-> IF s = {} THEN 0 ELSE FoundSince(taken(s)) + h[s \ {taken(s)}]]
<1>1. Used(sample) = (CHOOSE h : h = F(h))[conflicts]
  BY Zenon DEF Used, MapThenSumSet, MapThenFoldSet
<1>2. MapThenSumSet(FoundSince, conflicts) = (CHOOSE h : h = G(h))[conflicts]
  BY Zenon DEF MapThenSumSet, MapThenFoldSet
<1>3. ASSUME NEW h PROVE F(h) = G(h)
  <2>1. ASSUME NEW s \in SUBSET conflicts, s # {} PROVE used(taken(s)) = FoundSince(taken(s))
    <3>1. taken(s) \in s BY <2>1, Zenon
    <3> QED BY <3>1
  <2> HIDE DEF taken, used
  <2> QED BY <2>1
<1>4. (CHOOSE h : h = F(h)) = (CHOOSE h : h = G(h))
  <2> HIDE DEF F, G
  <2> QED BY <1>3, Zenon
<1> HIDE DEF F, G
<1> QED BY <1>1, <1>2, <1>4

\* A measurement that admits covers everything it watches.
LEMMA Measured ==
  ASSUME BoundsAssumption, LoadInv, Measure, step' = "admitted"
  PROVE  Covered
<1>1. Comparable(look.seen) /\ Spare(Used(look.seen), look.clock - baseline.clock) /\ step \in Sampling
  <2> HIDE DEF Comparable, Spare, Used
  <2> QED BY DEF Measure, Outcome
<1>2. Shown = look.seen
  BY <1>1 DEF Shown
<1>3. /\ DOMAIN look.seen = conflicts
      /\ \A p \in conflicts : p \in DOMAIN baseline.of /\ baseline.of[p].start = look.seen[p].start
  BY <1>1, <1>2 DEF Comparable, SameProcess, LoadInv, LookInv
<1>4. DOMAIN baseline.of = conflicts
  <2>1. IsFiniteSet(DOMAIN baseline.of)
    <3>1. IsFiniteSet(Pids) BY DEF BoundsAssumption
    <3>2. DOMAIN baseline.of \subseteq Pids BY DEF LoadInv, BaselineInv
    <3> QED BY <3>1, <3>2, FS_Subset
  <2>2. conflicts \subseteq DOMAIN baseline.of BY <1>3
  <2>3. Cardinality(conflicts) = Cardinality(DOMAIN baseline.of)
    BY <1>1, <1>3 DEF Comparable, Complete
  <2> QED BY <2>1, <2>2, <2>3, FS_Subset
<1>5. \A p \in conflicts : p \in before.kept /\ look.seen[p].ticks = baseline.of[p].ticks + before.found[p]
  BY <1>2, <1>3, <1>4 DEF LoadInv, KeptInv
<1>6. Used(look.seen) = MapThenSumSet(FoundSince, conflicts)
  <2>1. ASSUME NEW p \in conflicts
        PROVE  (IF look.seen[p].ticks > baseline.of[p].ticks THEN look.seen[p].ticks - baseline.of[p].ticks ELSE 0) = FoundSince(p)
    <3>1. baseline.of[p].ticks \in Nat
      BY <1>3 DEF LoadInv, BaselineInv, Reading
    <3>2. before.found[p] \in Nat
      BY DEF LoadInv, BaselineInv, LookInv, Watch
    <3> QED BY <1>5, <3>1, <3>2 DEF FoundSince
  <2> QED BY <2>1, SameSum
<1>7. before.clock = baseline.clock /\ before.watched = conflicts
  BY <1>4 DEF LoadInv, BaselineInv
<1> QED BY <1>1, <1>5, <1>6, <1>7 DEF Covered

\* Processes start, end and use the processors.
LEMMA HostStep ==
  ASSUME BoundsAssumption, LoadInv,
         \/ \E q, p \in Pids, marked \in BOOLEAN : Fork(q, p, marked)
         \/ \E p \in Pids : End(p)
         \/ \E p \in before.alive \cup Conflicts(process) \cup {0} : Tick(p)
  PROVE  LoadInv'
<1> USE DEF LoadInv, BoundsAssumption
<1>1. ASSUME NEW q \in Pids, NEW p \in Pids, NEW marked \in BOOLEAN, Fork(q, p, marked) PROVE LoadInv'
  <2>1. HostInv' BY <1>1 DEF Fork, HostInv, Entry
  <2>2. UNCHANGED <<step, look, conflicts, baseline, before, Shown>> /\ starts' = starts + 1 /\ starts \in Nat
    BY <1>1 DEF Fork, HostInv, Shown
  <2>3. /\ DOMAIN process' = DOMAIN process \cup {p} /\ p \notin DOMAIN process /\ process'[p].start = starts + 1
        /\ \A r \in DOMAIN process : process'[r] = process[r]
    BY <1>1 DEF Fork
  <2>4. LookInv' BY <2>2 DEF LookInv, Reading
  <2>5. BaselineInv' BY <2>2 DEF BaselineInv, Reading
  <2>6. WatchInv'
    <3>1. (before.alive \subseteq DOMAIN process /\ before.alive \subseteq DOMAIN baseline.of \cup DOMAIN Shown)'
      BY <2>2, <2>3 DEF WatchInv
    <3>2. ASSUME NEW r \in DOMAIN Shown PROVE (SameRun(r, Shown[r]) /\ Spent(r, Shown[r]))'
      <4>1. Shown[r].start <= starts /\ Shown[r].start \in Nat BY DEF LookInv, Reading
      <4>2. SameRun(r, Shown[r]) /\ Spent(r, Shown[r]) BY DEF WatchInv
      <4>3. r # p \/ starts + 1 # Shown[r].start BY <2>2, <4>1
      <4> QED BY <2>2, <2>3, <3>1, <4>2, <4>3 DEF SameRun, Spent, WatchInv
    <3>3. ASSUME NEW r \in DOMAIN baseline.of \ DOMAIN Shown PROVE (SameRun(r, baseline.of[r]) /\ Spent(r, baseline.of[r]))'
      <4>1. baseline.of[r].start <= starts /\ baseline.of[r].start \in Nat BY DEF BaselineInv, Reading
      <4>2. SameRun(r, baseline.of[r]) /\ Spent(r, baseline.of[r]) BY DEF WatchInv
      <4>3. r # p \/ starts + 1 # baseline.of[r].start BY <2>2, <4>1
      <4> QED BY <2>2, <2>3, <3>1, <4>2, <4>3 DEF SameRun, Spent, WatchInv
    <3> QED BY <2>2, <3>1, <3>2, <3>3 DEF WatchInv
  <2>7. KeptInv' BY <2>2 DEF KeptInv
  <2> QED BY <2>1, <2>4, <2>5, <2>6, <2>7
<1>2. ASSUME NEW p \in Pids, End(p) PROVE LoadInv'
  <2>1. HostInv' BY <1>2 DEF End, HostInv, Entry
  <2>2. UNCHANGED <<step, look, conflicts, baseline, starts, Shown>>
    BY <1>2 DEF End, Shown
  <2>3. /\ DOMAIN process' = DOMAIN process \ {p}
        /\ \A r \in DOMAIN process' : process'[r].start = process[r].start /\ process'[r].ticks = process[r].ticks
    <3>1. process' = [q \in DOMAIN process \ {p} |->
                       IF process[q].parent = p THEN [process[q] EXCEPT !.parent = 1] ELSE process[q]]
      BY <1>2 DEF End
    <3>2. ASSUME NEW r \in DOMAIN process
          PROVE  LET e == [process[r] EXCEPT !.parent = 1] IN e.start = process[r].start /\ e.ticks = process[r].ticks
      <4>1. process[r] \in Entry BY DEF HostInv
      <4> QED BY <4>1 DEF Entry
    <3> QED BY <3>1, <3>2
  <2>4. /\ before' = [before EXCEPT !.alive = before.alive \ {p}, !.spent = [before.spent EXCEPT ![p] = 0]]
    BY <1>2 DEF End
  <2>5. /\ before' \in Watch /\ before'.alive = before.alive \ {p} /\ \A r \in Pids \ {p} : before'.spent[r] = before.spent[r]
        /\ before'.watched = before.watched /\ before'.kept = before.kept /\ before'.found = before.found /\ before'.clock = before.clock
    BY <2>4 DEF BaselineInv, Watch
  <2>6. LookInv' BY <2>2 DEF LookInv
  <2>7. BaselineInv' BY <2>2, <2>5 DEF BaselineInv
  <2>8. WatchInv'
    <3>1. (before.alive \subseteq DOMAIN process /\ before.alive \subseteq DOMAIN baseline.of \cup DOMAIN Shown)'
      BY <2>2, <2>3, <2>5 DEF WatchInv
    <3>2. ASSUME NEW r, NEW taken, SameRun(r, taken), Spent(r, taken), r \in Pids
          PROVE  SameRun(r, taken)' /\ Spent(r, taken)'
      BY <2>3, <2>5, <3>1, <3>2 DEF SameRun, Spent
    <3>3. DOMAIN Shown \subseteq Pids /\ DOMAIN baseline.of \subseteq Pids BY DEF LookInv, BaselineInv
    <3> QED BY <2>2, <3>1, <3>2, <3>3 DEF WatchInv, SameRun, Spent
  <2>9. KeptInv' BY <2>2, <2>5 DEF KeptInv
  <2> QED BY <2>1, <2>6, <2>7, <2>8, <2>9
<1>3. ASSUME NEW p, Tick(p) PROVE LoadInv'
  <2>1. HostInv' BY <1>3 DEF Tick, HostInv, Entry
  <2>2. UNCHANGED <<step, look, conflicts, baseline, starts, Shown>>
    BY <1>3 DEF Tick, Shown
  <2>3. /\ DOMAIN process' = DOMAIN process
        /\ \A r \in DOMAIN process : /\ process'[r].start = process[r].start
                                     /\ process'[r].ticks = IF r = p THEN process[r].ticks + 1 ELSE process[r].ticks
    BY <1>3 DEF Tick, HostInv, Entry
  <2>4. before' = IF p \in before.alive THEN [before EXCEPT !.spent = [before.spent EXCEPT ![p] = before.spent[p] + 1]] ELSE before
    BY <1>3 DEF Tick
  <2>5. /\ before' \in Watch /\ before'.alive = before.alive
        /\ \A r \in before.alive : before'.spent[r] = IF r = p THEN before.spent[r] + 1 ELSE before.spent[r]
        /\ before'.watched = before.watched /\ before'.kept = before.kept /\ before'.found = before.found /\ before'.clock = before.clock
    BY <2>4 DEF BaselineInv, Watch
  <2>6. LookInv' BY <2>2 DEF LookInv
  <2>7. BaselineInv' BY <2>2, <2>5 DEF BaselineInv
  <2>8. WatchInv'
    <3>1. (before.alive \subseteq DOMAIN process /\ before.alive \subseteq DOMAIN baseline.of \cup DOMAIN Shown)'
      BY <2>2, <2>3, <2>5 DEF WatchInv
    <3>2. ASSUME NEW r, NEW taken, SameRun(r, taken), Spent(r, taken), taken.ticks \in Nat
          PROVE  SameRun(r, taken)' /\ Spent(r, taken)'
      <4>1. r \in before.alive => before.spent[r] \in Nat BY DEF BaselineInv, Watch
      <4> QED BY <2>3, <2>5, <3>1, <3>2, <4>1 DEF SameRun, Spent, WatchInv
    <3>3. /\ \A r \in DOMAIN Shown : Shown[r].ticks \in Nat
          /\ \A r \in DOMAIN baseline.of : baseline.of[r].ticks \in Nat
      BY DEF LookInv, BaselineInv, Reading
    <3> QED BY <2>2, <3>1, <3>2, <3>3 DEF WatchInv, SameRun, Spent
  <2>9. KeptInv' BY <2>2, <2>5 DEF KeptInv
  <2> QED BY <2>1, <2>6, <2>7, <2>8, <2>9
<1> QED BY <1>1, <1>2, <1>3

\* Outside a sample the auxiliary variable moves with the baseline.
LEMMA LookStep ==
  ASSUME LoadInv, Shown = << >>, Shown' = << >>, UNCHANGED host,
         look' = [left |-> look'.left, seen |-> look'.seen, clock |-> look'.clock], look'.clock \in Nat,
         look'.left \subseteq Pids, DOMAIN look'.seen \subseteq Pids, conflicts' \subseteq Pids,
         step' \in Sampling => look'.left \subseteq conflicts',
         UNCHANGED <<baseline, before>> \/ (baseline' = NoSample /\ before' = Nobody)
  PROVE  LoadInv'
<1>1. HostInv' BY DEF LoadInv, HostInv, host
<1>2. LookInv' BY DEF LookInv
<1>3. CASE UNCHANGED <<baseline, before>>
  <2>1. BaselineInv' BY <1>3 DEF LoadInv, BaselineInv, host
  <2>2. WatchInv' BY <1>3 DEF LoadInv, WatchInv, SameRun, Spent, host
  <2>3. KeptInv' BY <1>3 DEF KeptInv
  <2> QED BY <1>1, <1>2, <2>1, <2>2, <2>3 DEF LoadInv
<1>4. CASE baseline' = NoSample /\ before' = Nobody
  <2>1. before' \in Watch /\ before'.watched = {} /\ before'.alive = {} /\ before'.clock = 0
    BY <1>4 DEF Nobody, Watch
  <2>2. baseline'.of = << >> /\ baseline'.clock = 0
    BY <1>4 DEF NoSample
  <2>3. BaselineInv' BY <2>1, <2>2 DEF BaselineInv
  <2>4. WatchInv' BY <2>1, <2>2 DEF WatchInv
  <2>5. KeptInv' BY <2>2 DEF KeptInv
  <2> QED BY <1>1, <1>2, <2>3, <2>4, <2>5 DEF LoadInv
<1> QED BY <1>3, <1>4

\* What a walk lists are processes.
LEMMA ConflictsListed == \A table : Conflicts(table) \subseteq DOMAIN table
BY DEF Conflicts, Below

\* The check walks the table, or ends.
LEMMA WalkStep ==
  ASSUME BoundsAssumption, LoadInv,
         \/ CheckStrictly \/ Unreadable \/ ClockUnreadable \/ Reconfigure \/ List \/ Relist \/ Listed \/ ReadClock
         \/ \E p \in Pids : ReadEntry(p)
         \/ UNCHANGED loadVars
  PROVE  LoadInv'
<1> USE DEF Idle, Walking, Sampling, Shown
<1>1. /\ look.left \subseteq Pids /\ DOMAIN look.seen \subseteq Pids /\ conflicts \subseteq Pids /\ DOMAIN process \subseteq Pids
      /\ look = [left |-> look.left, seen |-> look.seen, clock |-> look.clock] /\ look.clock \in Nat /\ clock \in Nat
  BY DEF LoadInv, LookInv, HostInv
<1>2. CASE \E next \in Walking : Walk(next) /\ (Idle \/ step = "asleep")
  BY <1>1, <1>2, LookStep DEF Walk, NoLook
<1>3. CASE (Admit \/ Refuse) /\ UNCHANGED host /\ step \notin Sampling
  BY <1>3, LookStep DEF Admit, Refuse, Outcome, NoLook
<1>4. CASE Reconfigure
  BY <1>1, <1>4, LookStep DEF Reconfigure
<1>5. ASSUME NEW p \in Pids, ReadEntry(p) PROVE LoadInv'
  <2>1. /\ step' = step /\ step \in Walking /\ UNCHANGED <<host, conflicts, baseline, before>>
        /\ look'.left = look.left \ {p} /\ look'.clock = look.clock
        /\ look' = [left |-> look'.left, seen |-> look'.seen, clock |-> look'.clock]
    BY <1>1, <1>5 DEF ReadEntry
  <2>2. look'.seen = look.seen \/ DOMAIN look'.seen = DOMAIN look.seen \cup {p}
    BY <1>1, <1>5 DEF ReadEntry, With
  <2>3. DOMAIN look'.seen \subseteq Pids
    BY <1>1, <2>2
  <2> QED BY <1>1, <2>1, <2>3, LookStep
<1>6. CASE Listed
  <2>1. Conflicts(look.seen) \subseteq Pids
    BY <1>1, ConflictsListed
  <2>2. step \in Walking /\ UNCHANGED host
    BY <1>6 DEF Listed
  <2>3. CASE Admit \/ Refuse
    BY <1>3, <2>2, <2>3
  <2>4. CASE Outcome("admitted") /\ baseline' = NoSample /\ before' = Nobody
    BY <2>2, <2>4, LookStep DEF Outcome, NoLook
  <2>5. CASE step' \in {"listed", "relisted"} /\ conflicts' = Conflicts(look.seen) /\ look' = NoLook /\ UNCHANGED <<baseline, before>>
    BY <2>1, <2>2, <2>5, LookStep DEF NoLook
  <2> QED BY <1>6, <2>3, <2>4, <2>5 DEF Listed
<1>7. CASE ReadClock
  BY <1>1, <1>7, LookStep DEF ReadClock
<1>8. CASE UNCHANGED loadVars
  BY <1>8 DEF loadVars, host, LoadInv, HostInv, LookInv, BaselineInv, WatchInv, KeptInv, SameRun, Spent
<1> QED
  BY <1>2, <1>3, <1>4, <1>5, <1>6, <1>7, <1>8 DEF CheckStrictly, Unreadable, ClockUnreadable, List, Relist

\* A process is read: what it has used since it was last read is found, and followed from here on.
LEMMA SampleStep ==
  ASSUME BoundsAssumption, LoadInv, NEW p \in Pids, ReadTicks(p)
  PROVE  LoadInv'
<1>1. /\ step \in Sampling /\ p \in look.left /\ p \in conflicts /\ p \notin DOMAIN look.seen /\ step' = step
      /\ UNCHANGED <<process, clock, starts, conflicts, baseline>> /\ Shown = look.seen /\ Shown' = look'.seen
  BY DEF ReadTicks, host, LoadInv, LookInv, Shown
<1>2. /\ look'.left = look.left \ {p} /\ look'.clock = look.clock
      /\ look' = [left |-> look'.left, seen |-> look'.seen, clock |-> look'.clock]
  BY DEF ReadTicks, LoadInv, LookInv
<1>3. HostInv' BY <1>1 DEF LoadInv, HostInv
<1>4. CASE p \notin DOMAIN process
  <2>1. look'.seen = look.seen /\ before' = before
    BY <1>4 DEF ReadTicks, LoadInv, LookInv
  <2>2. LookInv' BY <1>1, <1>2, <2>1 DEF LoadInv, LookInv
  <2>3. BaselineInv' BY <1>1, <2>1 DEF LoadInv, BaselineInv
  <2>4. WatchInv' BY <1>1, <2>1 DEF LoadInv, WatchInv, SameRun, Spent
  <2>5. KeptInv' BY <1>1, <2>1 DEF LoadInv, KeptInv
  <2> QED BY <1>3, <2>2, <2>3, <2>4, <2>5 DEF LoadInv
<1>5. CASE p \in DOMAIN process
  <2> DEFINE entry == [start |-> process[p].start, ticks |-> process[p].ticks]
  <2>1. entry \in Reading /\ entry.start <= starts /\ entry.start = process[p].start /\ entry.ticks = process[p].ticks /\ entry.ticks \in Nat
    BY <1>5 DEF LoadInv, HostInv, Entry, Reading
  <2> HIDE DEF entry
  <2>2. look'.seen = With(look.seen, p, entry)
    BY <1>5 DEF ReadTicks, LoadInv, LookInv, entry
  <2>3. /\ DOMAIN look'.seen = DOMAIN look.seen \cup {p} /\ look'.seen[p] = entry
        /\ look'.seen \in [DOMAIN look'.seen -> Reading \cup {look.seen[r] : r \in DOMAIN look.seen}]
        /\ \A r \in DOMAIN look.seen : look'.seen[r] = look.seen[r]
    BY <1>1, <2>1, <2>2 DEF With
  <2>4. LookInv'
    <3>1. Shown' \in [DOMAIN Shown' -> Reading] BY <1>1, <2>1, <2>3 DEF LoadInv, LookInv
    <3> QED BY <1>1, <1>2, <2>1, <2>3, <3>1 DEF LoadInv, LookInv
  <2>5. before' = [before EXCEPT !.alive = before.alive \cup {p}, !.spent = [before.spent EXCEPT ![p] = 0],
                                 !.kept = before.kept \cup (before.alive \cap {p}),
                                 !.found = [before.found EXCEPT ![p] = before.spent[p]]]
    BY <1>5 DEF ReadTicks
  <2>6. /\ before' \in Watch /\ before'.watched = before.watched /\ before'.clock = before.clock
        /\ before'.alive = before.alive \cup {p} /\ before'.kept = before.kept \cup (before.alive \cap {p})
        /\ before'.spent[p] = 0 /\ before'.found[p] = before.spent[p]
        /\ \A r \in Pids \ {p} : before'.spent[r] = before.spent[r] /\ before'.found[r] = before.found[r]
    BY <2>5 DEF LoadInv, BaselineInv, Watch
  <2>7. BaselineInv' BY <1>1, <2>6 DEF LoadInv, BaselineInv
  <2>8. DOMAIN Shown \subseteq Pids /\ DOMAIN baseline.of \subseteq Pids
    BY DEF LoadInv, LookInv, BaselineInv
  <2>9. WatchInv'
    <3>1. (before.alive \subseteq DOMAIN process /\ before.alive \subseteq DOMAIN baseline.of \cup DOMAIN Shown)'
      BY <1>1, <1>5, <2>3, <2>6 DEF LoadInv, WatchInv
    <3>2. ASSUME NEW r \in DOMAIN Shown' PROVE (SameRun(r, Shown[r]) /\ Spent(r, Shown[r]))'
      <4>1. CASE r = p
        BY <1>1, <2>1, <2>3, <2>6, <4>1 DEF SameRun, Spent
      <4>2. CASE r # p
        BY <1>1, <2>3, <2>6, <2>8, <4>2 DEF SameRun, Spent, LoadInv, WatchInv
      <4> QED BY <4>1, <4>2
    <3>3. ASSUME NEW r \in DOMAIN baseline'.of \ DOMAIN Shown' PROVE (SameRun(r, baseline.of[r]) /\ Spent(r, baseline.of[r]))'
      BY <1>1, <2>3, <2>6, <2>8 DEF SameRun, Spent, LoadInv, WatchInv
    <3> QED BY <3>1, <3>2, <3>3 DEF WatchInv
  <2>10. KeptInv'
    <3> SUFFICES ASSUME NEW r \in DOMAIN Shown' \cap DOMAIN baseline.of, Shown'[r].start = baseline.of[r].start
                 PROVE  r \in before'.kept /\ Shown'[r].ticks = baseline.of[r].ticks + before'.found[r]
      BY <1>1 DEF KeptInv
    <3>1. CASE r = p
      <4>1. SameRun(p, baseline.of[p]) /\ Spent(p, baseline.of[p])
        BY <1>1, <3>1 DEF LoadInv, WatchInv
      <4>2. p \in before.alive
        BY <1>1, <1>5, <2>1, <2>3, <3>1, <4>1 DEF SameRun
      <4>3. process[p].ticks = baseline.of[p].ticks + before.spent[p]
        BY <4>1, <4>2 DEF Spent
      <4> QED BY <1>1, <2>1, <2>3, <2>6, <3>1, <4>2, <4>3
    <3>2. CASE r # p
      BY <1>1, <2>3, <2>6, <2>8, <3>2 DEF LoadInv, KeptInv
    <3> QED BY <3>1, <3>2
  <2> QED BY <1>3, <2>4, <2>7, <2>9, <2>10 DEF LoadInv
<1> QED BY <1>4, <1>5

\* The sample becomes the baseline, and what it read is followed.
LEMMA MeasureStep ==
  ASSUME BoundsAssumption, LoadInv, Measure
  PROVE  LoadInv'
<1>1. /\ step \in Sampling /\ Shown = look.seen /\ UNCHANGED <<process, clock, starts>>
      /\ baseline' = [of |-> look.seen, clock |-> look.clock]
      /\ before' = [Nobody EXCEPT !.watched = DOMAIN look.seen, !.alive = before.alive \cap DOMAIN look.seen,
                                  !.spent = [p \in Pids |-> IF p \in DOMAIN look.seen THEN before.spent[p] ELSE 0],
                                  !.clock = look.clock]
      /\ look' = NoLook /\ conflicts' = {} /\ step' \in {"admitted", "refused", "asleep"}
  <2> HIDE DEF Comparable, Spare, Used
  <2> QED BY DEF Measure, Outcome, host, Shown
<1>2. Shown' = << >> BY <1>1 DEF Shown, Sampling
<1>3. HostInv' BY <1>1 DEF LoadInv, HostInv
<1>4. LookInv' BY <1>1, <1>2 DEF LookInv, NoLook, Sampling
<1>5. /\ before' \in Watch /\ before'.watched = DOMAIN look.seen /\ before'.clock = look.clock
      /\ before'.alive = before.alive \cap DOMAIN look.seen
      /\ \A p \in DOMAIN look.seen : before'.spent[p] = before.spent[p]
  BY <1>1 DEF LoadInv, LookInv, BaselineInv, Watch, Nobody
<1>6. baseline'.of = look.seen /\ baseline'.clock = look.clock
  BY <1>1
<1>7. BaselineInv' BY <1>1, <1>5, <1>6 DEF LoadInv, LookInv, BaselineInv
<1>8. WatchInv' BY <1>1, <1>2, <1>5, <1>6 DEF LoadInv, WatchInv, SameRun, Spent
<1>9. KeptInv' BY <1>2 DEF KeptInv
<1> QED BY <1>3, <1>4, <1>7, <1>8, <1>9 DEF LoadInv

LEMMA LoadStart == ASSUME BoundsAssumption, LoadInit PROVE LoadInv
<1>1. HostInv BY DEF BoundsAssumption, LoadInit, HostInv, Entry, self
<1>2. Shown = << >> BY DEF LoadInit, Shown, Sampling
<1>3. LookInv BY <1>2 DEF LoadInit, LookInv, NoLook, Sampling
<1>4. before \in Watch /\ before.watched = {} /\ before.alive = {} /\ before.clock = 0
  BY DEF LoadInit, Nobody, Watch
<1>5. baseline.of = << >> /\ baseline.clock = 0 BY DEF LoadInit, NoSample
<1>6. BaselineInv BY <1>4, <1>5 DEF BaselineInv
<1>7. WatchInv BY <1>2, <1>4, <1>5 DEF WatchInv
<1>8. KeptInv BY <1>2 DEF KeptInv
<1> QED BY <1>1, <1>3, <1>6, <1>7, <1>8 DEF LoadInv

\* Work is admitted beside a visible workload only on a measurement that covers it, however its
\* processes start, end and hand their numbers on between any two readings (the yield policy, hostLoad).
THEOREM Admission == ASSUME BoundsAssumption PROVE LoadSpec => AdmissionMeasured
<1>1. LoadInit => LoadInv BY LoadStart
<1>2. LoadInv /\ [LoadNext]_loadVars => LoadInv'
  BY HostStep, WalkStep, SampleStep, MeasureStep DEF LoadNext
<1>3. LoadInv => [Measure /\ step' = "admitted" => Covered]_loadVars
  BY Measured
<1> QED BY <1>1, <1>2, <1>3, PTL DEF LoadSpec, AdmissionMeasured

(***************************************************************************)
(* The observation of another program's lease.                             *)
(***************************************************************************)

LEMMA LeaseInitInv ==
  ASSUME LeaseAssumption, LeaseInit
  PROVE  LeaseInv
BY DEF LeaseAssumption, LeaseInit, LeaseInv, LeaseTypeOK

\* Other programs: a file that comes to the path again has changed.
LEMMA LeaseChangeStep ==
  ASSUME LeaseAssumption, LeaseInv, Unlink \/ \E i \in Inodes : Create(i) \/ Rewrite(i) \/ Replace(i) \/ Lock(i) \/ Unlock(i)
  PROVE  LeaseInv'
<1> USE DEF LeaseInv, LeaseTypeOK, LeaseAssumption
<1>1. Change
  BY DEF Unlink, Create, Rewrite, Replace, Lock, Unlock
<1>2. UNCHANGED <<observer, pass, opened, free>> /\ observer # "clear" /\ changes' = changes + 1 /\ changes' \in 0..MaxChanges
  BY <1>1 DEF Change
<1>3. ASSUME NEW i \in Inodes, version' = [version EXCEPT ![i] = @ + 1] \/ version' = version
      PROVE  /\ version' \in [Inodes -> 0..MaxChanges] /\ \A j \in Inodes : version'[j] <= changes'
             /\ \A j \in Inodes : version[j] <= version'[j]
  <2>1. changes \in Nat /\ MaxChanges \in Nat /\ changes + 1 <= MaxChanges
    BY <1>2
  <2>2. ASSUME NEW j \in Inodes PROVE version[j] \in Nat /\ version[j] <= changes /\ version'[j] \in {version[j], version[j] + 1}
    BY <1>3
  <2>3. ASSUME NEW j \in Inodes
        PROVE  version'[j] \in 0..MaxChanges /\ version'[j] <= changes' /\ version[j] <= version'[j]
    <3> HIDE DEF LeaseInv, LeaseTypeOK
    <3> QED BY <1>2, <2>1, <2>2
  <2>4. version' = [j \in Inodes |-> version'[j]]
    BY <1>3
  <2>5. version' \in [Inodes -> 0..MaxChanges]
    <3> HIDE DEF LeaseInv, LeaseTypeOK
    <3> QED BY <2>3, <2>4
  <2> QED BY <2>3, <2>5
<1>4. /\ version' \in [Inodes -> 0..MaxChanges] /\ \A j \in Inodes : version'[j] <= changes'
      /\ \A j \in Inodes : version[j] <= version'[j]
  <2>1. CASE Unlink
    BY <1>3, <2>1 DEF Unlink, Touch
  <2>2. CASE \E i \in Inodes : Create(i) \/ Rewrite(i) \/ Replace(i) \/ Lock(i) \/ Unlock(i)
    BY <1>3, <2>2 DEF Create, Rewrite, Replace, Lock, Unlock, Touch
  <2> QED BY <2>1, <2>2
<1>5. /\ path' \in Inodes \cup {NoInode} /\ locked' \subseteq Inodes /\ linked' \subseteq Inodes
      /\ linked \subseteq linked' /\ (path' # NoInode => path' \in linked')
  BY DEF Unlink, Create, Rewrite, Replace, Lock, Unlock
<1>6. ASSUME opened.inode # NoInode
      PROVE  /\ path' = path \/ path' # opened.inode \/ version'[opened.inode] = version[opened.inode] + 1
             /\ version[opened.inode] \in Nat /\ version[opened.inode] <= version'[opened.inode] /\ version'[opened.inode] \in Nat
  <2>1. opened.inode \in Inodes /\ opened.inode \in linked
    BY <1>6
  <2>2. CASE Unlink
    BY <1>4, <1>6, <2>1, <2>2 DEF Unlink
  <2>3. CASE \E i \in Inodes : Create(i) \/ Rewrite(i) \/ Replace(i) \/ Lock(i) \/ Unlock(i)
    BY <1>4, <1>6, <2>1, <2>3 DEF Create, Rewrite, Replace, Lock, Unlock, Touch
  <2> QED BY <2>2, <2>3
<1>7. opened.inode # NoInode =>
        /\ opened.inode \in linked' /\ opened.version <= version'[opened.inode]
        /\ \A n \in 1..Len(free) : ~free[n] => observer = "refused" \/ path' # opened.inode \/ opened.version < version'[opened.inode]
  BY <1>5, <1>6
<1> QED BY <1>2, <1>4, <1>5, <1>7

LEMMA LeaseObserverStep ==
  ASSUME LeaseAssumption, LeaseInv, Unproven \/ OpenTree \/ RecheckBefore \/ ReadLocks \/ RecheckAfter
  PROVE  LeaseInv'
<1> USE DEF LeaseInv, LeaseTypeOK, LeaseAssumption
<1>1. CASE Unproven
  BY <1>1 DEF Unproven, RefuseRefresh, files
<1>2. CASE OpenTree
  BY <1>2 DEF OpenTree, files
<1>3. CASE RecheckBefore
  BY <1>3 DEF RecheckBefore, RefuseRefresh, files
<1>4. CASE ReadLocks
  <2>1. /\ observer = "read" /\ free' = Append(free, path \notin locked)
        /\ observer' = IF opened.inode \in locked THEN "refused" ELSE "after"
        /\ UNCHANGED <<path, version, locked, linked, changes, pass, opened>>
    BY <1>4 DEF ReadLocks, files, ModelLeaseTableBusy
  <2>2. Len(free) = pass - 1 /\ pass \in 1..2
    BY <2>1
  <2>3. /\ free' \in Seq(BOOLEAN) /\ Len(free') = pass
        /\ \A n \in 1..Len(free') : free'[n] = IF n = pass THEN path \notin locked ELSE free[n]
    BY <2>1, <2>2
  <2>4. ASSUME opened.inode # NoInode, NEW n \in 1..Len(free'), ~free'[n], observer' # "refused"
        PROVE  path # opened.inode \/ opened.version < version[opened.inode]
    <3>1. CASE n = pass
      BY <2>1, <2>3, <2>4, <3>1
    <3>2. CASE n # pass
      BY <2>1, <2>2, <2>3, <2>4, <3>2
    <3> QED BY <3>1, <3>2
  <2> QED BY <2>1, <2>2, <2>3, <2>4
<1>5. CASE RecheckAfter
  BY <1>5 DEF RecheckAfter, RefuseRefresh, files, Same
<1> QED BY <1>1, <1>2, <1>3, <1>4, <1>5

LEMMA LeaseStep ==
  ASSUME LeaseAssumption, LeaseInv, LeaseNext \/ UNCHANGED leaseVars
  PROVE  LeaseInv'
<1>1. CASE LeaseNext
  BY <1>1, LeaseChangeStep, LeaseObserverStep DEF LeaseNext
<1>2. CASE UNCHANGED leaseVars
  BY <1>2 DEF leaseVars, files, LeaseInv, LeaseTypeOK
<1> QED BY <1>1, <1>2

LEMMA LeaseConcludes ==
  ASSUME LeaseInv
  PROVE  LeaseTypeOK /\ LeaseObserved
<1>0. LeaseTypeOK
  BY DEF LeaseInv
<1> SUFFICES ASSUME observer = "clear" PROVE Len(free) = 2 /\ (opened.inode # NoInode => free = <<TRUE, TRUE>>)
  BY <1>0 DEF LeaseObserved
<1>1. Len(free) = 2 /\ DOMAIN free = 1..2
  BY DEF LeaseInv, LeaseTypeOK
<1>a. free = <<free[1], free[2]>>
  <2>1. free \in Seq(BOOLEAN)
    BY DEF LeaseInv, LeaseTypeOK
  <2> QED BY <1>1, <2>1
<1>2. ASSUME opened.inode # NoInode PROVE free = <<TRUE, TRUE>>
  <2>1. free[1] \in BOOLEAN /\ free[2] \in BOOLEAN
    <3>1. free \in Seq(BOOLEAN) /\ 1 \in 1..Len(free) /\ 2 \in 1..Len(free)
      BY <1>1 DEF LeaseInv, LeaseTypeOK
    <3> QED BY <3>1, ElementOfSeq
  <2>2. free[1] /\ free[2]
    BY <1>1, <1>2 DEF LeaseInv
  <2>3. free[1] = TRUE /\ free[2] = TRUE
    BY <2>1, <2>2
  <2> QED BY <1>a, <2>3
<1> QED BY <1>1, <1>2

(***************************************************************************)
(* The proof of confinement.                                               *)
(***************************************************************************)

LEMMA EnvelopeInitInv ==
  ASSUME EnvelopeAssumption, EnvelopeInit
  PROVE  EnvelopeInv
<1>1. thread \in [Tids -> {"unborn", "high", "half", "low", "gone"}]
  BY DEF EnvelopeInit
<1>2. proving = "exact" /\ listed = {} /\ todo = {} /\ passes = 0 /\ drifts = 0 /\ lowest = "low" /\ first = "none"
  BY DEF EnvelopeInit
<1>3. group \in Groups /\ within \in BOOLEAN /\ lowering \in BOOLEAN /\ changed = FALSE /\ lowered = FALSE
  BY DEF EnvelopeInit
<1>4. drifts \in 0..MaxDrifts /\ passes \in 0..Passes
  BY <1>2 DEF EnvelopeAssumption
<1>5. EnvelopeTypeOK
  BY <1>1, <1>2, <1>3, <1>4 DEF EnvelopeTypeOK
<1> QED BY <1>2, <1>3, <1>5 DEF EnvelopeInv, EnvelopeProven

\* Other threads and managers: a thread is born like one that lives.
LEMMA EnvelopeWorldStep ==
  ASSUME EnvelopeAssumption, EnvelopeInv,
         Drift \/ (\E t, u \in Tids : Clone(t, u)) \/ (\E t \in Tids : ThreadEnds(t))
  PROVE  EnvelopeInv'
<1>1. /\ UNCHANGED <<proving, lowering, first, listed, todo, changed, passes, lowest, lowered>>
      /\ thread \in [Tids -> {"unborn", "high", "half", "low", "gone"}] /\ proving \notin {"prepared", "failed"}
  BY DEF EnvelopeInv, EnvelopeTypeOK, Drift, Clone, ThreadEnds, Undecided, loop
<1>2. group' \in Groups /\ within' \in BOOLEAN /\ drifts' \in 0..MaxDrifts
  <2>1. group \in Groups /\ within \in BOOLEAN /\ drifts \in 0..MaxDrifts /\ MaxDrifts \in Nat
    BY DEF EnvelopeInv, EnvelopeTypeOK, EnvelopeAssumption
  <2>2. CASE Drift
    <3>1. drifts < MaxDrifts /\ drifts' = drifts + 1 BY <2>2 DEF Drift
    <3>2. drifts' \in 0..MaxDrifts BY <2>1, <3>1
    <3>3. group' \in Groups BY <2>1, <2>2 DEF Drift
    <3>4. within' \in BOOLEAN BY <2>1, <2>2 DEF Drift
    <3> QED BY <3>2, <3>3, <3>4
  <2>3. CASE \E t, u \in Tids : Clone(t, u)
    BY <2>1, <2>3 DEF Clone
  <2>4. CASE \E t \in Tids : ThreadEnds(t)
    BY <2>1, <2>4 DEF ThreadEnds
  <2> QED BY <2>2, <2>3, <2>4
<1>3. /\ thread' \in [Tids -> {"unborn", "high", "half", "low", "gone"}]
      /\ \A t \in Tids : \/ thread'[t] = thread[t]
                         \/ thread[t] \in {"high", "half", "low"} /\ thread'[t] = "gone"
                         \/ thread[t] = "unborn" /\ \E u \in Live : thread'[t] = thread[u]
  <2>1. CASE Drift
    BY <1>1, <2>1 DEF Drift
  <2>2. CASE \E t, u \in Tids : Clone(t, u)
    BY <1>1, <2>2 DEF Clone, Live
  <2>3. CASE \E t \in Tids : ThreadEnds(t)
    BY <1>1, <2>3 DEF ThreadEnds, Live
  <2> QED BY <2>1, <2>2, <2>3
<1>4. EnvelopeTypeOK'
  BY <1>1, <1>2, <1>3 DEF EnvelopeInv, EnvelopeTypeOK
<1>5. \A t \in listed' : thread'[t] # "unborn"
  BY <1>1, <1>3 DEF EnvelopeInv, EnvelopeTypeOK, Live
<1>6. ASSUME \A t \in Live : thread[t] = "low" PROVE \A t \in Live' : thread'[t] = "low"
  BY <1>1, <1>3, <1>6 DEF Live
<1>7. ASSUME NEW t \in todo, thread[t] # "low" PROVE thread'[t] # "low"
  BY <1>1, <1>3, <1>7 DEF EnvelopeInv, EnvelopeTypeOK, Live
<1>8. EnvelopeProven'
  BY <1>1, <1>6 DEF EnvelopeInv, EnvelopeProven
<1>9. proving' \in {"exactThreads", "threads", "threadsAgain"} /\ lowest' = "low" =>
        (\A t \in Live' : thread'[t] = "low") \/ (\E t \in todo' : thread'[t] # "low")
  BY <1>1, <1>6, <1>7 DEF EnvelopeInv
<1>10. proving' = "lower" => \A t \in listed' \ todo' : thread'[t] \in {"low", "gone"}
  BY <1>1, <1>3 DEF EnvelopeInv, EnvelopeTypeOK, Live
<1>11. proving' \notin {"list", "lower", "again", "failed"} => ~lowered'
  BY <1>1 DEF EnvelopeInv
<1> QED BY <1>4, <1>5, <1>8, <1>9, <1>10, <1>11 DEF EnvelopeInv

\* The threads as they are; what is listed now lives.
LEMMA Listing ==
  ASSUME EnvelopeInv
  PROVE  Live \subseteq Tids /\ \A t \in Live : thread[t] # "unborn"
BY DEF EnvelopeInv, EnvelopeTypeOK, Live

LEMMA InspectionStep ==
  ASSUME EnvelopeAssumption, EnvelopeInv,
         InspectionFails \/ RequireExact \/ AllInspected \/ ReservedUnit \/ RequireControls \/ \E t \in Tids : Inspect(t)
  PROVE  EnvelopeInv'
<1> USE DEF Go, GiveUp, ListThreads, surroundings, loop
<1>1. CASE InspectionFails
  BY <1>1 DEF InspectionFails, EnvelopeInv, EnvelopeTypeOK, EnvelopeProven, Live
<1>2. CASE RequireExact
  BY <1>2, Listing DEF RequireExact, EnvelopeInv, EnvelopeTypeOK, EnvelopeProven, Live
<1>3. CASE AllInspected
  BY <1>3 DEF AllInspected, EnvelopeInv, EnvelopeTypeOK, EnvelopeProven, Live
<1>4. CASE ReservedUnit
  BY <1>4 DEF ReservedUnit, EnvelopeInv, EnvelopeTypeOK, EnvelopeProven, Live
<1>5. CASE RequireControls
  BY <1>5, Listing DEF RequireControls, EnvelopeInv, EnvelopeTypeOK, EnvelopeProven, Live
<1>6. CASE \E t \in Tids : Inspect(t)
  BY <1>6 DEF Inspect, EnvelopeInv, EnvelopeTypeOK, EnvelopeProven, Live
<1> QED BY <1>1, <1>2, <1>3, <1>4, <1>5, <1>6

LEMMA LoweringStep ==
  ASSUME EnvelopeAssumption, EnvelopeInv, BeginPass \/ EndPass \/ \E t \in Tids : LowerThread(t)
  PROVE  EnvelopeInv'
<1>1. CASE BeginPass
  <2>1. CASE passes = Passes
    BY <1>1, <2>1 DEF BeginPass, GiveUp, Go, surroundings, loop, EnvelopeInv, EnvelopeTypeOK, EnvelopeProven, Live
  <2>2. CASE passes # Passes
    <3>1. /\ proving' = "lower" /\ listed' = Live /\ todo' = Live /\ changed' = FALSE /\ passes' = passes + 1
          /\ UNCHANGED <<surroundings, lowering, first, lowest, lowered>>
      BY <1>1, <2>2 DEF BeginPass
    <3>2. passes' \in 0..Passes
      BY <2>2, <3>1 DEF EnvelopeInv, EnvelopeTypeOK, EnvelopeAssumption
    <3>3. EnvelopeTypeOK'
      BY <3>1, <3>2, Listing DEF surroundings, EnvelopeInv, EnvelopeTypeOK
    <3> QED BY <3>1, <3>3, Listing DEF surroundings, EnvelopeInv, EnvelopeProven, Live
  <2> QED BY <2>1, <2>2
<1>2. CASE EndPass
  BY <1>2 DEF EndPass, Stable, Go, surroundings, loop, EnvelopeInv, EnvelopeTypeOK, EnvelopeProven, Live
<1>3. CASE \E t \in Tids : LowerThread(t)
  BY <1>3 DEF LowerThread, EnvelopeInv, EnvelopeTypeOK, EnvelopeProven, Live
<1> QED BY <1>1, <1>2, <1>3

LEMMA EnvelopeStep ==
  ASSUME EnvelopeAssumption, EnvelopeInv, EnvelopeNext \/ UNCHANGED envelopeVars
  PROVE  EnvelopeInv'
<1>1. CASE EnvelopeNext
  BY <1>1, EnvelopeWorldStep, InspectionStep, LoweringStep DEF EnvelopeNext
<1>2. CASE UNCHANGED envelopeVars
  BY <1>2 DEF envelopeVars, surroundings, loop, EnvelopeInv, EnvelopeTypeOK, EnvelopeProven, Live
<1> QED BY <1>1, <1>2

(***************************************************************************)
(* Reading an argument line.                                               *)
(***************************************************************************)

\* A set that contains 0 and every successor of its elements contains Nat.
LEMMA NatSetInduction ==
  ASSUME NEW T, 0 \in T, \A n \in Nat : n \in T => n + 1 \in T
  PROVE  Nat \subseteq T
<1> DEFINE R == {p \in Nat \X Nat : p[1] < p[2]}
           U == Nat \ T
<1>1. IsWellFoundedOn(R, Nat)
  <2>1. R = OpToRel(<, Nat)
    BY DEF OpToRel
  <2> QED BY <2>1, NatLessThanWellFounded
<1>2. SUFFICES ASSUME U # {} PROVE FALSE
  OBVIOUS
<1>3. PICK x \in U : \A y \in U : ~(<<y, x>> \in R)
  <2>1. U \subseteq Nat
    OBVIOUS
  <2> HIDE DEF U, R
  <2> QED BY <1>1, <1>2, <2>1, WFMin
<1>4. x \in Nat /\ x # 0 /\ x - 1 \in Nat /\ x - 1 < x
  OBVIOUS
<1>5. x - 1 \in T
  BY <1>3, <1>4
<1>6. (x - 1) + 1 = x
  BY <1>4
<1> QED BY <1>4, <1>5, <1>6

\* What a table of steps says at a word, given where the later words lead.
Led(rule, later, i, on) ==
  IF rule[i][on].end # "" THEN rule[i][on].end ELSE later[rule[i][on].next][rule[i][on].on]

\* Every step of a table that goes on goes forward.
Forward(rule, n) ==
  \A i \in 1..n+2, on \in SUBSET Switches :
    rule[i][on].end = "" => rule[i][on].next \in i+1..n+2 /\ rule[i][on].on \in SUBSET Switches

\* f says where the last k words lead.
Leads(f, rule, n, k) == \A i \in n+3-k..n+2, on \in SUBSET Switches : f[i][on] = Led(rule, f, i, on)

\* Read from its end, a table that goes forward leads somewhere from every word.
LEMMA LeadsExist ==
  ASSUME NEW n \in Nat, NEW rule, Forward(rule, n)
  PROVE  \E f : Leads(f, rule, n, n + 2)
<1> DEFINE T == {k \in Nat : k <= n + 2 => \E f : Leads(f, rule, n, k)}
<1>1. 0 \in T
  <2>1. Leads(<< >>, rule, n, 0)
    BY DEF Leads
  <2> QED BY <2>1
<1>2. ASSUME NEW k \in Nat, k \in T PROVE k + 1 \in T
  <2>1. SUFFICES ASSUME k + 1 <= n + 2 PROVE \E f : Leads(f, rule, n, k + 1)
    OBVIOUS
  <2>2. PICK f : Leads(f, rule, n, k)
    BY <1>2, <2>1
  <2> DEFINE m == n + 2 - k
             row == [on \in SUBSET Switches |-> Led(rule, f, m, on)]
             g == [i \in 1..n+2 |-> IF i = m THEN row ELSE f[i]]
  <2>3. m \in 1..n+2 /\ n + 3 - k = m + 1 /\ n + 3 - (k + 1) = m
    BY <2>1
  <2>4. ASSUME NEW i \in m..n+2, NEW on \in SUBSET Switches PROVE g[i][on] = Led(rule, f, i, on)
    <3>1. CASE i = m
      BY <2>3, <3>1
    <3>2. CASE i # m
      <4>1. i \in m+1..n+2 /\ i \in 1..n+2 BY <2>3, <3>2
      <4>2. g[i] = f[i] BY <3>2, <4>1
      <4>3. f[i][on] = Led(rule, f, i, on) BY <2>2, <2>3, <4>1 DEF Leads
      <4> QED BY <4>2, <4>3
    <3> QED BY <3>1, <3>2
  <2>5. ASSUME NEW i \in m..n+2, NEW on \in SUBSET Switches PROVE Led(rule, f, i, on) = Led(rule, g, i, on)
    <3>1. CASE rule[i][on].end # ""
      BY <3>1 DEF Led
    <3>2. CASE rule[i][on].end = ""
      <4>1. i \in 1..n+2 BY <2>3
      <4>2. rule[i][on].next \in i+1..n+2 BY <3>2, <4>1 DEF Forward
      <4>3. rule[i][on].next \in 1..n+2 /\ rule[i][on].next # m BY <2>3, <4>1, <4>2
      <4>4. g[rule[i][on].next] = f[rule[i][on].next] BY <4>3
      <4> HIDE DEF g
      <4> QED BY <3>2, <4>4 DEF Led
    <3> QED BY <3>1, <3>2
  <2> HIDE DEF g
  <2>6. \A i \in m..n+2, on \in SUBSET Switches : g[i][on] = Led(rule, g, i, on)
    BY <2>4, <2>5
  <2>7. Leads(g, rule, n, k + 1)
    BY <2>3, <2>6 DEF Leads
  <2> QED BY <2>7
<1>3. Nat \subseteq T
  <2> HIDE DEF T
  <2> QED BY <1>1, <1>2, NatSetInduction
<1> QED BY <1>3

\* What Follow says of a line is where its first word leads.
LEMMA Followed ==
  ASSUME NEW n \in Nat, NEW rule, Forward(rule, n)
  PROVE  \E f : Leads(f, rule, n, n + 2) /\ Follow(rule, n) = f[1][{}]
<1> DEFINE Table(g) == [i \in 1..n+2 |-> [on \in SUBSET Switches |->
                          IF rule[i][on].end # "" THEN rule[i][on].end ELSE g[rule[i][on].next][rule[i][on].on]]]
<1>1. PICK f : Leads(f, rule, n, n + 2)
  BY LeadsExist
<1> DEFINE w == [i \in 1..n+2 |-> [on \in SUBSET Switches |-> f[i][on]]]
<1>2. ASSUME NEW i \in 1..n+2, NEW on \in SUBSET Switches PROVE w[i][on] = Table(w)[i][on]
  <2>1. i \in n+3-(n+2)..n+2
    OBVIOUS
  <2>2. f[i][on] = Led(rule, f, i, on)
    BY <1>1, <2>1 DEF Leads
  <2>3. CASE rule[i][on].end # ""
    BY <2>2, <2>3 DEF Led
  <2>4. CASE rule[i][on].end = ""
    <3>1. rule[i][on].next \in i+1..n+2 /\ rule[i][on].on \in SUBSET Switches
      BY <2>4 DEF Forward
    <3>2. rule[i][on].next \in 1..n+2
      BY <3>1
    <3>3. w[rule[i][on].next][rule[i][on].on] = f[rule[i][on].next][rule[i][on].on]
      BY <3>1, <3>2
    <3>4. w[i][on] = f[i][on]
      OBVIOUS
    <3>5. Table(w)[i][on] = w[rule[i][on].next][rule[i][on].on]
      <4> HIDE DEF w
      <4> QED BY <2>4
    <3> QED BY <2>2, <2>4, <3>3, <3>4, <3>5 DEF Led
  <2> QED BY <2>3, <2>4
<1>3. w = Table(w)
  <2>1. ASSUME NEW i \in 1..n+2 PROVE w[i] = Table(w)[i]
    <3>1. w[i] = [on \in SUBSET Switches |-> w[i][on]]
      OBVIOUS
    <3>2. Table(w)[i] = [on \in SUBSET Switches |-> Table(w)[i][on]]
      <4> HIDE DEF w
      <4> QED OBVIOUS
    <3> HIDE DEF w, Table
    <3> QED BY <1>2, <3>1, <3>2
  <2>2. w = [i \in 1..n+2 |-> w[i]]
    OBVIOUS
  <2>3. Table(w) = [i \in 1..n+2 |-> Table(w)[i]]
    <3> HIDE DEF w
    <3> QED OBVIOUS
  <2> HIDE DEF w, Table
  <2> QED BY <2>1, <2>2, <2>3
<1> DEFINE walk == CHOOSE g : g = Table(g)
<1>4. walk = Table(walk)
  <2> HIDE DEF w, Table
  <2> QED BY <1>3
<1>5. Follow(rule, n) = walk[1][{}]
  BY DEF Follow
<1>6. Leads(walk, rule, n, n + 2)
  <2> SUFFICES ASSUME NEW i \in n+3-(n+2)..n+2, NEW on \in SUBSET Switches
               PROVE  walk[i][on] = Led(rule, walk, i, on)
    BY DEF Leads
  <2> HIDE DEF walk
  <2>1. i \in 1..n+2
    OBVIOUS
  <2>2. Table(walk)[i][on] = Led(rule, walk, i, on)
    BY <2>1 DEF Led
  <2> HIDE DEF Table
  <2> QED BY <1>4, <2>2
<1> HIDE DEF walk
<1> QED BY <1>5, <1>6

Words == Flags \cup {Operand, Dashes}

LEMMA GoesFacts ==
  ASSUME NEW j, NEW o
  PROVE  (Goes(j, o)).next = j /\ (Goes(j, o)).on = o
BY DEF Goes

\* Both grammars go forward.
LEMMA ValidateForward ==
  ASSUME NEW line \in Seq(Words)
  PROVE  Forward(ValidateStep(line), Len(line))
<1> DEFINE n == Len(line)
           rule == ValidateStep(line)
<1>0. n \in Nat
  OBVIOUS
<1>1. ASSUME NEW i \in 1..n+2, NEW on \in SUBSET Switches
      PROVE  rule[i][on] = IF Over(line, i) THEN Ends(IF on = {} THEN "refused" ELSE "admitted") ELSE ValidateFlag(line, i, on)
  BY DEF ValidateStep
<1> HIDE DEF rule
<1>2. ASSUME NEW i \in 1..n+2, NEW on \in SUBSET Switches, rule[i][on].end = ""
      PROVE  rule[i][on].next \in i+1..n+2 /\ rule[i][on].on \in SUBSET Switches
  <2>1. ~Over(line, i) /\ rule[i][on] = ValidateFlag(line, i, on)
    <3>1. (Ends(IF on = {} THEN "refused" ELSE "admitted")).end # ""
      BY DEF Ends
    <3> QED BY <1>1, <1>2, <3>1
  <2>2. i \in 1..n /\ line[i] \in Flags
    BY <1>0, <2>1 DEF Over, Words
  <2>3. ValidateFlag(line, i, on) = Goes(i + 1 + Takes(line[i]), IF line[i].form = "bad" THEN on ELSE Switched(line[i], on))
    <3>1. (Ends("help")).end # "" /\ (Ends("refused")).end # ""
      BY DEF Ends
    <3> QED BY <1>2, <2>1, <3>1 DEF ValidateFlag
  <2>4. Takes(line[i]) \in 0..1 /\ Switched(line[i], on) \in SUBSET Switches
    BY DEF Takes, Switched
  <2>5. rule[i][on].next = i + 1 + Takes(line[i])
    BY <2>1, <2>3, GoesFacts
  <2>6. rule[i][on].on \in {on, Switched(line[i], on)}
    BY <2>1, <2>3, GoesFacts
  <2>7. rule[i][on].next \in i+1..n+2
    <3> HIDE DEF n
    <3> QED BY <1>0, <2>2, <2>4, <2>5
  <2> QED BY <2>4, <2>6, <2>7
<1>3. Forward(rule, n)
  BY <1>2 DEF Forward
<1> QED BY <1>3 DEF rule

LEMMA ParseForward ==
  ASSUME NEW line \in Seq(Words)
  PROVE  Forward(ParseStep(line), Len(line))
<1> DEFINE n == Len(line)
           rule == ParseStep(line)
<1>0. n \in Nat
  OBVIOUS
<1>1. ASSUME NEW i \in 1..n+2, NEW on \in SUBSET Switches
      PROVE  rule[i][on] = IF Over(line, i) THEN Ends(IF on = {} THEN "python" ELSE "safe") ELSE ParseFlag(line, i, on)
  BY DEF ParseStep
<1> HIDE DEF rule
<1>2. ASSUME NEW i \in 1..n+2, NEW on \in SUBSET Switches, rule[i][on].end = ""
      PROVE  rule[i][on].next \in i+1..n+2 /\ rule[i][on].on \in SUBSET Switches
  <2>1. ~Over(line, i) /\ rule[i][on] = ParseFlag(line, i, on)
    <3>1. (Ends(IF on = {} THEN "python" ELSE "safe")).end # ""
      BY DEF Ends
    <3> QED BY <1>1, <1>2, <3>1
  <2>2. i \in 1..n /\ line[i] \in Flags
    BY <1>0, <2>1 DEF Over, Words
  <2> DEFINE next == IF line[i].name \in Values /\ line[i].form = "bare" THEN i + 2 ELSE i + 1
  <2>3. ParseFlag(line, i, on) = Goes(next, Switched(line[i], on))
    <3>1. (Ends("stops")).end # ""
      BY DEF Ends
    <3> QED BY <1>2, <2>1, <3>1 DEF ParseFlag
  <2>4. next \in i+1..n+2 /\ Switched(line[i], on) \in SUBSET Switches
    <3>1. next \in i+1..n+2
      <4> HIDE DEF n
      <4> QED BY <1>0, <2>2
    <3>2. Switched(line[i], on) \in SUBSET Switches
      BY DEF Switched
    <3> QED BY <3>1, <3>2
  <2> HIDE DEF next
  <2> QED BY <2>1, <2>3, <2>4, GoesFacts
<1>3. Forward(rule, n)
  BY <1>2 DEF Forward
<1> QED BY <1>3 DEF rule

\* The two readings of a line from one word on, with the same switches on.
Agree(v, p) ==
  /\ v \in {"help", "refused", "admitted"} /\ p \in {"stops", "python", "safe"}
  /\ v = "help" => p = "stops"
  /\ v = "admitted" => p # "python"

\* Steps that end in agreement, or of which the validator's refuses or the parser's
\* stops, or that both go on alike.
Together(V, P) ==
  /\ V.end \in {"", "help", "refused", "admitted"} /\ P.end \in {"", "stops", "python", "safe"}
  /\ V.end = "help" => P.end = "stops"
  /\ V.end = "admitted" => P.end = "safe"
  /\ V.end = "" => P.end = "stops" \/ (P.end = "" /\ V.next = P.next /\ V.on = P.on)

LEMMA TogetherFacts ==
  ASSUME NEW j, NEW o
  PROVE  /\ Together(Ends("refused"), Ends("python")) /\ Together(Ends("admitted"), Ends("safe"))
         /\ Together(Ends("help"), Ends("stops")) /\ Together(Ends("refused"), Ends("stops"))
         /\ Together(Goes(j, o), Ends("stops")) /\ Together(Goes(j, o), Goes(j, o))
BY DEF Together, Ends, Goes

\* At every word the two tables stand together.
LEMMA WordByWord ==
  ASSUME NEW line \in Seq(Words), NEW i \in 1..Len(line)+2, NEW on \in SUBSET Switches
  PROVE  Together(ValidateStep(line)[i][on], ParseStep(line)[i][on])
<1> DEFINE n == Len(line)
           V == ValidateStep(line)[i][on]
           P == ParseStep(line)[i][on]
<1>1. CASE Over(line, i)
  <2>1. V = Ends(IF on = {} THEN "refused" ELSE "admitted") /\ P = Ends(IF on = {} THEN "python" ELSE "safe")
    BY <1>1 DEF ValidateStep, ParseStep
  <2> HIDE DEF V, P
  <2>2. Together(V, P)
    BY <2>1, TogetherFacts
  <2> QED BY <2>2 DEF V, P
<1>2. CASE ~Over(line, i)
  <2>1. V = ValidateFlag(line, i, on) /\ P = ParseFlag(line, i, on)
    BY <1>2 DEF ValidateStep, ParseStep
  <2>2. n \in Nat /\ i \in 1..n /\ line[i] \in Flags
    BY <1>2 DEF Over, Words
  <2> HIDE DEF V, P, n
  <2> SUFFICES Together(V, P)
    BY DEF V, P
  <2>3. CASE line[i].name \notin Booleans \cup Values
    <3>1. P = Ends("stops") /\ V \in {Ends("help"), Ends("refused")}
      BY <2>1, <2>3 DEF ValidateFlag, ParseFlag
    <3> QED BY <3>1, TogetherFacts
  <2>4. CASE line[i].name \in Booleans
    <3>1. line[i].name # "help" /\ line[i].name \notin Values /\ Takes(line[i]) = 0
      BY <2>4 DEF Booleans, Switches, Values, Takes
    <3>2. CASE line[i].form = "bad"
      <4>1. P = Ends("stops")
        BY <2>1, <2>4, <3>2 DEF ParseFlag
      <4>2. V = Ends("refused") \/ V = Goes(i + 1, on)
        BY <2>1, <2>2, <2>4, <3>1, <3>2 DEF ValidateFlag
      <4> QED BY <4>1, <4>2, TogetherFacts
    <3>3. CASE line[i].form # "bad"
      <4>1. P = Goes(i + 1, Switched(line[i], on))
        BY <2>1, <2>2, <2>4, <3>1, <3>3 DEF ParseFlag
      <4>2. V = Goes(i + 1, Switched(line[i], on))
        BY <2>1, <2>2, <2>4, <3>1, <3>3 DEF ValidateFlag
      <4> QED BY <4>1, <4>2, TogetherFacts
    <3> QED BY <3>2, <3>3
  <2>5. CASE line[i].name \in Values
    <3>1. line[i].name # "help" /\ line[i].name \notin Booleans /\ line[i].name \notin Switches /\ Switched(line[i], on) = on
      BY <2>5 DEF Booleans, Switches, Values, Switched
    <3>2. CASE line[i].form = "bare"
      <4>1. Takes(line[i]) = 1
        BY <2>5, <3>2 DEF Takes
      <4>2. CASE i = n
        <5>1. P = Ends("stops")
          BY <2>1, <2>5, <3>1, <3>2, <4>2 DEF ParseFlag, n
        <5>2. V = Ends("refused")
          BY <2>1, <2>2, <2>5, <3>1, <4>1, <4>2 DEF ValidateFlag, n
        <5> QED BY <5>1, <5>2, TogetherFacts
      <4>3. CASE i # n
        <5>1. P = Goes(i + 2, on)
          BY <2>1, <2>2, <2>5, <3>1, <3>2, <4>3 DEF ParseFlag, n
        <5>2. V = Goes(i + 2, on)
          BY <2>1, <2>2, <2>5, <3>1, <3>2, <4>1, <4>3 DEF ValidateFlag, n
        <5> QED BY <5>1, <5>2, TogetherFacts
      <4> QED BY <4>2, <4>3
    <3>3. CASE line[i].form # "bare"
      <4>1. Takes(line[i]) = 0
        BY <3>3 DEF Takes
      <4>2. P = Goes(i + 1, on)
        BY <2>1, <2>2, <2>5, <3>1, <3>3 DEF ParseFlag
      <4>3. V = Goes(i + 1, on)
        BY <2>1, <2>2, <2>5, <3>1, <4>1 DEF ValidateFlag, n
      <4> QED BY <4>2, <4>3, TogetherFacts
    <3> QED BY <3>2, <3>3
  <2> QED BY <2>3, <2>4, <2>5
<1> QED BY <1>1, <1>2

\* The two grammars of a command line never disagree to the command's advantage.
LEMMA Grammars ==
  ASSUME NEW line \in Seq(Words)
  PROVE  Agree(Validate(line), Parse(line))
<1> DEFINE n == Len(line)
           V == ValidateStep(line)
           P == ParseStep(line)
<1>0. n \in Nat
  OBVIOUS
<1>1. PICK v : Leads(v, V, n, n + 2) /\ Validate(line) = v[1][{}]
  BY <1>0, ValidateForward, Followed DEF Validate
<1>2. PICK p : Leads(p, P, n, n + 2) /\ Parse(line) = p[1][{}]
  BY <1>0, ParseForward, Followed DEF Parse
<1>3. ASSUME NEW i \in 1..n+2, NEW on \in SUBSET Switches
      PROVE  v[i][on] = Led(V, v, i, on) /\ p[i][on] = Led(P, p, i, on)
  BY <1>0, <1>1, <1>2 DEF Leads
<1>4. Forward(V, n) /\ Forward(P, n)
  BY ValidateForward, ParseForward
<1> DEFINE T == {k \in Nat : k <= n + 2 => \A i \in n+3-k..n+2, on \in SUBSET Switches : Agree(v[i][on], p[i][on])}
<1>5. 0 \in T
  BY <1>0
<1>6. ASSUME NEW k \in Nat, k \in T PROVE k + 1 \in T
  <2> SUFFICES ASSUME k + 1 <= n + 2, NEW i \in n+3-(k+1)..n+2, NEW on \in SUBSET Switches
               PROVE  Agree(v[i][on], p[i][on])
    OBVIOUS
  <2>1. i \in 1..n+2 /\ i+1..n+2 \subseteq n+3-k..n+2
    <3> HIDE DEF n
    <3> QED BY <1>0
  <2>2. \A j \in i+1..n+2, o \in SUBSET Switches : Agree(v[j][o], p[j][o])
    BY <1>6, <2>1
  <2>3. Together(V[i][on], P[i][on])
    BY <2>1, WordByWord
  <2>4. V[i][on].end = "" => V[i][on].next \in i+1..n+2 /\ V[i][on].on \in SUBSET Switches
    BY <1>4, <2>1 DEF Forward
  <2>a. P[i][on].end = "" => P[i][on].next \in i+1..n+2 /\ P[i][on].on \in SUBSET Switches
    BY <1>4, <2>1 DEF Forward
  <2>5. v[i][on] = Led(V, v, i, on) /\ p[i][on] = Led(P, p, i, on)
    BY <1>3, <2>1
  <2> HIDE DEF V, P, T
  <2>6. CASE V[i][on].end # ""
    <3>1. v[i][on] = V[i][on].end
      BY <2>5, <2>6 DEF Led
    <3>2. CASE P[i][on].end # ""
      <4>1. p[i][on] = P[i][on].end
        BY <2>5, <3>2 DEF Led
      <4> QED BY <2>3, <2>6, <3>1, <3>2, <4>1 DEF Agree, Together
    <3>3. CASE P[i][on].end = ""
      <4>1. V[i][on].end = "refused"
        BY <2>3, <2>6, <3>3 DEF Together
      <4>2. p[i][on] = p[P[i][on].next][P[i][on].on]
        BY <2>5, <3>3 DEF Led
      <4>3. p[i][on] \in {"stops", "python", "safe"}
        BY <2>2, <2>a, <3>3, <4>2 DEF Agree
      <4> QED BY <3>1, <4>1, <4>3 DEF Agree
    <3> QED BY <3>2, <3>3
  <2>7. CASE V[i][on].end = ""
    <3> DEFINE j == V[i][on].next
               o == V[i][on].on
    <3>1. v[i][on] = v[j][o] /\ Agree(v[j][o], p[j][o])
      BY <2>2, <2>4, <2>5, <2>7 DEF Led
    <3>2. CASE P[i][on].end = "stops"
      <4>1. p[i][on] = "stops"
        BY <2>5, <3>2 DEF Led
      <4> QED BY <3>1, <4>1 DEF Agree
    <3>3. CASE P[i][on].end = ""
      <4>1. P[i][on].next = j /\ P[i][on].on = o
        BY <2>3, <2>7, <3>3 DEF Together
      <4>2. p[i][on] = p[P[i][on].next][P[i][on].on]
        BY <2>5, <3>3 DEF Led
      <4> QED BY <3>1, <4>1, <4>2
    <3> QED BY <2>3, <2>7, <3>2, <3>3 DEF Together
  <2> QED BY <2>6, <2>7
<1>7. Nat \subseteq T
  <2> HIDE DEF T
  <2> QED BY <1>5, <1>6, NatSetInduction
<1>8. Agree(v[1][{}], p[1][{}])
  <2>1. n + 2 \in T
    BY <1>0, <1>7
  <2>2. 1 \in n+3-(n+2)..n+2
    <3> HIDE DEF n
    <3> QED BY <1>0
  <2> QED BY <2>1, <2>2
<1> QED BY <1>1, <1>2, <1>8

(***************************************************************************)
(* How a command is let run.                                               *)
(***************************************************************************)

LEMMA DirectInitInv ==
  ASSUME DirectAssumption, DirectInit
  PROVE  DirectInv
<1>1. /\ command \in {"scan", "open"} /\ linux \in BOOLEAN /\ parses = "unknown" /\ args \in ArgLists
      /\ stage = "ask" /\ mode = "none" /\ ended = FALSE /\ hostBusy = FALSE
      /\ check = 1 /\ work = "none" /\ finished = FALSE /\ stopped = FALSE
      /\ monitor = "none" /\ verdict = "empty" /\ yielded = FALSE
      /\ launched = "none" /\ receipt \in {"absent", "stale"} /\ shown = FALSE /\ watcher = "none" /\ reported = "none"
  BY DEF DirectInit
<1>2. DirectTypeOK
  <2>1. 1 \in 1..3 /\ FALSE \in BOOLEAN
    OBVIOUS
  <2> QED BY <1>1, <2>1, Zenon DEF DirectTypeOK
<1>3. DirectSound
  BY <1>1 DEF DirectSound, GrammarAgrees, YieldReported, OwnReceipt
<1> QED BY <1>1, <1>2, <1>3 DEF DirectInv

LEMMA AskStep ==
  ASSUME DirectAssumption, DirectInv, AskScan \/ AskOpen \/ BareReturns
  PROVE  DirectInv'
<1> USE DEF Bare, Refused, Protect, Launch, ReturnWith, Begin, asked, local, launch
<1>1. CASE AskScan
  <2>1. Agree(Validate(args), Parse(args))
    BY <1>1, Grammars DEF AskScan, DirectInv, DirectAssumption, Words
  <2> QED BY <1>1, <2>1 DEF AskScan, Agree, DirectInv, DirectTypeOK, DirectSound, GrammarAgrees, YieldReported, OwnReceipt
<1>2. CASE AskOpen
  BY <1>2 DEF AskOpen, DirectInv, DirectTypeOK, DirectSound, GrammarAgrees, YieldReported, OwnReceipt
<1>3. CASE BareReturns
  BY <1>3 DEF BareReturns, DirectInv, DirectTypeOK, DirectSound, GrammarAgrees, YieldReported, OwnReceipt
<1> QED BY <1>1, <1>2, <1>3

LEMMA LocalSteps ==
  ASSUME DirectInv, CheckFirst \/ WorkReturns \/ CloseFinished \/ CancelWork \/ ReceiveResult
  PROVE  DirectInv'
<1> USE DEF ReturnWith, asked, local, launch, LocalStep, DirectInv, DirectTypeOK, DirectSound, GrammarAgrees, YieldReported, OwnReceipt
<1>1. CASE CheckFirst
  BY <1>1 DEF CheckFirst
<1>2. CASE WorkReturns
  BY <1>2 DEF WorkReturns
<1>3. CASE CloseFinished
  BY <1>3 DEF CloseFinished
<1>4. CASE CancelWork
  BY <1>4 DEF CancelWork
<1>5. CASE ReceiveResult
  BY <1>5 DEF ReceiveResult, Answered
<1> QED BY <1>1, <1>2, <1>3, <1>4, <1>5

LEMMA MonitorSteps ==
  ASSUME DirectInv,
         MonitorLeaves \/ MonitorTicks \/ TickerCloses \/ MonitorChecks \/ Report \/ SendFailure \/ MonitorCancels
  PROVE  DirectInv'
<1> USE DEF asked, local, launch, LocalStep, DirectInv, DirectTypeOK, DirectSound, GrammarAgrees, YieldReported, OwnReceipt
<1>1. CASE MonitorLeaves
  BY <1>1 DEF MonitorLeaves
<1>2. CASE MonitorTicks
  BY <1>2 DEF MonitorTicks
<1>3. CASE TickerCloses
  BY <1>3 DEF TickerCloses
<1>4. CASE MonitorChecks
  BY <1>4 DEF MonitorChecks
<1>5. CASE Report
  <2>1. CASE finished
    BY <1>5, <2>1 DEF Report
  <2>2. CASE ~finished
    BY <1>5, <2>2 DEF Report
  <2> QED BY <2>1, <2>2
<1>6. CASE SendFailure
  BY <1>6 DEF SendFailure
<1>7. CASE MonitorCancels
  BY <1>7 DEF MonitorCancels
<1> QED BY <1>1, <1>2, <1>3, <1>4, <1>5, <1>6, <1>7

LEMMA ChildSteps ==
  ASSUME DirectInv,
         StartChild \/ ChildWrites \/ ChildEnds \/ StopWatching \/ Joined \/ WatcherReads \/ WatcherWaits
  PROVE  DirectInv'
<1> USE DEF ReturnWith, asked, local, launch, LaunchOnly, DirectInv, DirectTypeOK, DirectSound, GrammarAgrees, YieldReported, OwnReceipt
<1>1. CASE StartChild
  BY <1>1 DEF StartChild, ReceiptUsable
<1>2. CASE ChildWrites
  BY <1>2 DEF ChildWrites
<1>3. CASE ChildEnds
  BY <1>3 DEF ChildEnds
<1>4. CASE StopWatching
  BY <1>4 DEF StopWatching
<1>5. CASE Joined
  BY <1>5 DEF Joined
<1>6. CASE WatcherReads
  <2>1. CASE receipt = "absent"
    BY <1>6, <2>1 DEF WatcherReads
  <2>2. CASE receipt # "absent" /\ watcher' = "done"
    <3>1. CASE shown' = TRUE
      BY <1>6, <2>2, <3>1 DEF WatcherReads
    <3>2. CASE shown' = shown
      BY <1>6, <2>2, <3>2 DEF WatcherReads
    <3> QED BY <1>6, <3>1, <3>2 DEF WatcherReads
  <2> QED BY <1>6, <2>1, <2>2 DEF WatcherReads
<1>7. CASE WatcherWaits
  BY <1>7 DEF WatcherWaits
<1> QED BY <1>1, <1>2, <1>3, <1>4, <1>5, <1>6, <1>7

LEMMA OutsideSteps ==
  ASSUME DirectInv, CallerEnds \/ HostChanges \/ UNCHANGED directVars
  PROVE  DirectInv'
<1> USE DEF asked, local, launch, DirectInv, DirectTypeOK, DirectSound, GrammarAgrees, YieldReported, OwnReceipt
<1>1. CASE CallerEnds
  BY <1>1 DEF CallerEnds
<1>2. CASE HostChanges
  BY <1>2 DEF HostChanges
<1>3. CASE UNCHANGED directVars
  BY <1>3 DEF directVars
<1> QED BY <1>1, <1>2, <1>3

LEMMA DirectStep ==
  ASSUME DirectAssumption, DirectInv, DirectNext \/ UNCHANGED directVars
  PROVE  DirectInv'
BY AskStep, LocalSteps, MonitorSteps, ChildSteps, OutsideSteps DEF DirectNext

(***************************************************************************)
(* Everything a command establishes on a shared host.                      *)
(***************************************************************************)

\* A process has used no more than the clock shows, and a reading is no later than it.
LoadTypes ==
  /\ LoadTypeOK /\ \A p \in DOMAIN process : process[p].ticks <= clock
  /\ look = [left |-> look.left, seen |-> look.seen, clock |-> look.clock] /\ look.clock \in Nat /\ baseline.clock \in Nat

LEMMA LoadTypesStart ==
  ASSUME BoundsAssumption, LoadInit
  PROVE  LoadTypes
<1> USE DEF BoundsAssumption, LoadInit
<1>1. DOMAIN process = {1, self} \cup Workload /\ clock = 1 /\ starts = 0 /\ step = "refused" /\ conflicts = {}
  OBVIOUS
<1>2. \A p \in DOMAIN process : process[p].parent \in {0, 1} /\ process[p].ticks = 0
  OBVIOUS
<1>3. DOMAIN baseline.of = {} /\ baseline.clock = 0 /\ look = [left |-> {}, seen |-> << >>, clock |-> 0]
  BY DEF NoSample, NoLook
<1>4. clock \in 1..MaxClock /\ starts \in 0..MaxStarts /\ DOMAIN process \subseteq Pids
  BY <1>1 DEF self
<1> QED BY <1>1, <1>2, <1>3, <1>4 DEF LoadTypes, LoadTypeOK

LEMMA WithDomain == \A seen0, p, entry : DOMAIN With(seen0, p, entry) = DOMAIN seen0 \cup {p}
BY DEF With

LEMMA LoadTypesStep ==
  ASSUME BoundsAssumption, LoadTypes, LoadNext \/ UNCHANGED loadVars
  PROVE  LoadTypes'
<1> USE DEF LoadTypes, LoadTypeOK, BoundsAssumption
<1>1. ASSUME NEW q \in Pids, NEW p \in Pids, NEW marked \in BOOLEAN, Fork(q, p, marked) PROVE LoadTypes'
  <2>1. /\ starts' = starts + 1 /\ starts < MaxStarts /\ q \in DOMAIN process /\ DOMAIN process' = DOMAIN process \cup {p}
        /\ process'[p].parent = q /\ process'[p].ticks = 0
        /\ \A r \in DOMAIN process \ {p} : process'[r] = process[r]
        /\ p \notin DOMAIN process /\ UNCHANGED <<clock, step, look, conflicts, baseline>>
    BY <1>1 DEF Fork
  <2>2. starts' \in 0..MaxStarts
    BY <2>1
  <2>3. \A r \in DOMAIN process' : /\ process'[r].parent \in DOMAIN process' \cup {0} /\ process'[r].ticks \in 0..MaxClock
                                   /\ process'[r].ticks <= clock'
    BY <2>1
  <2> QED BY <2>1, <2>2, <2>3
<1>2. ASSUME NEW p \in Pids, End(p) PROVE LoadTypes'
  <2>1. /\ DOMAIN process' = DOMAIN process \ {p} /\ p \notin {1, self} /\ UNCHANGED <<clock, starts, step, look, conflicts, baseline>>
    BY <1>2 DEF End
  <2>2. ASSUME NEW r \in DOMAIN process'
        PROVE  process'[r].parent \in DOMAIN process' \cup {0} /\ process'[r].ticks \in 0..MaxClock /\ process'[r].ticks <= clock'
    <3>1. process'[r] = IF process[r].parent = p THEN [process[r] EXCEPT !.parent = 1] ELSE process[r]
      BY <1>2, <2>1 DEF End
    <3>2. CASE process[r].parent = p
      <4>1. process'[r].parent = 1 /\ process'[r].ticks = process[r].ticks
        BY <3>1, <3>2
      <4> QED BY <2>1, <4>1
    <3>3. CASE process[r].parent # p
      BY <2>1, <3>1, <3>3
    <3> QED BY <3>2, <3>3
  <2> QED BY <2>1, <2>2
<1>3. ASSUME NEW p, Tick(p) PROVE LoadTypes'
  <2>1. /\ clock < MaxClock /\ clock' = clock + 1 /\ DOMAIN process' = DOMAIN process
        /\ UNCHANGED <<starts, step, look, conflicts, baseline>>
    BY <1>3 DEF Tick
  <2>2. ASSUME NEW r \in DOMAIN process'
        PROVE  process'[r].parent \in DOMAIN process' \cup {0} /\ process'[r].ticks \in 0..MaxClock /\ process'[r].ticks <= clock'
    <3>1. process'[r].parent = process[r].parent /\ process'[r].ticks \in {process[r].ticks, process[r].ticks + 1}
      BY <1>3, <2>1 DEF Tick
    <3> QED BY <2>1, <3>1
  <2>3. clock' \in 1..MaxClock /\ look.clock <= clock' /\ baseline.clock <= clock'
    BY <2>1
  <2> QED BY <2>1, <2>2, <2>3
<1>4. ASSUME UNCHANGED host, step' \in Walking \cup Sampling \cup {"listed", "asleep", "relisted", "admitted", "refused"},
             look' = [left |-> look'.left, seen |-> look'.seen, clock |-> look'.clock], look'.clock \in Nat, look'.clock <= clock,
             look'.left \subseteq Pids, DOMAIN look'.seen \subseteq Pids, conflicts' \subseteq Pids,
             DOMAIN baseline'.of \subseteq Pids, baseline'.clock \in Nat, baseline'.clock <= clock
      PROVE  LoadTypes'
  BY <1>4 DEF host
<1> DEFINE same == baseline' = baseline \/ baseline' = NoSample
<1>5. same => DOMAIN baseline'.of \subseteq Pids /\ baseline'.clock \in Nat /\ baseline'.clock <= clock
  BY DEF NoSample
<1>6. CASE Unreadable \/ ClockUnreadable \/ Reconfigure \/ UNCHANGED loadVars
  BY <1>4, <1>5, <1>6 DEF Unreadable, ClockUnreadable, Reconfigure, Refuse, Outcome, NoLook, loadVars
<1>7. CASE CheckStrictly \/ List \/ Relist \/ ReadClock
  BY <1>4, <1>5, <1>7 DEF CheckStrictly, List, Relist, ReadClock, Walk, NoLook, Walking, Sampling
<1>8. ASSUME NEW p \in Pids, ReadEntry(p) \/ ReadTicks(p) PROVE LoadTypes'
  <2>1. /\ look' = [left |-> look'.left, seen |-> look'.seen, clock |-> look'.clock] /\ look'.clock = look.clock
        /\ look'.left \subseteq Pids /\ UNCHANGED <<host, step, conflicts, baseline>>
    BY <1>8 DEF ReadEntry, ReadTicks
  <2>2. look'.seen = look.seen \/ DOMAIN look'.seen = DOMAIN look.seen \cup {p}
    <3>1. CASE ReadEntry(p)
      <4>1. \/ look'.seen = look.seen
            \/ look'.seen = With(look.seen, p, [parent |-> process[p].parent, marked |-> process[p].marked])
        BY <3>1 DEF ReadEntry
      <4> QED BY <4>1, WithDomain
    <3>2. CASE ReadTicks(p)
      <4>1. \/ look'.seen = look.seen
            \/ look'.seen = With(look.seen, p, [start |-> process[p].start, ticks |-> process[p].ticks])
        BY <3>2 DEF ReadTicks
      <4> QED BY <4>1, WithDomain
    <3> QED BY <1>8, <3>1, <3>2
  <2> QED BY <1>4, <2>1, <2>2
<1>9. CASE Listed
  <2>1. Conflicts(look.seen) \subseteq Pids
    BY ConflictsListed
  <2> QED BY <1>4, <1>5, <1>9, <2>1 DEF Listed, Admit, Refuse, Outcome, NoLook
<1>10. CASE Measure
  <2>1. /\ UNCHANGED host /\ step' \in {"listed", "asleep", "relisted", "admitted", "refused"} /\ look' = NoLook /\ conflicts' = {}
        /\ baseline' = [of |-> look.seen, clock |-> look.clock]
    <3> HIDE DEF Comparable, Spare, Used
    <3> QED BY <1>10 DEF Measure, Outcome
  <2> QED BY <1>4, <2>1 DEF NoLook
<1> QED BY <1>1, <1>2, <1>3, <1>6, <1>7, <1>8, <1>9, <1>10 DEF LoadNext

\* However other workloads, other programs, the threads and managers of this process and the
\* caller interleave: a lease that is found free was free, a prepared process is confined whole, a
\* command that runs unguarded on a shared host only prints its usage or an error, work that had
\* to yield is never reported as done, and a browser is shown only the child's own address, for
\* any command line and any number of processes, locks, threads and passes
\* (runDirectCommandWithAdmission, requireHostScheduling, observeModelLease).
THEOREM Admitted ==
  ASSUME BoundsAssumption, LeaseAssumption, EnvelopeAssumption, DirectAssumption
  PROVE  AdmissionSpec => []AdmissionSound
<1> DEFINE Inv == LoadTypes /\ LeaseInv /\ EnvelopeInv /\ DirectInv
<1>1. AdmissionInit => Inv
  BY LoadTypesStart, LeaseInitInv, EnvelopeInitInv, DirectInitInv DEF AdmissionInit
<1>2. Inv /\ [AdmissionNext]_admissionVars => Inv'
  <2> SUFFICES ASSUME Inv, [AdmissionNext]_admissionVars PROVE Inv'
    OBVIOUS
  <2>1. LoadTypes'
    BY LoadTypesStep DEF AdmissionNext, admissionVars
  <2>2. LeaseInv'
    <3>1. LeaseNext \/ UNCHANGED leaseVars
      BY DEF AdmissionNext, admissionVars
    <3> QED BY <3>1, LeaseStep
  <2>3. EnvelopeInv'
    <3>1. EnvelopeNext \/ UNCHANGED envelopeVars
      BY DEF AdmissionNext, admissionVars
    <3> QED BY <3>1, EnvelopeStep
  <2>4. DirectInv'
    <3>1. DirectNext \/ UNCHANGED directVars
      BY DEF AdmissionNext, admissionVars
    <3> QED BY <3>1, DirectStep
  <2> QED BY <2>1, <2>2, <2>3, <2>4
<1>3. Inv => AdmissionSound
  <2>1. LeaseInv => LeaseTypeOK /\ LeaseObserved
    BY LeaseConcludes
  <2>2. EnvelopeInv => EnvelopeTypeOK /\ EnvelopeProven
    BY DEF EnvelopeInv
  <2>3. DirectInv => DirectTypeOK /\ DirectSound
    BY DEF DirectInv
  <2> QED BY <2>1, <2>2, <2>3 DEF LoadTypes, AdmissionSound
<1> QED BY <1>1, <1>2, <1>3, PTL DEF AdmissionSpec

(***************************************************************************)
(* The private workspace.  The writer lock makes its holder unique; what   *)
(* the holder has in memory differs from the registry on disk by what it   *)
(* has changed since it last saved, so a prune by the one spares the       *)
(* active generations of the other.                                        *)
(***************************************************************************)

\* The registry m over given generation directories.
NamesIn(m, dirs, facts) ==
  \A s \in Sources :
    /\ m[s].active # Nothing => dirs[m[s].active] = "complete" /\ facts[m[s].active].source = s
    /\ m[s].active = Nothing => m[s].previous = Nothing /\ m[s].status # "current"
    /\ m[s].previous # Nothing => dirs[m[s].previous] \notin {"none", "building"}
    /\ m[s].status = "current" => facts[m[s].active].policy = m[s].policy

\* The invariant by what a step may disturb: the registry on disk, a writer, the
\* leases.
RegistryInv == WorkspaceTypeOK /\ Names(disk) /\ PreviousAvailable

WriterInv(w) ==
  /\ doing[w] \in Held <=> lock = w
  /\ lock = w => Names(mem[w]) /\ (~lost => mem[w] = disk) /\ SavedOnce(w) /\ Refreshing(w) /\ Pruning(w)

PinInv ==
  /\ \A g \in Gens : exclusive[g] # Nothing => shared[g] = {}
  /\ \A r \in Readers :
       /\ doing[r] \in {"acquire", "load", "loaded"} => want[r] \in Gens
       /\ doing[r] \in {"load", "loaded"} => r \in shared[want[r]]

LEMMA WorkspaceParts ==
  /\ WorkspaceInv <=> RegistryInv /\ (\A w \in Writers : WriterInv(w)) /\ PinInv
  /\ Names(disk) <=> NamesIn(disk, gen, built)
  /\ \A w \in Writers : Names(mem[w]) <=> NamesIn(mem[w], gen, built)
<1>1. WorkspaceInv <=> RegistryInv /\ (\A w \in Writers : WriterInv(w)) /\ PinInv
  BY Zenon DEF WorkspaceInv, RegistryInv, WriterInv, PinInv
<1>2. Names(disk) <=> NamesIn(disk, gen, built)
  BY Zenon DEF Names, NamesIn
<1>3. \A w \in Writers : Names(mem[w]) <=> NamesIn(mem[w], gen, built)
  BY Zenon DEF Names, NamesIn
<1> QED BY <1>1, <1>2, <1>3

\* A registry stays good as long as what it names does.
LEMMA NamesStay ==
  ASSUME NEW m, NEW dirs, NEW facts, NEW dirsAfter, NEW madeAfter, NamesIn(m, dirs, facts),
         \A s \in Sources : m[s].active # Nothing =>
           dirsAfter[m[s].active] = "complete" /\ madeAfter[m[s].active] = facts[m[s].active],
         \A s \in Sources : m[s].previous # Nothing => dirsAfter[m[s].previous] \notin {"none", "building"}
  PROVE  NamesIn(m, dirsAfter, madeAfter)
BY DEF NamesIn

\* A save leaves the registry in memory, and on disk unless it is lost.
LEMMA SaveFact ==
  ASSUME WorkspaceAssumption, WorkspaceTypeOK, NEW w \in Writers, NEW saved \in [Sources -> SourceEntry],
         Save(w, saved)
  PROVE  /\ mem' \in [Writers -> [Sources -> SourceEntry]] /\ disk' \in [Sources -> SourceEntry]
         /\ mem'[w] = saved /\ \A v \in Writers \ {w} : mem'[v] = mem[v]
         /\ disk' \in {disk, saved}
         /\ mishaps' \in 0..MaxMishaps /\ lost' \in BOOLEAN
         /\ ~lost' => ~lost /\ disk' = saved
<1>1. /\ mem' \in [Writers -> [Sources -> SourceEntry]] /\ mem'[w] = saved
      /\ \A v \in Writers \ {w} : mem'[v] = mem[v]
  BY DEF Save, WorkspaceTypeOK
<1>2. mishaps' \in 0..MaxMishaps
  BY DEF Save, WorkspaceTypeOK, WorkspaceAssumption, hits
<1>3. disk' \in {disk, saved} /\ disk' \in [Sources -> SourceEntry]
  BY DEF Save, WorkspaceTypeOK
<1>4. lost' \in BOOLEAN /\ (~lost' => ~lost /\ disk' = saved)
  BY DEF Save, WorkspaceTypeOK, hits
<1> QED BY <1>1, <1>2, <1>3, <1>4

LEMMA LeasesStay ==
  ASSUME PinInv, UNCHANGED <<shared, want>>,
         \A g \in Gens : exclusive'[g] # Nothing => exclusive[g] # Nothing \/ shared[g] = {},
         \A r \in Readers : doing'[r] = doing[r] \/ doing'[r] \notin {"acquire", "load", "loaded"}
  PROVE  PinInv'
BY DEF PinInv

\* A source's status is set, its generations are not.
LEMMA StatusFact ==
  ASSUME NEW m \in [Sources -> SourceEntry], NEW s \in Sources, NEW status \in Statuses
  PROVE  /\ [m EXCEPT ![s].status = status] \in [Sources -> SourceEntry]
         /\ \A t \in Sources :
              /\ [m EXCEPT ![s].status = status][t].active = m[t].active
              /\ [m EXCEPT ![s].status = status][t].previous = m[t].previous
              /\ [m EXCEPT ![s].status = status][t].policy = m[t].policy
              /\ [m EXCEPT ![s].status = status][t].status = IF t = s THEN status ELSE m[t].status
BY DEF SourceEntry

LEMMA RepolicedFact ==
  ASSUME WorkspaceAssumption, NEW e \in SourceEntry, e.policy < MaxPolicies
  PROVE  /\ Repoliced(e) \in SourceEntry
         /\ Repoliced(e).active = e.active /\ Repoliced(e).previous = e.previous
         /\ Repoliced(e).status # "current"
<1> DEFINE status == IF e.active = Nothing THEN "pending" ELSE "stale"
<1>1. e.policy + 1 \in 0..MaxPolicies /\ status \in Statuses \ {"current"}
  BY DEF SourceEntry, WorkspaceAssumption, Statuses
<1> DEFINE policy == e.policy + 1
<1>2. Repoliced(e) = [e EXCEPT !.policy = policy, !.status = status]
  BY DEF Repoliced
<1> HIDE DEF status, policy
<1>3. e = [active |-> e.active, previous |-> e.previous, status |-> e.status, policy |-> e.policy]
  BY DEF SourceEntry
<1>4. Repoliced(e) = [active |-> e.active, previous |-> e.previous, status |-> status, policy |-> policy]
  BY <1>2, <1>3
<1>5. policy \in 0..MaxPolicies
  BY <1>1 DEF policy
<1>6. e.active \in Gens \cup {Nothing} /\ e.previous \in Gens \cup {Nothing}
  BY DEF SourceEntry
<1> QED BY <1>1, <1>4, <1>5, <1>6 DEF SourceEntry

\* The writer that holds the lock saves.
LEMMA SavingStep ==
  ASSUME WorkspaceAssumption, WorkspaceInv, NEW w \in Writers, lock = w,
         NEW saved \in [Sources -> SourceEntry], Save(w, saved), UNCHANGED <<leases, built, reading>>,
         NEW where \in {"mark", "produce", "close"}, MoveTo(w, where),
         gen' \in [Gens -> {"none", "building", "complete", "torn", "unowned", "gone"}],
         src' \in [Writers -> Sources \cup {Nothing}], new' \in [Writers -> Gens \cup {Nothing}],
         remaining' \in [Writers -> SUBSET (Sources \cup Gens)],
         NamesIn(saved, gen', built), NamesIn(disk, gen', built),
         ~lost => \A s \in Sources : saved[s].previous # Nothing => gen'[saved[s].previous] = "complete",
         Ahead(w)' \subseteq Ahead(w), Refreshing(w)',
         \A s \in Sources :
           \/ saved[s].active = mem[w][s].active /\ saved[s].previous = mem[w][s].previous
           \/ s \in Ahead(w) /\ s \notin Ahead(w)' /\ saved[s].previous = mem[w][s].active
  PROVE  WorkspaceInv'
<1>1. /\ mem' \in [Writers -> [Sources -> SourceEntry]] /\ disk' \in [Sources -> SourceEntry]
      /\ mem'[w] = saved /\ disk' \in {disk, saved}
      /\ mishaps' \in 0..MaxMishaps /\ lost' \in BOOLEAN
      /\ ~lost' => ~lost /\ disk' = saved
  BY SaveFact DEF WorkspaceInv
<1>2. /\ doing'[w] = where /\ \A q \in (Writers \cup Readers) \ {w} : doing'[q] = doing[q]
      /\ doing' \in [Writers \cup Readers ->
           {"idle", "locking", "open", "mark", "produce", "fill", "conclude", "list",
            "prune", "remove", "close", "acquire", "load", "loaded"}]
  BY DEF WorkspaceInv, WorkspaceTypeOK, MoveTo
<1>3. NamesIn(disk', gen', built') /\ NamesIn(mem'[w], gen', built')
  BY <1>1
<1>4. Names(disk)' /\ Names(mem[w])'
  BY <1>3, Zenon DEF Names, NamesIn
<1>5. WorkspaceTypeOK'
  <2>1. \A s \in Sources : disk'[s].active = Nothing => disk'[s].previous = Nothing /\ disk'[s].status # "current"
    BY <1>3 DEF NamesIn
  <2> QED BY <1>1, <1>2, <2>1 DEF WorkspaceInv, WorkspaceTypeOK, leases, reading
<1>6. PreviousAvailable'
  BY <1>1 DEF PreviousAvailable
<1>7. SavedOnce(w)'
  <2>1. WriterInv(w)
    BY WorkspaceParts
  <2>2. CASE disk' = saved
    BY <1>1, <2>2 DEF SavedOnce
  <2>3. CASE disk' = disk
    BY <1>1, <2>1, <2>3 DEF SavedOnce, WriterInv
  <2> QED BY <1>1, <2>2, <2>3
<1>8. WriterInv(w)'
  <2>1. Pruning(w)'
    BY <1>2 DEF Pruning
  <2> QED BY <1>1, <1>2, <1>4, <1>7, <2>1 DEF WriterInv, Held, leases
<1>9. \A v \in Writers \ {w} : WriterInv(v)'
  <2> SUFFICES ASSUME NEW v \in Writers \ {w} PROVE WriterInv(v)'
    OBVIOUS
  <2>1. v \in Writers /\ doing'[v] = doing[v] /\ lock # v /\ lock' # v
    BY <1>2 DEF leases
  <2>2. WriterInv(v)
    BY <2>1, WorkspaceParts
  <2> QED BY <2>1, <2>2 DEF WriterInv
<1>10. PinInv'
  <2>1. \A r \in Readers : doing'[r] = doing[r] \/ doing'[r] \notin {"acquire", "load", "loaded"}
    BY <1>2
  <2> QED BY <2>1, LeasesStay, WorkspaceParts DEF leases, reading
<1>11. RegistryInv' /\ \A v \in Writers : WriterInv(v)'
  BY <1>4, <1>5, <1>6, <1>8, <1>9 DEF RegistryInv
<1> QED BY <1>10, <1>11, Zenon DEF WorkspaceInv, RegistryInv, WriterInv, PinInv

\* The writer that acts beyond opening the workspace holds the lock, and what it
\* has in memory is good.
LEMMA HolderFact ==
  ASSUME WorkspaceInv, NEW w \in Writers, doing[w] \in Held
  PROVE  /\ lock = w /\ mem[w] \in [Sources -> SourceEntry]
         /\ NamesIn(disk, gen, built) /\ NamesIn(mem[w], gen, built)
         /\ ~lost => mem[w] = disk
         /\ SavedOnce(w) /\ Refreshing(w) /\ Pruning(w)
<1>1. WriterInv(w) /\ NamesIn(disk, gen, built)
  BY WorkspaceParts DEF RegistryInv
<1>2. mem[w] \in [Sources -> SourceEntry]
  BY DEF WorkspaceInv, WorkspaceTypeOK
<1> QED BY <1>1, <1>2, WorkspaceParts DEF WriterInv

LEMMA AddStep ==
  ASSUME WorkspaceAssumption, WorkspaceInv, NEW w \in Writers, Add(w)
  PROVE  WorkspaceInv'
<1>1. PICK s \in Sources : Save(w, [mem[w] EXCEPT ![s].status = "pending"])
  BY Zenon DEF Add
<1> DEFINE saved == [mem[w] EXCEPT ![s].status = "pending"]
<1>2. /\ doing[w] = "open" /\ MoveTo(w, "close")
      /\ UNCHANGED <<gen, built, leases, src, new, remaining, reading>>
  BY DEF Add
<1>3. lock = w /\ mem[w] \in [Sources -> SourceEntry] /\ NamesIn(disk, gen, built) /\ NamesIn(mem[w], gen, built)
      /\ (~lost => mem[w] = disk)
  BY <1>2, HolderFact DEF Held
<1>4. /\ saved \in [Sources -> SourceEntry]
      /\ \A t \in Sources :
           /\ saved[t].active = mem[w][t].active /\ saved[t].previous = mem[w][t].previous
           /\ saved[t].policy = mem[w][t].policy
           /\ saved[t].status = IF t = s THEN "pending" ELSE mem[w][t].status
  <2>1. mem[w] \in [Sources -> SourceEntry] /\ "pending" \in Statuses
    BY <1>3 DEF Statuses
  <2> QED BY <2>1, StatusFact
<1> HIDE DEF saved
<1>5. NamesIn(saved, gen, built)
  BY <1>3, <1>4 DEF NamesIn
<1>6. ~lost => \A t \in Sources : saved[t].previous # Nothing => gen[saved[t].previous] = "complete"
  BY <1>3, <1>4 DEF WorkspaceInv, PreviousAvailable
<1>7. /\ gen' \in [Gens -> {"none", "building", "complete", "torn", "unowned", "gone"}]
      /\ src' \in [Writers -> Sources \cup {Nothing}] /\ new' \in [Writers -> Gens \cup {Nothing}]
      /\ remaining' \in [Writers -> SUBSET (Sources \cup Gens)]
  BY <1>2 DEF WorkspaceInv, WorkspaceTypeOK
<1>8. doing'[w] = "close"
  BY <1>2 DEF MoveTo, WorkspaceInv, WorkspaceTypeOK
<1>9. Ahead(w)' \subseteq Ahead(w) /\ Refreshing(w)'
  BY <1>8 DEF Ahead, Refreshing
<1>10. Save(w, saved)
  BY <1>1 DEF saved
<1> QED BY <1>2, <1>3, <1>4, <1>5, <1>6, <1>7, <1>9, <1>10, SavingStep DEF reading

LEMMA SetSecretReviewsStep ==
  ASSUME WorkspaceAssumption, WorkspaceInv, NEW w \in Writers, SetSecretReviews(w)
  PROVE  WorkspaceInv'
<1>1. PICK s \in Sources : mem[w][s].policy < MaxPolicies /\ Save(w, [mem[w] EXCEPT ![s] = Repoliced(@)])
  BY Zenon DEF SetSecretReviews
<1> DEFINE saved == [mem[w] EXCEPT ![s] = Repoliced(@)]
<1>2. /\ doing[w] = "open" /\ MoveTo(w, "close")
      /\ UNCHANGED <<gen, built, leases, src, new, remaining, reading>>
  BY DEF SetSecretReviews
<1>3. lock = w /\ mem[w] \in [Sources -> SourceEntry] /\ NamesIn(disk, gen, built) /\ NamesIn(mem[w], gen, built)
      /\ (~lost => mem[w] = disk)
  BY <1>2, HolderFact DEF Held
<1>4. /\ Repoliced(mem[w][s]) \in SourceEntry
      /\ Repoliced(mem[w][s]).active = mem[w][s].active
      /\ Repoliced(mem[w][s]).previous = mem[w][s].previous
      /\ Repoliced(mem[w][s]).status # "current"
  <2>1. mem[w][s] \in SourceEntry /\ mem[w][s].policy < MaxPolicies
    BY <1>1, <1>3
  <2> QED BY <2>1, RepolicedFact
<1>5. /\ saved \in [Sources -> SourceEntry]
      /\ \A t \in Sources :
           /\ saved[t].active = mem[w][t].active /\ saved[t].previous = mem[w][t].previous
           /\ t # s => saved[t] = mem[w][t]
      /\ saved[s].status # "current"
  <2>1. saved[s] = Repoliced(mem[w][s]) /\ \A t \in Sources \ {s} : saved[t] = mem[w][t]
    BY <1>3
  <2>2. saved \in [Sources -> SourceEntry]
    BY <1>3, <1>4
  <2> HIDE DEF saved
  <2> QED BY <1>4, <2>1, <2>2
<1> HIDE DEF saved
<1>6. NamesIn(saved, gen, built)
  BY <1>3, <1>5 DEF NamesIn
<1>7. ~lost => \A t \in Sources : saved[t].previous # Nothing => gen[saved[t].previous] = "complete"
  BY <1>3, <1>5 DEF WorkspaceInv, PreviousAvailable
<1>8. /\ gen' \in [Gens -> {"none", "building", "complete", "torn", "unowned", "gone"}]
      /\ src' \in [Writers -> Sources \cup {Nothing}] /\ new' \in [Writers -> Gens \cup {Nothing}]
      /\ remaining' \in [Writers -> SUBSET (Sources \cup Gens)]
  BY <1>2 DEF WorkspaceInv, WorkspaceTypeOK
<1>9. doing'[w] = "close"
  BY <1>2 DEF MoveTo, WorkspaceInv, WorkspaceTypeOK
<1>10. Ahead(w)' \subseteq Ahead(w) /\ Refreshing(w)'
  BY <1>9 DEF Ahead, Refreshing
<1>11. Save(w, saved)
  BY <1>1 DEF saved
<1> QED BY <1>2, <1>3, <1>5, <1>6, <1>7, <1>8, <1>10, <1>11, SavingStep DEF reading

LEMMA MarkStaleStep ==
  ASSUME WorkspaceAssumption, WorkspaceInv, NEW w \in Writers, MarkStale(w)
  PROVE  WorkspaceInv'
<1>1. PICK s \in remaining[w] :
        /\ remaining' = [remaining EXCEPT ![w] = @ \ {s}] /\ src' = [src EXCEPT ![w] = s]
        /\ Save(w, [mem[w] EXCEPT ![s].status = "stale"])
  BY Zenon DEF MarkStale
<1> DEFINE saved == [mem[w] EXCEPT ![s].status = "stale"]
           where == IF Succeeded THEN "produce" ELSE "mark"
<1>2. doing[w] = "mark" /\ MoveTo(w, where) /\ UNCHANGED <<gen, built, leases, new, reading>>
  BY DEF MarkStale
<1>3. where \in {"mark", "produce"}
  OBVIOUS
<1> HIDE DEF where
<1>4. lock = w /\ mem[w] \in [Sources -> SourceEntry] /\ NamesIn(disk, gen, built) /\ NamesIn(mem[w], gen, built)
      /\ (~lost => mem[w] = disk)
  BY <1>2, HolderFact DEF Held
<1>5. remaining[w] \subseteq Sources /\ s \in Sources
  BY <1>1, <1>2, HolderFact DEF Held, Refreshing
<1>6. /\ saved \in [Sources -> SourceEntry]
      /\ \A t \in Sources :
           /\ saved[t].active = mem[w][t].active /\ saved[t].previous = mem[w][t].previous
           /\ saved[t].policy = mem[w][t].policy
           /\ saved[t].status = IF t = s THEN "stale" ELSE mem[w][t].status
  <2>1. mem[w] \in [Sources -> SourceEntry] /\ "stale" \in Statuses
    BY <1>4 DEF Statuses
  <2> QED BY <1>5, <2>1, StatusFact
<1> HIDE DEF saved
<1>7. NamesIn(saved, gen, built)
  BY <1>4, <1>6 DEF NamesIn
<1>8. ~lost => \A t \in Sources : saved[t].previous # Nothing => gen[saved[t].previous] = "complete"
  BY <1>4, <1>6 DEF WorkspaceInv, PreviousAvailable
<1>9. /\ remaining[w] \subseteq Sources \cup Gens
      /\ remaining'[w] = remaining[w] \ {s} /\ src'[w] = s /\ doing'[w] = where
  BY <1>1, <1>2 DEF MoveTo, WorkspaceInv, WorkspaceTypeOK
<1>10. /\ gen' \in [Gens -> {"none", "building", "complete", "torn", "unowned", "gone"}]
       /\ src' \in [Writers -> Sources \cup {Nothing}] /\ new' \in [Writers -> Gens \cup {Nothing}]
       /\ remaining' \in [Writers -> SUBSET (Sources \cup Gens)]
  BY <1>1, <1>2, <1>5, <1>9 DEF WorkspaceInv, WorkspaceTypeOK
<1>11. Ahead(w)' \subseteq Ahead(w)
  BY <1>1, <1>2, <1>3, <1>9 DEF Ahead
<1>12. Refreshing(w)'
  BY <1>3, <1>5, <1>9 DEF Refreshing
<1>13. Save(w, saved)
  BY <1>1 DEF saved
<1> QED BY <1>2, <1>3, <1>4, <1>6, <1>7, <1>8, <1>10, <1>11, <1>12, <1>13, SavingStep DEF reading

\* A refresh that fails has at most a generation of its own to remove.
LEMMA ProduceFailsStep ==
  ASSUME WorkspaceAssumption, WorkspaceInv, NEW w \in Writers, ProduceFails(w)
  PROVE  WorkspaceInv'
<1> DEFINE s == src[w]
           saved == [mem[w] EXCEPT ![s].status = "error"]
<1>1. /\ doing[w] \in {"produce", "fill", "conclude"} /\ MoveTo(w, "mark") /\ Save(w, saved)
      /\ gen' = IF doing[w] = "fill" THEN [gen EXCEPT ![new[w]] = "gone"] ELSE gen
      /\ UNCHANGED <<built, leases, src, new, remaining, reading>>
  BY DEF ProduceFails
<1>2. lock = w /\ mem[w] \in [Sources -> SourceEntry] /\ NamesIn(disk, gen, built) /\ NamesIn(mem[w], gen, built)
      /\ (~lost => mem[w] = disk) /\ Refreshing(w)
  BY <1>1, HolderFact DEF Held
<1>3. remaining[w] \subseteq Sources /\ s \in Sources /\ (doing[w] = "fill" => gen[new[w]] = "building" /\ new[w] \in Gens)
  BY <1>1, <1>2 DEF Refreshing, WorkspaceInv, WorkspaceTypeOK
<1>4. /\ saved \in [Sources -> SourceEntry]
      /\ \A t \in Sources :
           /\ saved[t].active = mem[w][t].active /\ saved[t].previous = mem[w][t].previous
           /\ saved[t].policy = mem[w][t].policy
           /\ saved[t].status = IF t = s THEN "error" ELSE mem[w][t].status
  <2>1. mem[w] \in [Sources -> SourceEntry] /\ "error" \in Statuses
    BY <1>2 DEF Statuses
  <2> QED BY <1>3, <2>1, StatusFact
<1> HIDE DEF saved, s
<1>5. NamesIn(saved, gen, built)
  BY <1>2, <1>4 DEF NamesIn
<1>6. /\ gen' \in [Gens -> {"none", "building", "complete", "torn", "unowned", "gone"}]
      /\ \A g \in Gens : gen[g] # "building" => gen'[g] = gen[g]
      /\ \A g \in Gens : gen[g] # "none" => gen'[g] # "none"
      /\ \A g \in Gens : gen[g] # "building" => gen'[g] # "building"
  BY <1>1, <1>3 DEF WorkspaceInv, WorkspaceTypeOK
<1>7. \A m \in [Sources -> SourceEntry] : NamesIn(m, gen, built) => NamesIn(m, gen', built)
  BY <1>6 DEF NamesIn, SourceEntry
<1>8. NamesIn(saved, gen', built) /\ NamesIn(disk, gen', built)
  BY <1>2, <1>4, <1>5, <1>7 DEF WorkspaceInv, WorkspaceTypeOK
<1>9. ~lost => \A t \in Sources : saved[t].previous # Nothing => gen'[saved[t].previous] = "complete"
  BY <1>2, <1>4, <1>6 DEF WorkspaceInv, PreviousAvailable, SourceEntry
<1>10. /\ src' \in [Writers -> Sources \cup {Nothing}] /\ new' \in [Writers -> Gens \cup {Nothing}]
       /\ remaining' \in [Writers -> SUBSET (Sources \cup Gens)] /\ doing'[w] = "mark"
  BY <1>1 DEF WorkspaceInv, WorkspaceTypeOK, MoveTo
<1>11. Ahead(w)' \subseteq Ahead(w)
  BY <1>1, <1>10 DEF Ahead
<1>12. Refreshing(w)'
  BY <1>1, <1>3, <1>10 DEF Refreshing
<1>13. Save(w, saved) /\ MoveTo(w, "mark") /\ UNCHANGED <<leases, built, reading>>
  BY <1>1
<1>14. \A t \in Sources : saved[t].active = mem[w][t].active /\ saved[t].previous = mem[w][t].previous
  BY <1>4
<1>15. lock = w /\ saved \in [Sources -> SourceEntry]
       /\ gen' \in [Gens -> {"none", "building", "complete", "torn", "unowned", "gone"}]
  BY <1>2, <1>4, <1>6
<1> QED BY <1>8, <1>9, <1>10, <1>11, <1>12, <1>13, <1>14, <1>15, SavingStep

\* A check that concludes activates what it built, and keeps what was active.
LEMMA ConcludeStep ==
  ASSUME WorkspaceAssumption, WorkspaceInv, NEW w \in Writers, Conclude(w)
  PROVE  WorkspaceInv'
<1> DEFINE s == src[w]
           m == mem[w]
           g == new[w]
           e == IF g = Nothing THEN m[s] ELSE Activated(m[s], g)
<1>1. PICK status \in {"current"} \cup IF g = Nothing THEN {} ELSE {"stale"} :
        Save(w, [m EXCEPT ![s] = [e EXCEPT !.status = status]])
  BY Zenon DEF Conclude
<1> DEFINE entry == [e EXCEPT !.status = status]
           saved == [m EXCEPT ![s] = entry]
<1>2. /\ doing[w] = "conclude" /\ new' = [new EXCEPT ![w] = Nothing] /\ MoveTo(w, "mark") /\ Save(w, saved)
      /\ UNCHANGED <<gen, built, leases, src, remaining, reading>>
  BY <1>1 DEF Conclude
<1>3. lock = w /\ m \in [Sources -> SourceEntry] /\ NamesIn(disk, gen, built) /\ NamesIn(m, gen, built)
      /\ (~lost => m = disk) /\ Refreshing(w)
  BY <1>2, HolderFact DEF Held
<1>4. /\ remaining[w] \subseteq Sources /\ s \in Sources \ remaining[w] /\ g \in Gens \cup {Nothing}
      /\ IF g = Nothing
         THEN m[s].active # Nothing /\ built[m[s].active].policy = m[s].policy
         ELSE gen[g] = "complete" /\ built[g].source = s /\ built[g].policy = m[s].policy
  BY <1>2, <1>3 DEF Refreshing, WorkspaceInv, WorkspaceTypeOK
<1>5. /\ entry \in SourceEntry /\ entry.policy = m[s].policy /\ entry.status \in {"current", "stale"}
      /\ g = Nothing => entry.active = m[s].active /\ entry.previous = m[s].previous
      /\ g # Nothing => entry.active = g /\ entry.previous = m[s].active
  <2>1. m[s] \in SourceEntry /\ g \in Gens \cup {Nothing} /\ status \in {"current", "stale"} /\ status \in Statuses
    BY <1>1, <1>3, <1>4 DEF Statuses
  <2> HIDE DEF m, s, g
  <2>2. CASE g = Nothing
    BY <2>1, <2>2 DEF SourceEntry
  <2>3. CASE g # Nothing
    BY <2>1, <2>3 DEF SourceEntry, Activated
  <2> QED BY <2>2, <2>3
<1> HIDE DEF entry, e
<1>6. saved \in [Sources -> SourceEntry] /\ saved[s] = entry /\ \A t \in Sources \ {s} : saved[t] = m[t]
  BY <1>3, <1>4, <1>5
<1>7. /\ doing'[w] = "mark" /\ src' \in [Writers -> Sources \cup {Nothing}]
      /\ new' \in [Writers -> Gens \cup {Nothing}] /\ remaining' \in [Writers -> SUBSET (Sources \cup Gens)]
      /\ gen' \in [Gens -> {"none", "building", "complete", "torn", "unowned", "gone"}]
  BY <1>2 DEF MoveTo, WorkspaceInv, WorkspaceTypeOK
<1>8. Ahead(w)' = remaining[w] /\ Ahead(w) = remaining[w] \cup {s} /\ Refreshing(w)'
  BY <1>2, <1>4, <1>7 DEF Ahead, Refreshing
<1> HIDE DEF saved, m, s, g
<1>9. NamesIn(saved, gen, built)
  <2> SUFFICES ASSUME NEW t \in Sources
               PROVE  /\ saved[t].active # Nothing =>
                           gen[saved[t].active] = "complete" /\ built[saved[t].active].source = t
                      /\ saved[t].active = Nothing => saved[t].previous = Nothing /\ saved[t].status # "current"
                      /\ saved[t].previous # Nothing => gen[saved[t].previous] \notin {"none", "building"}
                      /\ saved[t].status = "current" => built[saved[t].active].policy = saved[t].policy
    BY Zenon DEF NamesIn
  <2>1. CASE t # s
    BY <1>3, <1>6, <2>1 DEF NamesIn
  <2>2. CASE t = s
    <3>1. /\ m[t].active # Nothing => gen[m[t].active] = "complete" /\ built[m[t].active].source = t
          /\ m[t].previous # Nothing => gen[m[t].previous] \notin {"none", "building"}
      BY <1>3 DEF NamesIn
    <3> QED BY <1>4, <1>5, <1>6, <2>2, <3>1
  <2> QED BY <2>1, <2>2
<1>10. ~lost => \A t \in Sources : saved[t].previous # Nothing => gen[saved[t].previous] = "complete"
  <2> SUFFICES ASSUME ~lost, NEW t \in Sources, saved[t].previous # Nothing
               PROVE  gen[saved[t].previous] = "complete"
    OBVIOUS
  <2>1. m = disk /\ (m[t].previous # Nothing => gen[m[t].previous] = "complete")
    BY <1>3 DEF WorkspaceInv, PreviousAvailable
  <2>2. m[t].active # Nothing => gen[m[t].active] = "complete"
    BY <1>3 DEF NamesIn
  <2> QED BY <1>5, <1>6, <2>1, <2>2
<1>11. \A t \in Sources :
         \/ saved[t].active = mem[w][t].active /\ saved[t].previous = mem[w][t].previous
         \/ t \in Ahead(w) /\ t \notin Ahead(w)' /\ saved[t].previous = mem[w][t].active
  BY <1>4, <1>5, <1>6, <1>8 DEF m
<1> QED BY <1>2, <1>3, <1>4, <1>6, <1>7, <1>8, <1>9, <1>10, <1>11, SavingStep DEF reading

\* What a writer's step may change, typed.
Standing ==
  {"idle", "locking", "open", "mark", "produce", "fill", "conclude", "list", "prune", "remove",
   "close", "acquire", "load", "loaded"}

WriterTypes ==
  /\ mem \in [Writers -> [Sources -> SourceEntry]] /\ src \in [Writers -> Sources \cup {Nothing}]
  /\ new \in [Writers -> Gens \cup {Nothing}] /\ remaining \in [Writers -> SUBSET (Sources \cup Gens)]
  /\ gen \in [Gens -> {"none", "building", "complete", "torn", "unowned", "gone"}]
  /\ built \in [Gens -> [source : Sources \cup {Nothing}, policy : 0..MaxPolicies]]
  /\ lock \in Writers \cup {Nothing} /\ exclusive \in [Gens -> Writers \cup {Nothing}]
  /\ mishaps \in 0..MaxMishaps

\* What a step leaves to a writer that holds the lock.
Untouched(v) ==
  /\ lock' = v <=> lock = v
  /\ lock = v => /\ UNCHANGED <<gen, built>> /\ mem'[v] = mem[v] /\ src'[v] = src[v]
                 /\ new'[v] = new[v] /\ remaining'[v] = remaining[v]
                 /\ \A g \in Gens : exclusive[g] = v => exclusive'[g] = v

\* The facts a step needs of the registry on disk.
LEMMA DiskFact ==
  ASSUME WorkspaceInv
  PROVE  /\ NamesIn(disk, gen, built) /\ disk \in [Sources -> SourceEntry]
         /\ ~lost => \A s \in Sources : disk[s].previous # Nothing => gen[disk[s].previous] = "complete"
         /\ doing \in [Writers \cup Readers -> Standing] /\ WriterTypes
<1>1. NamesIn(disk, gen, built)
  BY WorkspaceParts DEF RegistryInv
<1> QED BY <1>1 DEF WorkspaceInv, WorkspaceTypeOK, PreviousAvailable, Standing, WriterTypes

\* A step of a writer that leaves the registry on disk alone: what it does to
\* generations is done under the lock, and to none the registry needs.
LEMMA WriterStep ==
  ASSUME WorkspaceAssumption, WorkspaceInv, NEW w \in Writers, UNCHANGED <<disk, shared, reading, lost>>,
         WriterTypes', NamesIn(disk, gen', built'),
         ~lost => \A s \in Sources : disk[s].previous # Nothing => gen'[disk[s].previous] = "complete",
         NEW where \in Held \cup {"idle", "locking"}, doing' = [doing EXCEPT ![w] = where],
         \A v \in Writers \ {w} : Untouched(v),
         \A g \in Gens : exclusive'[g] # Nothing => exclusive[g] # Nothing \/ shared[g] = {},
         where \in Held <=> lock' = w,
         lock' = w => NamesIn(mem'[w], gen', built'), lock' = w => (~lost => mem'[w] = disk),
         lock' = w => SavedOnce(w)', lock' = w => Refreshing(w)', lock' = w => Pruning(w)'
  PROVE  WorkspaceInv'
<1>1. /\ doing'[w] = where /\ \A q \in (Writers \cup Readers) \ {w} : doing'[q] = doing[q]
      /\ doing' \in [Writers \cup Readers -> Standing]
  BY DiskFact DEF Standing, Held
<1>2. Names(disk)' /\ (lock' = w => Names(mem[w])')
  BY Zenon DEF Names, NamesIn
<1>3. WorkspaceTypeOK'
  <2>1. \A s \in Sources : disk'[s].active = Nothing => disk'[s].previous = Nothing /\ disk'[s].status # "current"
    BY DEF NamesIn
  <2> QED BY <1>1, <2>1 DEF WorkspaceInv, WorkspaceTypeOK, WriterTypes, reading, Standing
<1>4. PreviousAvailable'
  BY DEF PreviousAvailable
<1>5. WriterInv(w)'
  BY <1>1, <1>2 DEF WriterInv
<1>6. \A v \in Writers \ {w} : WriterInv(v)'
  <2> SUFFICES ASSUME NEW v \in Writers \ {w} PROVE WriterInv(v)'
    OBVIOUS
  <2>1. doing'[v] = doing[v] /\ WriterInv(v) /\ (lock' = v <=> lock = v)
    BY <1>1, WorkspaceParts DEF Untouched
  <2>2. CASE lock # v
    BY <2>1, <2>2 DEF WriterInv
  <2>3. CASE lock = v
    <3>1. /\ UNCHANGED <<disk, gen, built, lost>> /\ mem'[v] = mem[v] /\ src'[v] = src[v]
          /\ new'[v] = new[v] /\ remaining'[v] = remaining[v]
          /\ \A g \in Gens : exclusive[g] = v => exclusive'[g] = v
      BY <2>3 DEF Untouched
    <3>2. Names(mem[v])' /\ (~lost' => mem'[v] = disk')
      BY <2>1, <2>3, <3>1 DEF WriterInv, Names
    <3>3. SavedOnce(v)'
      BY <2>1, <2>3, <3>1 DEF WriterInv, SavedOnce, Ahead
    <3>4. Refreshing(v)'
      BY <2>1, <2>3, <3>1 DEF WriterInv, Refreshing
    <3>5. Pruning(v)'
      BY <2>1, <2>3, <3>1 DEF WriterInv, Pruning, Registered
    <3> QED BY <2>1, <2>3, <3>2, <3>3, <3>4, <3>5 DEF WriterInv
  <2> QED BY <2>2, <2>3
<1>7. PinInv'
  <2>1. \A r \in Readers : doing'[r] = doing[r] \/ doing'[r] \notin {"acquire", "load", "loaded"}
    BY <1>1 DEF Held
  <2> QED BY <2>1, LeasesStay, WorkspaceParts DEF reading
<1>8. RegistryInv' /\ \A v \in Writers : WriterInv(v)'
  BY <1>2, <1>3, <1>4, <1>5, <1>6 DEF RegistryInv
<1> QED BY <1>7, <1>8, Zenon DEF WorkspaceInv, RegistryInv, WriterInv, PinInv

LEMMA OpenStep ==
  ASSUME WorkspaceAssumption, WorkspaceInv, NEW w \in Writers, OpenWorkspace(w)
  PROVE  WorkspaceInv'
<1>1. /\ doing[w] = "idle" /\ doing' = [doing EXCEPT ![w] = "locking"] /\ mem' = [mem EXCEPT ![w] = disk]
      /\ UNCHANGED <<registryFiles, leases, src, new, remaining, reading, hits>>
  BY DEF OpenWorkspace, MoveTo
<1>2. lock # w
  BY <1>1 DEF WorkspaceInv, Held
<1>3. WriterTypes'
  BY <1>1, DiskFact DEF WriterTypes, registryFiles, leases, hits
<1>4. \A v \in Writers \ {w} : Untouched(v)
  BY <1>1 DEF Untouched, registryFiles, leases
<1> QED BY <1>1, <1>2, <1>3, <1>4, DiskFact, WriterStep DEF Held, registryFiles, leases, reading, hits

LEMMA TakeLockStep ==
  ASSUME WorkspaceAssumption, WorkspaceInv, NEW w \in Writers, TakeLock(w)
  PROVE  WorkspaceInv'
<1>1. /\ doing[w] = "locking" /\ UNCHANGED <<registryFiles, exclusive, shared, src, new, remaining, reading, hits>>
      /\ \/ /\ lock = Nothing /\ lock' = w /\ mem' = [mem EXCEPT ![w] = disk]
            /\ doing' = [doing EXCEPT ![w] = "open"]
         \/ lock # Nothing /\ doing' = [doing EXCEPT ![w] = "idle"] /\ UNCHANGED <<lock, mem>>
  BY DEF TakeLock, MoveTo, Reload
<1>2. lock # w /\ w # Nothing
  BY <1>1 DEF WorkspaceInv, Held, WorkspaceAssumption
<1>3. WriterTypes'
  <2>1. mem' \in [Writers -> [Sources -> SourceEntry]] /\ lock' \in Writers \cup {Nothing}
    BY <1>1, DiskFact DEF WriterTypes
  <2> QED BY <1>1, <2>1, DiskFact DEF WriterTypes, registryFiles, hits
<1>4. \A v \in Writers \ {w} : Untouched(v)
  BY <1>1 DEF Untouched, registryFiles, WorkspaceAssumption
<1>5. CASE lock = Nothing
  <2>1. lock' = w /\ mem'[w] = disk /\ doing' = [doing EXCEPT ![w] = "open"] /\ doing'[w] = "open"
    BY <1>1, <1>5, DiskFact DEF WriterTypes
  <2>2. SavedOnce(w)' /\ Refreshing(w)' /\ Pruning(w)'
    BY <1>1, <2>1 DEF SavedOnce, Refreshing, Pruning, registryFiles
  <2> QED BY <1>1, <1>3, <1>4, <2>1, <2>2, DiskFact, WriterStep DEF Held, registryFiles, reading, hits
<1>6. CASE lock # Nothing
  BY <1>1, <1>2, <1>3, <1>4, <1>6, DiskFact, WriterStep DEF Held, registryFiles, reading, hits
<1> QED BY <1>5, <1>6

\* The steps of a sync that touch no generation.
LEMMA SyncStep ==
  ASSUME WorkspaceAssumption, WorkspaceInv, NEW w \in Writers,
         Sync(w) \/ Refreshed(w) \/ ListGens(w) \/ Pruned(w)
  PROVE  WorkspaceInv'
<1>1. UNCHANGED <<registryFiles, leases, mem, src, new, reading, hits>>
  BY DEF Sync, Refreshed, ListGens, Pruned, writing
<1>2. /\ lock = w /\ NamesIn(mem[w], gen, built) /\ (~lost => mem[w] = disk)
      /\ SavedOnce(w) /\ Refreshing(w) /\ Pruning(w) /\ mem[w] \in [Sources -> SourceEntry]
  BY HolderFact DEF Sync, Refreshed, ListGens, Pruned, Held
<1>3. PICK where \in Held \cup {"idle", "locking"}, S \in SUBSET (Sources \cup Gens) :
        /\ doing' = [doing EXCEPT ![w] = where] /\ remaining' = [remaining EXCEPT ![w] = S]
        /\ \/ doing[w] = "open" /\ where = "mark" /\ S \subseteq Sources
           \/ doing[w] = "mark" /\ where \in {"list", "close"}
           \/ doing[w] = "list" /\ where = "prune" /\ S \subseteq Gens \ Registered(mem[w])
           \/ doing[w] = "prune" /\ where = "close"
  <2>1. CASE Sync(w)
    <3>1. PICK S \in {Known(w)} \cup {{s} : s \in Known(w)} : remaining' = [remaining EXCEPT ![w] = S]
      BY <2>1, Zenon DEF Sync
    <3>2. S \subseteq Sources
      BY DEF Known
    <3> QED BY <2>1, <3>1, <3>2 DEF Sync, MoveTo, Held
  <2>2. CASE Refreshed(w) \/ Pruned(w)
    <3>1. remaining' = [remaining EXCEPT ![w] = remaining[w]] /\ remaining[w] \in SUBSET (Sources \cup Gens)
      BY <2>2, DiskFact DEF Refreshed, Pruned, writing, WriterTypes
    <3> QED BY <2>2, <3>1 DEF Refreshed, Pruned, MoveTo, Held
  <2>3. CASE ListGens(w)
    BY <2>3 DEF ListGens, MoveTo, Held, Retained
  <2> QED BY <2>1, <2>2, <2>3
<1>4. WriterTypes'
  BY <1>1, <1>3, DiskFact DEF WriterTypes, registryFiles, leases, hits
<1>5. \A v \in Writers \ {w} : Untouched(v)
  BY <1>1, <1>2, <1>3 DEF Untouched, registryFiles, leases
<1>6. doing'[w] = where /\ remaining'[w] = S
  BY <1>3, DiskFact DEF WriterTypes
<1>7. SavedOnce(w)'
  BY <1>1, <1>2, <1>3, <1>6 DEF SavedOnce, Ahead, registryFiles
<1>8. Refreshing(w)' /\ Pruning(w)'
  BY <1>1, <1>3, <1>6 DEF Refreshing, Pruning, Registered, registryFiles, leases
<1>9. where \in Held /\ lock' = w
  BY <1>1, <1>2, <1>3 DEF Held, leases
<1> QED BY <1>1, <1>2, <1>3, <1>4, <1>5, <1>7, <1>8, <1>9, DiskFact, WriterStep DEF registryFiles, leases, reading, hits

\* A writer that closes the workspace, or dies, forgets what it had in memory.
LEMMA LeaveStep ==
  ASSUME WorkspaceAssumption, WorkspaceInv, NEW w \in Writers, CloseWorkspace(w) \/ WriterDies(w)
  PROVE  WorkspaceInv'
<1>1. /\ UNCHANGED <<registryFiles, shared, reading, lost>> /\ doing' = [doing EXCEPT ![w] = "idle"] /\ Forget(w)
      /\ mishaps' \in 0..MaxMishaps
  BY DiskFact DEF CloseWorkspace, WriterDies, MoveTo, hits, WriterTypes, WorkspaceAssumption
<1>2. /\ exclusive' \in [Gens -> Writers \cup {Nothing}]
      /\ \A g \in Gens : exclusive'[g] # exclusive[g] => exclusive[g] = w /\ exclusive'[g] = Nothing
  BY DiskFact DEF CloseWorkspace, WriterDies, WriterTypes
<1>3. lock' = IF lock = w THEN Nothing ELSE lock
  <2>1. CASE CloseWorkspace(w)
    <3>1. doing[w] \in Held
      BY <2>1 DEF CloseWorkspace, Held
    <3> QED BY <2>1, <3>1, HolderFact DEF CloseWorkspace
  <2>2. CASE WriterDies(w)
    BY <2>2 DEF WriterDies
  <2> QED BY <2>1, <2>2
<1>4. Unregistered \in SourceEntry
  BY DEF Unregistered, SourceEntry, Statuses, WorkspaceAssumption
<1>5. WriterTypes'
  <2>1. mem' \in [Writers -> [Sources -> SourceEntry]]
    BY <1>1, <1>4, DiskFact DEF Forget, WriterTypes
  <2>2. /\ src' \in [Writers -> Sources \cup {Nothing}] /\ new' \in [Writers -> Gens \cup {Nothing}]
        /\ remaining' \in [Writers -> SUBSET (Sources \cup Gens)]
    BY <1>1, DiskFact DEF Forget, WriterTypes
  <2> QED BY <1>1, <1>2, <1>3, <2>1, <2>2, DiskFact DEF WriterTypes, registryFiles
<1>6. \A v \in Writers \ {w} : Untouched(v)
  <2> SUFFICES ASSUME NEW v \in Writers \ {w} PROVE Untouched(v)
    OBVIOUS
  <2>1. mem'[v] = mem[v] /\ src'[v] = src[v] /\ new'[v] = new[v] /\ remaining'[v] = remaining[v]
    BY <1>1, DiskFact DEF Forget, WriterTypes
  <2>2. \A g \in Gens : exclusive[g] = v => exclusive'[g] = v
    BY <1>2
  <2>3. lock' = v <=> lock = v
    BY <1>3 DEF WorkspaceAssumption
  <2> QED BY <1>1, <2>1, <2>2, <2>3 DEF Untouched, registryFiles
<1>7. lock' # w /\ \A g \in Gens : exclusive'[g] # Nothing => exclusive[g] # Nothing
  BY <1>2, <1>3 DEF WorkspaceAssumption
<1> QED BY <1>1, <1>5, <1>6, <1>7, DiskFact, WriterStep DEF registryFiles, Held

\* A registry names no generation that a step creates, fills or removes.
LEMMA ElsewhereFact ==
  ASSUME NEW m \in [Sources -> SourceEntry], NamesIn(m, gen, built), NEW g \in Gens,
         \A h \in Gens \ {g} : gen'[h] = gen[h] /\ built'[h] = built[h],
         \/ gen[g] = "none" \/ gen[g] = "building"
         \/ g \notin Registered(m)
  PROVE  /\ NamesIn(m, gen', built')
         /\ \A s \in Sources : m[s].previous # Nothing /\ gen[m[s].previous] = "complete" =>
              gen'[m[s].previous] = "complete"
<1>1. \A s \in Sources : m[s].active \in Gens \cup {Nothing} /\ m[s].previous \in Gens \cup {Nothing}
  BY DEF SourceEntry
<1>2. \A s \in Sources : (m[s].active # Nothing => m[s].active # g) /\ (m[s].previous # Nothing => m[s].previous # g)
  BY DEF NamesIn, Registered
<1>3. \A s \in Sources :
        /\ m[s].active # Nothing => gen'[m[s].active] = gen[m[s].active] /\ built'[m[s].active] = built[m[s].active]
        /\ m[s].previous # Nothing => gen'[m[s].previous] = gen[m[s].previous]
  BY <1>1, <1>2
<1> QED BY <1>3 DEF NamesIn

LEMMA ProduceStep ==
  ASSUME WorkspaceAssumption, WorkspaceInv, NEW w \in Writers, Produce(w)
  PROVE  WorkspaceInv'
<1> DEFINE s == src[w]
<1>1. doing[w] = "produce" /\ UNCHANGED <<disk, leases, mem, src, remaining, reading, hits>>
  BY DEF Produce
<1>2. /\ lock = w /\ NamesIn(mem[w], gen, built) /\ (~lost => mem[w] = disk)
      /\ SavedOnce(w) /\ Refreshing(w) /\ mem[w] \in [Sources -> SourceEntry]
  BY <1>1, HolderFact DEF Held
<1>3. remaining[w] \subseteq Sources /\ s \in Sources \ remaining[w]
  BY <1>1, <1>2 DEF Refreshing
<1>4. lock' = w /\ \A v \in Writers \ {w} : Untouched(v)
  BY <1>1, <1>2 DEF Untouched, leases
<1>5. CASE Unchanged(w) /\ new' = [new EXCEPT ![w] = Nothing] /\ MoveTo(w, "conclude") /\ UNCHANGED <<gen, built>>
  <2>1. doing' = [doing EXCEPT ![w] = "conclude"] /\ doing'[w] = "conclude" /\ new'[w] = Nothing
    BY <1>5, DiskFact DEF MoveTo, WriterTypes
  <2>2. WriterTypes'
    BY <1>1, <1>5, DiskFact DEF WriterTypes, leases, hits
  <2>3. mem[w][s].active # Nothing /\ built[mem[w][s].active].policy = mem[w][s].policy
    BY <1>5 DEF Unchanged
  <2>4. SavedOnce(w)'
    BY <1>1, <1>2, <2>1 DEF SavedOnce, Ahead
  <2>5. Refreshing(w)' /\ Pruning(w)'
    BY <1>1, <1>3, <1>5, <2>1, <2>3 DEF Refreshing, Pruning
  <2> HIDE DEF s
  <2> QED BY <1>1, <1>2, <1>4, <1>5, <2>1, <2>2, <2>4, <2>5, DiskFact, WriterStep DEF Held, leases, hits, reading
<1>6. CASE \E g \in Gens :
             /\ gen[g] = "none" /\ gen' = [gen EXCEPT ![g] = "building"]
             /\ built' = [built EXCEPT ![g] = [source |-> s, policy |-> mem[w][s].policy]]
             /\ new' = [new EXCEPT ![w] = g] /\ MoveTo(w, "fill")
  <2>1. PICK g \in Gens :
          /\ gen[g] = "none" /\ gen' = [gen EXCEPT ![g] = "building"]
          /\ built' = [built EXCEPT ![g] = [source |-> s, policy |-> mem[w][s].policy]]
          /\ new' = [new EXCEPT ![w] = g] /\ MoveTo(w, "fill")
    BY <1>6
  <2>2. [source |-> s, policy |-> mem[w][s].policy] \in [source : Sources \cup {Nothing}, policy : 0..MaxPolicies]
    <3>1. mem[w][s] \in SourceEntry
      BY <1>2, <1>3
    <3> HIDE DEF s
    <3> QED BY <1>3, <3>1 DEF SourceEntry
  <2>3. /\ doing' = [doing EXCEPT ![w] = "fill"] /\ doing'[w] = "fill" /\ new'[w] = g /\ gen'[g] = "building"
        /\ built'[g] = [source |-> s, policy |-> mem[w][s].policy]
        /\ \A h \in Gens \ {g} : gen'[h] = gen[h] /\ built'[h] = built[h]
    BY <2>1, DiskFact DEF MoveTo, WriterTypes
  <2>4. WriterTypes'
    <3>1. /\ built' \in [Gens -> [source : Sources \cup {Nothing}, policy : 0..MaxPolicies]]
          /\ gen' \in [Gens -> {"none", "building", "complete", "torn", "unowned", "gone"}]
          /\ new' \in [Writers -> Gens \cup {Nothing}]
      BY <2>1, <2>2, DiskFact DEF WriterTypes
    <3> HIDE DEF s
    <3> QED BY <1>1, <3>1, DiskFact DEF WriterTypes, leases, hits
  <2>5. /\ NamesIn(disk, gen', built') /\ NamesIn(mem[w], gen', built')
        /\ ~lost => \A t \in Sources : disk[t].previous # Nothing => gen'[disk[t].previous] = "complete"
    BY <1>2, <2>1, <2>3, DiskFact, ElsewhereFact
  <2>6. SavedOnce(w)'
    BY <1>1, <1>2, <2>3 DEF SavedOnce, Ahead
  <2>7. Refreshing(w)' /\ Pruning(w)'
    BY <1>1, <1>3, <2>1, <2>3 DEF Refreshing, Pruning, WorkspaceAssumption
  <2>8. mem'[w] = mem[w]
    BY <1>1
  <2> HIDE DEF s
  <2> QED BY <1>1, <1>2, <1>4, <2>3, <2>4, <2>5, <2>6, <2>7, <2>8, WriterStep DEF Held, leases, hits, reading
<1> QED BY <1>5, <1>6 DEF Produce

LEMMA FillStep ==
  ASSUME WorkspaceAssumption, WorkspaceInv, NEW w \in Writers, Fill(w)
  PROVE  WorkspaceInv'
<1> DEFINE g == new[w]
<1>1. /\ doing[w] = "fill" /\ UNCHANGED <<disk, built, leases, writing, reading, hits>>
      /\ gen' = [gen EXCEPT ![g] = "complete"] /\ doing' = [doing EXCEPT ![w] = "conclude"]
  BY DEF Fill, MoveTo
<1>2. /\ lock = w /\ NamesIn(mem[w], gen, built) /\ (~lost => mem[w] = disk)
      /\ SavedOnce(w) /\ Refreshing(w) /\ mem[w] \in [Sources -> SourceEntry]
  BY <1>1, HolderFact DEF Held
<1>3. /\ remaining[w] \subseteq Sources /\ src[w] \in Sources \ remaining[w] /\ g \in Gens /\ gen[g] = "building"
      /\ built[g] = [source |-> src[w], policy |-> mem[w][src[w]].policy]
  BY <1>1, <1>2, DiskFact DEF Refreshing, WriterTypes
<1>4. doing'[w] = "conclude" /\ gen'[g] = "complete" /\ \A h \in Gens \ {g} : gen'[h] = gen[h] /\ built'[h] = built[h]
  BY <1>1, <1>3, DiskFact DEF WriterTypes
<1>5. WriterTypes'
  <2>1. gen' \in [Gens -> {"none", "building", "complete", "torn", "unowned", "gone"}]
    BY <1>1, DiskFact DEF WriterTypes
  <2> QED BY <1>1, <2>1, DiskFact DEF WriterTypes, leases, writing, hits
<1>6. lock' = w /\ \A v \in Writers \ {w} : Untouched(v)
  BY <1>1, <1>2 DEF Untouched, leases
<1>7. /\ NamesIn(disk, gen', built') /\ NamesIn(mem'[w], gen', built')
      /\ ~lost => \A t \in Sources : disk[t].previous # Nothing => gen'[disk[t].previous] = "complete"
  <2>1. mem'[w] = mem[w]
    BY <1>1 DEF writing
  <2> QED BY <1>2, <1>3, <1>4, <2>1, DiskFact, ElsewhereFact
<1>8. SavedOnce(w)'
  BY <1>1, <1>2, <1>4 DEF SavedOnce, Ahead, writing
<1>9. Refreshing(w)' /\ Pruning(w)'
  BY <1>1, <1>3, <1>4 DEF Refreshing, Pruning, WorkspaceAssumption, writing
<1> HIDE DEF g
<1> QED BY <1>1, <1>2, <1>5, <1>6, <1>7, <1>8, <1>9, WriterStep DEF Held, leases, hits, reading, writing

\* A prune takes the lease of a generation no reader has pinned.
LEMMA TakeStep ==
  ASSUME WorkspaceAssumption, WorkspaceInv, NEW w \in Writers, Take(w)
  PROVE  WorkspaceInv'
<1>1. PICK g \in remaining[w] :
        /\ remaining' = [remaining EXCEPT ![w] = @ \ {g}]
        /\ \/ /\ Removable(g) /\ exclusive' = [exclusive EXCEPT ![g] = w]
              /\ new' = [new EXCEPT ![w] = g] /\ MoveTo(w, "remove")
           \/ UNCHANGED <<exclusive, new, doing>>
  BY Zenon DEF Take
<1>2. doing[w] = "prune" /\ UNCHANGED <<registryFiles, lock, shared, mem, src, reading, hits>>
  BY DEF Take
<1>3. /\ lock = w /\ NamesIn(mem[w], gen, built) /\ (~lost => mem[w] = disk)
      /\ SavedOnce(w) /\ Pruning(w) /\ mem[w] \in [Sources -> SourceEntry]
  BY <1>2, HolderFact DEF Held
<1>4. remaining[w] \subseteq Gens \ Registered(mem[w]) /\ g \in Gens \ Registered(mem[w])
  BY <1>1, <1>2, <1>3 DEF Pruning
<1>5. /\ exclusive' \in [Gens -> Writers \cup {Nothing}] /\ new' \in [Writers -> Gens \cup {Nothing}]
      /\ remaining' \in [Writers -> SUBSET (Sources \cup Gens)] /\ remaining'[w] \subseteq remaining[w]
      /\ \A v \in Writers \ {w} : remaining'[v] = remaining[v] /\ new'[v] = new[v]
  <2>1. /\ remaining' \in [Writers -> SUBSET (Sources \cup Gens)] /\ remaining'[w] = remaining[w] \ {g}
        /\ \A v \in Writers \ {w} : remaining'[v] = remaining[v]
    BY <1>1, DiskFact DEF WriterTypes
  <2>2. exclusive' \in [Gens -> Writers \cup {Nothing}]
    BY <1>1, <1>4, DiskFact DEF WriterTypes
  <2>3. new' \in [Writers -> Gens \cup {Nothing}] /\ \A v \in Writers \ {w} : new'[v] = new[v]
    BY <1>1, <1>4, DiskFact DEF WriterTypes
  <2> QED BY <2>1, <2>2, <2>3
<1>6. WriterTypes'
  BY <1>2, <1>5, DiskFact DEF WriterTypes, registryFiles, hits
<1>7. lock' = w /\ \A v \in Writers \ {w} : Untouched(v)
  BY <1>2, <1>3 DEF Untouched
<1>8. PICK where \in {"prune", "remove"} :
        /\ doing' = [doing EXCEPT ![w] = where]
        /\ where = "remove" => Removable(g) /\ exclusive'[g] = w /\ new'[w] = g
  <2>1. CASE UNCHANGED <<exclusive, new, doing>>
    BY <1>2, <2>1, DiskFact
  <2>2. CASE Removable(g) /\ exclusive' = [exclusive EXCEPT ![g] = w]
              /\ new' = [new EXCEPT ![w] = g] /\ MoveTo(w, "remove")
    BY <1>4, <2>2, DiskFact DEF WriterTypes, MoveTo
  <2> QED BY <1>1, <2>1, <2>2
<1>9. doing'[w] = where
  BY <1>8, DiskFact
<1>10. SavedOnce(w)'
  BY <1>2, <1>3, <1>8, <1>9 DEF SavedOnce, Ahead, registryFiles
<1>11. Refreshing(w)' /\ Pruning(w)'
  BY <1>2, <1>4, <1>5, <1>8, <1>9 DEF Refreshing, Pruning, Registered
<1>12. \A h \in Gens : exclusive'[h] # Nothing => exclusive[h] # Nothing \/ shared[h] = {}
  BY <1>1, <1>4, DiskFact DEF Removable, WriterTypes
<1> QED BY <1>2, <1>3, <1>6, <1>7, <1>8, <1>10, <1>11, <1>12, DiskFact, WriterStep DEF Held, registryFiles, hits, reading

\* What is removed is named neither by the registry in memory nor, as its active
\* generation, by the one on disk.
LEMMA RemoveAllStep ==
  ASSUME WorkspaceAssumption, WorkspaceInv, NEW w \in Writers, RemoveAll(w)
  PROVE  WorkspaceInv'
<1> DEFINE g == new[w]
<1>1. doing[w] = "remove" /\ UNCHANGED <<disk, built, lock, shared, mem, src, remaining, reading, hits>>
  BY DEF RemoveAll
<1>2. /\ lock = w /\ NamesIn(mem[w], gen, built) /\ (~lost => mem[w] = disk)
      /\ SavedOnce(w) /\ Pruning(w) /\ mem[w] \in [Sources -> SourceEntry]
  BY <1>1, HolderFact DEF Held
<1>3. g \in Gens \ Registered(mem[w]) /\ exclusive[g] = w /\ remaining[w] \subseteq Gens \ Registered(mem[w])
  BY <1>1, <1>2 DEF Pruning
<1>4. PICK left \in {"torn", "unowned", "gone"}, where \in {"remove", "prune"} :
        /\ gen' = [gen EXCEPT ![g] = left] /\ doing' = [doing EXCEPT ![w] = where]
        /\ exclusive' = IF where = "remove" THEN exclusive ELSE [exclusive EXCEPT ![g] = Nothing]
        /\ new' = IF where = "remove" THEN new ELSE [new EXCEPT ![w] = Nothing]
  <2>1. CASE /\ \E left \in {"torn", "unowned"} : gen' = [gen EXCEPT ![g] = left]
             /\ UNCHANGED <<exclusive, new, doing>>
    <3>1. doing' = [doing EXCEPT ![w] = "remove"]
      BY <1>1, <2>1, DiskFact
    <3> QED BY <2>1, <3>1
  <2>2. CASE /\ gen' = [gen EXCEPT ![g] = "gone"] /\ exclusive' = [exclusive EXCEPT ![g] = Nothing]
             /\ new' = [new EXCEPT ![w] = Nothing] /\ MoveTo(w, "prune")
    BY <2>2 DEF MoveTo
  <2> QED BY <2>1, <2>2 DEF RemoveAll
<1>5. /\ doing'[w] = where /\ gen'[g] = left
      /\ \A h \in Gens \ {g} : gen'[h] = gen[h] /\ built'[h] = built[h] /\ exclusive'[h] = exclusive[h]
      /\ exclusive'[g] = IF where = "remove" THEN w ELSE Nothing
      /\ where = "remove" => new' = new
      /\ \A v \in Writers \ {w} : new'[v] = new[v]
  BY <1>1, <1>3, <1>4, DiskFact DEF WriterTypes
<1>6. WriterTypes'
  <2>1. gen' \in [Gens -> {"none", "building", "complete", "torn", "unowned", "gone"}]
    BY <1>4, DiskFact DEF WriterTypes
  <2>2. exclusive' \in [Gens -> Writers \cup {Nothing}] /\ new' \in [Writers -> Gens \cup {Nothing}]
    BY <1>3, <1>4, DiskFact DEF WriterTypes
  <2> QED BY <1>1, <2>1, <2>2, DiskFact DEF WriterTypes, hits
<1>7. lock' = w /\ \A v \in Writers \ {w} : Untouched(v)
  BY <1>1, <1>2 DEF Untouched
<1>8. \A s \in Sources : disk[s].active # g /\ (~lost => disk[s].previous # g)
  BY <1>2, <1>3 DEF SavedOnce, Registered
<1>9. \A s \in Sources : disk[s].active \in Gens \cup {Nothing} /\ disk[s].previous \in Gens \cup {Nothing}
  BY DiskFact DEF SourceEntry
<1>10. NamesIn(disk, gen', built')
  <2>1. \A s \in Sources : disk[s].active # Nothing =>
          gen'[disk[s].active] = "complete" /\ built'[disk[s].active] = built[disk[s].active]
    BY <1>1, <1>5, <1>8, <1>9, DiskFact DEF NamesIn
  <2>2. \A s \in Sources : disk[s].previous # Nothing => gen'[disk[s].previous] \notin {"none", "building"}
    BY <1>5, <1>9, DiskFact DEF NamesIn
  <2> QED BY <2>1, <2>2, DiskFact, NamesStay
<1>11. ~lost => \A s \in Sources : disk[s].previous # Nothing => gen'[disk[s].previous] = "complete"
  BY <1>5, <1>8, <1>9, DiskFact
<1>12. NamesIn(mem'[w], gen', built')
  <2>1. mem'[w] = mem[w]
    BY <1>1
  <2> QED BY <1>2, <1>3, <1>5, <2>1, ElsewhereFact
<1>13. SavedOnce(w)'
  BY <1>1, <1>2, <1>4, <1>5 DEF SavedOnce, Ahead
<1>14. Refreshing(w)' /\ Pruning(w)'
  BY <1>1, <1>3, <1>4, <1>5 DEF Refreshing, Pruning, Registered
<1>15. \A h \in Gens : exclusive'[h] # Nothing => exclusive[h] # Nothing
  BY <1>3, <1>5 DEF WorkspaceAssumption
<1> HIDE DEF g
<1> QED BY <1>1, <1>2, <1>4, <1>6, <1>7, <1>10, <1>11, <1>12, <1>13, <1>14, <1>15, WriterStep DEF Held, hits, reading

\* A reader never touches the registry; its lease excludes a prune's.
LEMMA ReaderStep ==
  ASSUME WorkspaceAssumption, WorkspaceInv, NEW r \in Readers, AskFor(r) \/ Read(r)
  PROVE  WorkspaceInv'
<1>1. UNCHANGED <<registryFiles, lock, exclusive, writing, hits>>
  BY DEF AskFor, Read, Acquire, Load, Loaded, leases, reading
<1>2. /\ want \in [Readers -> Gens \cup {Nothing}] /\ cached \in [Readers -> Gens \cup {Nothing}]
      /\ shared \in [Gens -> SUBSET Readers] /\ doing \in [Writers \cup Readers -> Standing]
      /\ disk \in [Sources -> SourceEntry] /\ PinInv
  BY WorkspaceParts DEF WorkspaceInv, WorkspaceTypeOK, Standing
<1>3. /\ doing' \in [Writers \cup Readers -> Standing] /\ doing[r] \notin Held /\ doing'[r] \notin Held
      /\ \A p \in (Writers \cup Readers) \ {r} : doing'[p] = doing[p]
  BY <1>2 DEF AskFor, Read, Acquire, Load, Loaded, MoveTo, Standing, Held, leases, reading
<1>4. /\ want' \in [Readers -> Gens \cup {Nothing}] /\ cached' \in [Readers -> Gens \cup {Nothing}]
      /\ shared' \in [Gens -> SUBSET Readers] /\ PinInv'
  <2>1. CASE AskFor(r)
    <3>1. PICK s \in Sources : disk[s].active # Nothing /\ want' = [want EXCEPT ![r] = disk[s].active]
      BY <2>1, Zenon DEF AskFor
    <3>2. disk[s].active \in Gens
      BY <1>2, <3>1 DEF SourceEntry
    <3>3. want' \in [Readers -> Gens \cup {Nothing}] /\ want'[r] \in Gens /\ \A q \in Readers \ {r} : want'[q] = want[q]
      BY <1>2, <3>1, <3>2
    <3>4. /\ cached' \in [Readers -> Gens \cup {Nothing}] /\ UNCHANGED <<shared, exclusive>>
          /\ doing'[r] \in {"idle", "acquire"}
      <4>1. cached' \in [Readers -> Gens \cup {Nothing}]
        BY <1>2, <2>1 DEF AskFor
      <4> QED BY <1>2, <2>1, <4>1 DEF AskFor, leases, MoveTo
    <3> QED BY <1>2, <1>3, <3>3, <3>4 DEF PinInv
  <2>2. CASE Acquire(r)
    <3>1. want[r] \in Gens /\ UNCHANGED <<want, cached, exclusive>>
      BY <1>2, <2>2 DEF Acquire, PinInv, reading
    <3>2. CASE exclusive[want[r]] = Nothing /\ shared' = [shared EXCEPT ![want[r]] = @ \cup {r}] /\ MoveTo(r, "load")
      <4>1. shared' \in [Gens -> SUBSET Readers]
        BY <1>2, <3>1, <3>2
      <4>2. \A g \in Gens : shared[g] \subseteq shared'[g] /\ (g # want[r] => shared'[g] = shared[g])
        BY <1>2, <3>1, <3>2
      <4>3. r \in shared'[want[r]]
        BY <1>2, <3>1, <3>2
      <4>4. \A g \in Gens : exclusive'[g] # Nothing => shared'[g] = {}
        BY <1>2, <3>1, <3>2, <4>2 DEF PinInv
      <4>5. \A q \in Readers : doing'[q] \in {"acquire", "load", "loaded"} => want'[q] \in Gens
        BY <1>2, <1>3, <3>1 DEF PinInv
      <4>6. \A q \in Readers : doing'[q] \in {"load", "loaded"} => q \in shared'[want'[q]]
        BY <1>2, <1>3, <3>1, <4>2, <4>3 DEF PinInv
      <4> QED BY <1>2, <3>1, <4>1, <4>4, <4>5, <4>6 DEF PinInv
    <3>3. CASE MoveTo(r, "idle") /\ UNCHANGED shared
      BY <1>2, <1>3, <3>1, <3>3 DEF PinInv, MoveTo
    <3> QED BY <2>2, <3>2, <3>3 DEF Acquire
  <2>3. CASE Load(r)
    BY <1>1, <1>2, <1>3, <2>3 DEF Load, PinInv, MoveTo, leases, reading
  <2>4. CASE Loaded(r)
    <3>1. /\ doing[r] = "loaded" /\ doing'[r] = "idle" /\ want' = want /\ exclusive' = exclusive
          /\ shared' = [shared EXCEPT ![want[r]] = @ \ {r}] /\ want[r] \in Gens
      BY <1>2, <2>4 DEF Loaded, MoveTo, PinInv
    <3>2. cached' \in [Readers -> Gens \cup {Nothing}]
      BY <1>2, <2>4, <3>1 DEF Loaded
    <3>3. /\ shared' \in [Gens -> SUBSET Readers]
          /\ \A g \in Gens : shared'[g] \subseteq shared[g] /\ shared[g] \ {r} \subseteq shared'[g]
      BY <1>2, <3>1
    <3>4. \A g \in Gens : exclusive'[g] # Nothing => shared'[g] = {}
      BY <1>2, <3>1, <3>3 DEF PinInv
    <3>5. \A q \in Readers : doing'[q] \in {"acquire", "load", "loaded"} => want'[q] \in Gens
      BY <1>2, <1>3, <3>1 DEF PinInv
    <3>6. \A q \in Readers : doing'[q] \in {"load", "loaded"} => q \in shared'[want'[q]]
      BY <1>2, <1>3, <3>1, <3>3 DEF PinInv
    <3> QED BY <1>2, <3>1, <3>2, <3>3, <3>4, <3>5, <3>6 DEF PinInv
  <2> QED BY <2>1, <2>2, <2>3, <2>4 DEF Read
<1>5. WorkspaceTypeOK'
  BY <1>1, <1>3, <1>4 DEF WorkspaceInv, WorkspaceTypeOK, Standing, registryFiles, writing, hits
<1>6. Names(disk)' /\ PreviousAvailable'
  BY <1>1 DEF WorkspaceInv, Names, PreviousAvailable, registryFiles, hits
<1>7. \A v \in Writers : WriterInv(v)'
  <2> SUFFICES ASSUME NEW v \in Writers PROVE WriterInv(v)'
    OBVIOUS
  <2>1. WriterInv(v) /\ (doing'[v] \in Held <=> doing[v] \in Held) /\ (doing[v] \in Held => doing'[v] = doing[v])
    BY <1>3, WorkspaceParts
  <2>2. CASE lock # v
    BY <1>1, <2>1, <2>2 DEF WriterInv
  <2>3. CASE lock = v
    <3>1. doing'[v] = doing[v] /\ Names(mem[v])' /\ (~lost' => mem'[v] = disk')
      BY <1>1, <2>1, <2>3 DEF WriterInv, Names, registryFiles, writing, hits
    <3>2. SavedOnce(v)'
      BY <1>1, <2>1, <2>3, <3>1 DEF WriterInv, SavedOnce, Ahead, registryFiles, writing
    <3>3. Refreshing(v)'
      BY <1>1, <2>1, <2>3, <3>1 DEF WriterInv, Refreshing, registryFiles, writing
    <3>4. Pruning(v)'
      BY <1>1, <2>1, <2>3, <3>1 DEF WriterInv, Pruning, Registered, registryFiles, writing
    <3> QED BY <1>1, <2>1, <2>3, <3>1, <3>2, <3>3, <3>4 DEF WriterInv
  <2> QED BY <2>2, <2>3
<1>8. RegistryInv' /\ \A v \in Writers : WriterInv(v)'
  BY <1>5, <1>6, <1>7 DEF RegistryInv
<1> QED BY <1>4, <1>8, Zenon DEF WorkspaceInv, RegistryInv, WriterInv, PinInv

LEMMA WorkspaceStart ==
  ASSUME WorkspaceAssumption, WorkspaceInit
  PROVE  WorkspaceInv
<1>1. /\ disk \in [Sources -> SourceEntry]
      /\ \A s \in Sources : /\ disk[s].active = Nothing /\ disk[s].previous = Nothing /\ disk[s].status = "absent"
  <2>1. Unregistered \in SourceEntry
    BY DEF Unregistered, SourceEntry, Statuses, WorkspaceAssumption
  <2> QED BY <2>1 DEF WorkspaceInit, Unregistered
<1>2. WorkspaceTypeOK
  <2>1. [source |-> Nothing, policy |-> 0] \in [source : Sources \cup {Nothing}, policy : 0..MaxPolicies]
    BY DEF WorkspaceAssumption
  <2>2. built \in [Gens -> [source : Sources \cup {Nothing}, policy : 0..MaxPolicies]]
    BY <2>1 DEF WorkspaceInit
  <2>3. mishaps \in 0..MaxMishaps
    BY DEF WorkspaceInit, WorkspaceAssumption
  <2>4. lost \in BOOLEAN
    BY Zenon DEF WorkspaceInit
  <2> QED BY <1>1, <2>2, <2>3, <2>4 DEF WorkspaceInit, WorkspaceTypeOK
<1>3. Names(disk) /\ PreviousAvailable
  BY <1>1 DEF Names, PreviousAvailable
<1>4. \A w \in Writers : lock # w /\ doing[w] \notin Held
  BY DEF WorkspaceInit, WorkspaceAssumption, Held
<1>5. PinInv
  BY DEF WorkspaceInit, PinInv
<1> QED BY <1>2, <1>3, <1>4, <1>5, Zenon DEF WorkspaceInv, PinInv

LEMMA WorkspaceStep ==
  ASSUME WorkspaceAssumption, WorkspaceInv, [WorkspaceNext]_workspaceVars
  PROVE  WorkspaceInv'
<1>1. ASSUME NEW w \in Writers, OpenWorkspace(w) \/ Write(w) \/ WriterDies(w)
      PROVE  WorkspaceInv'
  BY <1>1, OpenStep, TakeLockStep, AddStep, SetSecretReviewsStep, SyncStep, MarkStaleStep, ProduceStep, FillStep,
     ProduceFailsStep, ConcludeStep, TakeStep, RemoveAllStep, LeaveStep, Zenon DEF Write
<1>2. ASSUME NEW r \in Readers, AskFor(r) \/ Read(r)
      PROVE  WorkspaceInv'
  BY <1>2, ReaderStep
<1>3. CASE UNCHANGED workspaceVars
  <2>1. WorkspaceTypeOK'
    BY <1>3 DEF workspaceVars, registryFiles, leases, writing, reading, hits, WorkspaceInv, WorkspaceTypeOK
  <2>2. Names(disk)' /\ PreviousAvailable'
    BY <1>3 DEF workspaceVars, registryFiles, leases, writing, reading, hits, WorkspaceInv, Names, PreviousAvailable
  <2>3. \A w \in Writers : WriterInv(w)'
    BY <1>3, WorkspaceParts DEF workspaceVars, registryFiles, leases, writing, reading, hits, WriterInv, Names, SavedOnce,
       Ahead, Refreshing, Pruning, Registered
  <2>4. PinInv'
    BY <1>3, WorkspaceParts DEF workspaceVars, leases, reading, PinInv
  <2> QED BY <2>1, <2>2, <2>3, <2>4, Zenon DEF WorkspaceInv, WriterInv, PinInv
<1> QED BY <1>1, <1>2, <1>3 DEF WorkspaceNext

\* The registry on disk names no active generation that is not complete and its
\* source's own, no previous one unless a save was lost, and calls current only
\* what was built under the source's policy: for every number of sources,
\* generations, writers and readers, whatever saves fail and whoever dies
\* (internal/workspace Refresh, Prune, save).
THEOREM Generations ==
  ASSUME WorkspaceAssumption
  PROVE  WorkspaceSpec => []GenerationsSound
<1>1. WorkspaceInit => WorkspaceInv
  BY WorkspaceStart
<1>2. WorkspaceInv /\ [WorkspaceNext]_workspaceVars => WorkspaceInv'
  BY WorkspaceStep
<1>3. WorkspaceInv => GenerationsSound
  BY DEF WorkspaceInv, GenerationsSound, ActiveAvailable, CurrentIsHonest, Names
<1> QED BY <1>1, <1>2, <1>3, PTL DEF WorkspaceSpec

\* What a reader has pinned stays complete until it has read it (AcquireActive,
\* LeaseGeneration): the only steps that spoil a generation are of the writer
\* that builds it, or that holds its lease exclusively.
THEOREM Pinned ==
  ASSUME WorkspaceAssumption
  PROVE  WorkspaceSpec => PinnedKept
<1>1. ASSUME WorkspaceInv, [WorkspaceNext]_workspaceVars
      PROVE  Keeps
  <2> SUFFICES ASSUME NEW g \in Gens, gen[g] = "complete", exclusive[g] = Nothing
               PROVE  gen'[g] = "complete"
    <3>1. \A r \in Readers : doing[r] \in {"load", "loaded"} => want[r] \in Gens /\ exclusive[want[r]] = Nothing
      BY <1>1, WorkspaceParts DEF PinInv
    <3> QED BY <3>1 DEF Keeps
  <2>1. gen \in [Gens -> {"none", "building", "complete", "torn", "unowned", "gone"}]
    BY <1>1, DiskFact DEF WriterTypes
  <2>2. ASSUME NEW w \in Writers, Produce(w)
        PROVE  gen'[g] = "complete"
    BY <2>1, <2>2 DEF Produce
  <2>3. ASSUME NEW w \in Writers, Fill(w)
        PROVE  gen'[g] = "complete"
    BY <2>1, <2>3 DEF Fill
  <2>4. ASSUME NEW w \in Writers, ProduceFails(w)
        PROVE  gen'[g] = "complete"
    <3>1. doing[w] = "fill" => gen[new[w]] = "building"
      BY <1>1, <2>4, HolderFact DEF ProduceFails, Held, Refreshing
    <3> QED BY <2>1, <2>4, <3>1 DEF ProduceFails
  <2>5. ASSUME NEW w \in Writers, RemoveAll(w)
        PROVE  gen'[g] = "complete"
    <3>1. exclusive[new[w]] = w /\ w # Nothing
      BY <1>1, <2>5, HolderFact DEF RemoveAll, Held, Pruning, WorkspaceAssumption
    <3> QED BY <2>1, <2>5, <3>1 DEF RemoveAll
  <2>6. ASSUME NEW w \in Writers,
               \/ OpenWorkspace(w) \/ TakeLock(w) \/ Add(w) \/ SetSecretReviews(w) \/ Sync(w) \/ MarkStale(w)
               \/ Conclude(w) \/ Refreshed(w) \/ ListGens(w) \/ Take(w) \/ Pruned(w) \/ CloseWorkspace(w)
               \/ WriterDies(w)
        PROVE  gen' = gen
    BY <2>6 DEF OpenWorkspace, TakeLock, Add, SetSecretReviews, Sync, MarkStale, Conclude, Refreshed, ListGens, Take,
       Pruned, CloseWorkspace, WriterDies, registryFiles
  <2>7. ASSUME NEW r \in Readers, AskFor(r) \/ Read(r)
        PROVE  gen' = gen
    BY <2>7 DEF AskFor, Read, Acquire, Load, Loaded, registryFiles
  <2>8. CASE UNCHANGED workspaceVars
    BY <2>8 DEF workspaceVars, registryFiles
  <2> QED BY <1>1, <2>2, <2>3, <2>4, <2>5, <2>6, <2>7, <2>8, Zenon DEF WorkspaceNext, Write
<1>2. WorkspaceInit => WorkspaceInv
  BY WorkspaceStart
<1>3. WorkspaceInv /\ [WorkspaceNext]_workspaceVars => WorkspaceInv'
  BY WorkspaceStep
<1>4. WorkspaceInv /\ [WorkspaceNext]_workspaceVars => Keeps
  BY <1>1
<1>5. WorkspaceSpec => [][Keeps]_workspaceVars
  BY <1>2, <1>3, <1>4, PTL DEF WorkspaceSpec
<1> QED BY <1>5 DEF PinnedKept

(***************************************************************************)
(* The providers that run a model.  A call is where calls of its provider  *)
(* can be, and from there it follows who holds the mutex, the gate or the  *)
(* cancellation, what was allowed, what its process may have read, and how *)
(* much of its batch it has.                                               *)
(***************************************************************************)
Stations == [x \in {"cli", "embedder", "http"} |->
  CASE x = "cli" -> {"new", "input", "before", "bound", "run", "after", "again", "leaving", "returned"}
    [] x = "embedder" -> Places \ {"read"}
    [] OTHER -> {"new", "run", "read", "leaving", "returned"}]

\* A call has an outcome exactly when it is leaving or has returned.
Placed == \A c \in Calls :
  /\ call[c] \in Stations[provider]
  /\ fate[c] = "none" <=> call[c] \notin {"leaving", "returned"}

\* Beyond its entrance a call holds what keeps the others out.
Turns == \A c \in Calls :
  /\ provider = "cli" /\ call[c] \notin {"new", "returned"} => turn = c /\ Allowed(need[c])
  /\ provider = "embedder" /\ call[c] \in {"input", "before", "bound", "run", "vector", "after", "again"} => turn = c
  /\ provider = "embedder" /\ call[c] \notin {"new", "returned"} => c \in readers
  /\ provider = "http" /\ call[c] \notin {"new", "returned"} => turn = c

\* A closed provider has nobody inside, or has cancelled who is.
Shut == closing = "closed" =>
  /\ provider = "cli" => turn = NoCall
  /\ provider = "embedder" => readers = {}
  /\ provider = "http" => \A c \in Calls : turn = c => expired[c]

\* What read a rewritten file can still be told, by the second check.
Bound == provider # "http" => \A c \in Calls :
  /\ tainted[c] => fate[c] # "ok" /\ \E a \in Artifacts : ~written[a]
  /\ tainted[c] /\ call[c] = "again" => ~written["model"]

\* The vectors of a batch, and the text that waits for its own.
Vectors == provider = "embedder" => \A c \in Calls : fate[c] # "error" =>
  /\ call[c] \in {"new", "gate", "before", "bound", "input", "run"} => Len(made[c]) < Batch
  /\ call[c] = "vector" => made[c] # << >>
  /\ fate[c] = "ok" \/ call[c] \in {"after", "again"} => Len(made[c]) = Batch
  /\ \A i \in 1..Len(made[c]) : made[c][i] = dims \/ (call[c] = "vector" /\ i = Len(made[c]))
  /\ c \in inputs => call[c] \in {"run", "vector"}

ProviderInv == ProviderTypeOK /\ Placed /\ Turns /\ Shut /\ Bound /\ Vectors
\* One step of a call, of the files or of Close at a time.
LEMMA EnterCliStep ==
  ASSUME ProviderAssumption, ProviderInv, NEW c \in Calls, EnterCli(c)
  PROVE  ProviderInv'
<1> USE DEF ProviderInv
<1>1. ProviderTypeOK'
  BY DEF EnterCli, RefuseCall, CallAt, ProviderTypeOK, Places
<1>2. Placed'
  BY DEF EnterCli, RefuseCall, CallAt, ProviderTypeOK, Placed, Stations, Places
<1>3. Turns'
  BY DEF EnterCli, RefuseCall, CallAt, ProviderTypeOK, Placed, Stations, Turns, Shut, Allowed, ProviderAssumption
<1>4. Shut'
  BY DEF EnterCli, RefuseCall, CallAt, ProviderTypeOK, Shut, Turns, ProviderAssumption
<1>5. Bound'
  BY DEF EnterCli, RefuseCall, CallAt, ProviderTypeOK, Placed, Stations, Bound
<1>6. Vectors'
  BY DEF EnterCli, RefuseCall, CallAt, ProviderTypeOK, Placed, Stations, Vectors
<1> QED  BY <1>1, <1>2, <1>3, <1>4, <1>5, <1>6

LEMMA EnterEmbedderStep ==
  ASSUME ProviderAssumption, ProviderInv, NEW c \in Calls, EnterEmbedder(c)
  PROVE  ProviderInv'
<1> USE DEF ProviderInv
<1>1. ProviderTypeOK'
  <2>1. CASE closing = "closed"
    BY <2>1 DEF EnterEmbedder, RefuseCall, CallAt, ProviderTypeOK, Places
  <2>2. CASE closing # "closed"
    BY <2>2 DEF EnterEmbedder, RefuseCall, CallAt, ProviderTypeOK, Places
  <2> QED  BY <2>1, <2>2
<1>2. Placed'
  <2>1. CASE closing = "closed"
    BY <2>1 DEF EnterEmbedder, RefuseCall, CallAt, ProviderTypeOK, Placed, Stations, Places
  <2>2. CASE closing # "closed"
    BY <2>2 DEF EnterEmbedder, RefuseCall, CallAt, ProviderTypeOK, Placed, Stations, Places
  <2> QED  BY <2>1, <2>2
<1>3. Turns'
  <2>1. CASE closing = "closed"
    BY <2>1 DEF EnterEmbedder, RefuseCall, CallAt, ProviderTypeOK, Placed, Stations, Turns
  <2>2. CASE closing # "closed"
    BY <2>2 DEF EnterEmbedder, CallAt, ProviderTypeOK, Placed, Stations, Turns
  <2> QED  BY <2>1, <2>2
<1>4. Shut'
  BY DEF EnterEmbedder, RefuseCall, CallAt, ProviderTypeOK, Shut, Turns, ProviderAssumption
<1>5. Bound'
  BY DEF EnterEmbedder, RefuseCall, CallAt, ProviderTypeOK, Placed, Stations, Bound
<1>6. Vectors'
  <2>1. CASE closing = "closed"
    BY <2>1 DEF EnterEmbedder, RefuseCall, CallAt, ProviderTypeOK, Placed, Stations, Vectors
  <2>2. CASE closing # "closed"
    BY <2>2 DEF EnterEmbedder, CallAt, ProviderTypeOK, Placed, Stations, Vectors
  <2> QED  BY <2>1, <2>2
<1> QED  BY <1>1, <1>2, <1>3, <1>4, <1>5, <1>6

LEMMA EnterHttpStep ==
  ASSUME ProviderAssumption, ProviderInv, NEW c \in Calls, EnterHttp(c)
  PROVE  ProviderInv'
<1> USE DEF ProviderInv
<1>1. ProviderTypeOK'
  BY DEF EnterHttp, RefuseCall, CallAt, Free, ProviderTypeOK, Places
<1>2. Placed'
  BY DEF EnterHttp, RefuseCall, CallAt, Free, ProviderTypeOK, Placed, Stations, Places
<1>3. Turns'
  BY DEF EnterHttp, RefuseCall, CallAt, Free, ProviderTypeOK, Placed, Stations, Turns, Shut, Allowed, ProviderAssumption
<1>4. Shut'
  BY DEF EnterHttp, RefuseCall, CallAt, Free, ProviderTypeOK, Shut, Turns, ProviderAssumption
<1>5. Bound'
  BY DEF EnterHttp, RefuseCall, CallAt, Free, ProviderTypeOK, Placed, Stations, Bound
<1>6. Vectors'
  BY DEF EnterHttp, RefuseCall, CallAt, Free, ProviderTypeOK, Placed, Stations, Vectors
<1> QED  BY <1>1, <1>2, <1>3, <1>4, <1>5, <1>6

LEMMA GateStep ==
  ASSUME ProviderAssumption, ProviderInv, NEW c \in Calls, Gate(c)
  PROVE  ProviderInv'
<1> USE DEF ProviderInv
<1>1. ProviderTypeOK'
  BY DEF Gate, CallAt, Leave, ProviderTypeOK, Places
<1>2. Placed'
  BY DEF Gate, CallAt, Leave, ProviderTypeOK, Placed, Stations, Places
<1>3. Turns'
  BY DEF Gate, CallAt, Leave, ProviderTypeOK, Placed, Stations, Turns, Shut, Allowed, ProviderAssumption
<1>4. Shut'
  BY DEF Gate, CallAt, Leave, ProviderTypeOK, Shut, Turns, ProviderAssumption
<1>5. Bound'
  BY DEF Gate, CallAt, Leave, ProviderTypeOK, Placed, Stations, Bound
<1>6. Vectors'
  BY DEF Gate, CallAt, Leave, ProviderTypeOK, Placed, Stations, Vectors
<1> QED  BY <1>1, <1>2, <1>3, <1>4, <1>5, <1>6

LEMMA WriteInputStep ==
  ASSUME ProviderAssumption, ProviderInv, NEW c \in Calls, WriteInput(c)
  PROVE  ProviderInv'
<1> USE DEF ProviderInv
<1>1. ProviderTypeOK'
  BY DEF WriteInput, CallAt, Leave, ProviderTypeOK, Places
<1>2. Placed'
  BY DEF WriteInput, CallAt, Leave, ProviderTypeOK, Placed, Stations, Places
<1>3. Turns'
  BY DEF WriteInput, CallAt, Leave, ProviderTypeOK, Placed, Stations, Turns, Shut, Allowed, ProviderAssumption
<1>4. Shut'
  BY DEF WriteInput, CallAt, Leave, ProviderTypeOK, Shut, Turns, ProviderAssumption
<1>5. Bound'
  BY DEF WriteInput, CallAt, Leave, ProviderTypeOK, Placed, Stations, Bound
<1>6. Vectors'
  BY DEF WriteInput, CallAt, Leave, ProviderTypeOK, Placed, Stations, Vectors
<1> QED  BY <1>1, <1>2, <1>3, <1>4, <1>5, <1>6

LEMMA VerifyBeforeStep ==
  ASSUME ProviderAssumption, ProviderInv, NEW c \in Calls, VerifyBefore(c)
  PROVE  ProviderInv'
<1> USE DEF ProviderInv
<1>1. ProviderTypeOK'
  BY DEF VerifyBefore, CallAt, Leave, ProviderTypeOK, Places
<1>2. Placed'
  BY DEF VerifyBefore, CallAt, Leave, ProviderTypeOK, Placed, Stations, Places
<1>3. Turns'
  BY DEF VerifyBefore, CallAt, Leave, ProviderTypeOK, Placed, Stations, Turns, Shut, Allowed, ProviderAssumption
<1>4. Shut'
  BY DEF VerifyBefore, CallAt, Leave, ProviderTypeOK, Shut, Turns, ProviderAssumption
<1>5. Bound'
  BY DEF VerifyBefore, CallAt, Leave, ProviderTypeOK, Placed, Stations, Bound
<1>6. Vectors'
  BY DEF VerifyBefore, CallAt, Leave, ProviderTypeOK, Placed, Stations, Vectors
<1> QED  BY <1>1, <1>2, <1>3, <1>4, <1>5, <1>6

LEMMA LoadFilesStep ==
  ASSUME ProviderAssumption, ProviderInv, NEW c \in Calls, LoadFiles(c)
  PROVE  ProviderInv'
<1> USE DEF ProviderInv
<1>1. ProviderTypeOK'
  BY DEF LoadFiles, ProviderTypeOK, Places
<1>2. Placed'
  BY DEF LoadFiles, ProviderTypeOK, Placed, Stations, Places
<1>3. Turns'
  BY DEF LoadFiles, ProviderTypeOK, Placed, Stations, Turns, Shut, Allowed, ProviderAssumption
<1>4. Shut'
  BY DEF LoadFiles, ProviderTypeOK, Shut, Turns, ProviderAssumption
<1>5. Bound'
  BY DEF LoadFiles, ProviderTypeOK, Placed, Stations, Bound
<1>6. Vectors'
  BY DEF LoadFiles, ProviderTypeOK, Placed, Stations, Vectors
<1> QED  BY <1>1, <1>2, <1>3, <1>4, <1>5, <1>6

LEMMA FailsStep ==
  ASSUME ProviderAssumption, ProviderInv, NEW c \in Calls, Fails(c)
  PROVE  ProviderInv'
<1> USE DEF ProviderInv
<1>1. ProviderTypeOK'
  BY DEF Fails, CallAt, Leave, ProviderTypeOK, Places
<1>2. Placed'
  BY DEF Fails, CallAt, Leave, ProviderTypeOK, Placed, Stations, Places
<1>3. Turns'
  BY DEF Fails, CallAt, Leave, ProviderTypeOK, Placed, Stations, Turns, Shut, Allowed, ProviderAssumption
<1>4. Shut'
  BY DEF Fails, CallAt, Leave, ProviderTypeOK, Shut, Turns, ProviderAssumption
<1>5. Bound'
  BY DEF Fails, CallAt, Leave, ProviderTypeOK, Placed, Stations, Bound
<1>6. Vectors'
  BY DEF Fails, CallAt, Leave, ProviderTypeOK, Placed, Stations, Vectors
<1> QED  BY <1>1, <1>2, <1>3, <1>4, <1>5, <1>6

LEMMA GeneratedStep ==
  ASSUME ProviderAssumption, ProviderInv, NEW c \in Calls, Generated(c)
  PROVE  ProviderInv'
<1> USE DEF ProviderInv
<1>1. ProviderTypeOK'
  BY DEF Generated, CallAt, ProviderTypeOK, Places
<1>2. Placed'
  BY DEF Generated, CallAt, ProviderTypeOK, Placed, Stations, Places
<1>3. Turns'
  BY DEF Generated, CallAt, ProviderTypeOK, Placed, Stations, Turns, Shut, Allowed, ProviderAssumption
<1>4. Shut'
  BY DEF Generated, CallAt, ProviderTypeOK, Shut, Turns, ProviderAssumption
<1>5. Bound'
  BY DEF Generated, CallAt, ProviderTypeOK, Placed, Stations, Bound
<1>6. Vectors'
  BY DEF Generated, CallAt, ProviderTypeOK, Placed, Stations, Vectors
<1> QED  BY <1>1, <1>2, <1>3, <1>4, <1>5, <1>6

LEMMA EmbeddedStep ==
  ASSUME ProviderAssumption, ProviderInv, NEW c \in Calls, NEW d \in Dimensions, Embedded(c, d)
  PROVE  ProviderInv'
<1> USE DEF ProviderInv
<1>1. ProviderTypeOK'
  <2>1. made[c] \in Seq(Dimensions) /\ Len(made[c]) < Batch
    BY DEF Embedded, ProviderTypeOK, Placed, Vectors
  <2>2. /\ Append(made[c], d) \in Seq(Dimensions) /\ Len(Append(made[c], d)) <= Batch
    BY <2>1 DEF ProviderAssumption
  <2> QED  BY <2>2 DEF Embedded, CallAt, ProviderTypeOK, Places
<1>2. Placed'
  BY DEF Embedded, CallAt, ProviderTypeOK, Placed, Stations, Places
<1>3. Turns'
  BY DEF Embedded, CallAt, ProviderTypeOK, Placed, Stations, Turns, Shut, Allowed, ProviderAssumption
<1>4. Shut'
  BY DEF Embedded, CallAt, ProviderTypeOK, Shut, Turns, ProviderAssumption
<1>5. Bound'
  BY DEF Embedded, CallAt, ProviderTypeOK, Placed, Stations, Bound
<1>6. Vectors'
  <2>1. made[c] \in Seq(Dimensions) /\ made'[c] = Append(made[c], d) /\ call'[c] = "vector" /\ c \in Calls
    BY DEF Embedded, CallAt, ProviderTypeOK
  <2>2. Len(made'[c]) = Len(made[c]) + 1 /\ Len(made[c]) \in Nat /\ \A i \in 1..Len(made[c]) : made'[c][i] = made[c][i]
    BY <2>1
  <2>3. \A b \in Calls \ {c} : made'[b] = made[b] /\ call'[b] = call[b]
    BY DEF Embedded, CallAt, ProviderTypeOK
  <2>4. fate[c] = "none" /\ call[c] = "run" /\ fate' = fate /\ dims' = dims /\ inputs' = inputs
    BY DEF Embedded, Placed
  <2> SUFFICES ASSUME provider = "embedder", NEW b \in Calls, fate[b] # "error"
               PROVE  /\ call'[b] \in {"new", "gate", "before", "bound", "input", "run"} => Len(made'[b]) < Batch
                      /\ call'[b] = "vector" => made'[b] # << >>
                      /\ fate[b] = "ok" \/ call'[b] \in {"after", "again"} => Len(made'[b]) = Batch
                      /\ \A i \in 1..Len(made'[b]) : made'[b][i] = dims \/ (call'[b] = "vector" /\ i = Len(made'[b]))
                      /\ b \in inputs => call'[b] \in {"run", "vector"}
    BY <2>4 DEF Embedded, Vectors
  <2>5. CASE b = c
    <3>1. \A i \in 1..Len(made[c]) : made[c][i] = dims
      BY <2>4 DEF Vectors
    <3> QED  BY <2>1, <2>2, <2>4, <2>5, <3>1
  <2>6. CASE b # c
    BY <2>3, <2>6 DEF Vectors
  <2> QED  BY <2>5, <2>6
<1> QED  BY <1>1, <1>2, <1>3, <1>4, <1>5, <1>6

LEMMA VectorStep ==
  ASSUME ProviderAssumption, ProviderInv, NEW c \in Calls, Vector(c)
  PROVE  ProviderInv'
<1> USE DEF ProviderInv
<1>0. /\ provider = "embedder" /\ turn = c /\ made[c] \in Seq(Dimensions)
      /\ Len(made[c]) \in 1..Batch /\ made[c][Len(made[c])] \in Dimensions
      /\ \A i \in 1..Len(made[c]) : made[c][i] \in Dimensions \ {0}
  <2>1. provider = "embedder" /\ turn = c
    BY DEF Vector, ProviderTypeOK, Placed, Stations, Turns
  <2>2. made[c] \in Seq(Dimensions) /\ made[c] # << >> /\ Len(made[c]) <= Batch
    BY <2>1 DEF Vector, ProviderTypeOK, Placed, Vectors
  <2>3. Len(made[c]) \in Nat \ {0} /\ \A i \in 1..Len(made[c]) : made[c][i] \in Dimensions
    BY <2>2
  <2> QED  BY <2>1, <2>2, <2>3 DEF ProviderAssumption
<1>1. ProviderTypeOK'
  BY <1>0 DEF Vector, CallAt, Leave, ProviderTypeOK, Places
<1>2. Placed'
  <2>1. call[c] = "vector" /\ provider = "embedder" /\ provider' = provider /\ fate[c] = "none"
    BY <1>0 DEF Vector, Placed
  <2>2. CASE fate' = fate /\ call' \in {[call EXCEPT ![c] = "after"], [call EXCEPT ![c] = "input"]}
    BY <2>1, <2>2 DEF ProviderTypeOK, Placed, Stations, Places
  <2>3. CASE Leave(c, "error")
    BY <2>1, <2>3 DEF CallAt, Leave, ProviderTypeOK, Placed, Stations, Places
  <2> QED  BY <2>2, <2>3 DEF Vector, CallAt
<1>3. Turns'
  BY DEF Vector, CallAt, Leave, ProviderTypeOK, Placed, Stations, Turns, Shut, Allowed, ProviderAssumption
<1>4. Shut'
  BY DEF Vector, CallAt, Leave, ProviderTypeOK, Shut, Turns, ProviderAssumption
<1>5. Bound'
  BY DEF Vector, CallAt, Leave, ProviderTypeOK, Placed, Stations, Bound
<1>6. Vectors'
  <2> DEFINE d == made[c][Len(made[c])]
  <2> SUFFICES ASSUME NEW b \in Calls, fate'[b] # "error"
               PROVE  /\ call'[b] \in {"new", "gate", "before", "bound", "input", "run"} => Len(made[b]) < Batch
                      /\ call'[b] = "vector" => made[b] # << >>
                      /\ fate'[b] = "ok" \/ call'[b] \in {"after", "again"} => Len(made[b]) = Batch
                      /\ \A i \in 1..Len(made[b]) : made[b][i] = dims' \/ (call'[b] = "vector" /\ i = Len(made[b]))
                      /\ b \in inputs' => call'[b] \in {"run", "vector"}
    BY DEF Vector, Vectors
  <2>1. fate[b] # "error" /\ fate[c] = "none"
    BY DEF Vector, Leave, ProviderTypeOK, Placed
  <2>2. CASE b = c
    <3>1. /\ inputs' = inputs \ {c} /\ dims \in {0, d} /\ dims' = d /\ fate' = fate
          /\ call' = [call EXCEPT ![c] = IF Len(made[c]) = Batch THEN "after" ELSE "input"]
      BY <2>1, <2>2 DEF Vector, CallAt, Leave, ProviderTypeOK
    <3>2. \A i \in 1..Len(made[c]) : made[c][i] = d
      BY <1>0, <2>1, <3>1 DEF Vector, Vectors
    <3>3. call'[c] = IF Len(made[c]) = Batch THEN "after" ELSE "input"
      BY <3>1 DEF ProviderTypeOK
    <3>4. c \notin inputs' /\ fate'[c] = "none" /\ \A i \in 1..Len(made[c]) : made[c][i] = dims'
      BY <2>1, <3>1, <3>2
    <3> HIDE DEF d
    <3>5. CASE Len(made[c]) = Batch
      BY <1>0, <2>2, <3>3, <3>4, <3>5
    <3>6. CASE Len(made[c]) # Batch
      BY <1>0, <2>2, <3>3, <3>4, <3>6 DEF ProviderAssumption
    <3> QED  BY <3>5, <3>6
  <2>3. CASE b # c
    <3>1. call'[b] = call[b] /\ (b \in inputs' => b \in inputs) /\ fate'[b] = fate[b]
      BY <2>3 DEF Vector, CallAt, Leave, ProviderTypeOK
    <3>2. call[b] # "vector"
      BY <1>0, <2>3 DEF Turns
    <3>3. \A i \in 1..Len(made[b]) : made[b][i] = dims /\ made[b][i] # 0
      BY <1>0, <2>1, <3>2 DEF Vectors, ProviderTypeOK, ProviderAssumption
    <3>4. dims # 0 => dims' = dims
      BY <2>1 DEF Vector, CallAt, Leave
    <3>5. \A i \in 1..Len(made[b]) : made[b][i] = dims'
      BY <3>3, <3>4
    <3> QED  BY <1>0, <2>1, <3>1, <3>2, <3>5 DEF Vectors
  <2> QED  BY <2>2, <2>3
<1> QED  BY <1>1, <1>2, <1>3, <1>4, <1>5, <1>6

LEMMA VerifyAfterStep ==
  ASSUME ProviderAssumption, ProviderInv, NEW c \in Calls, VerifyAfter(c)
  PROVE  ProviderInv'
<1> USE DEF ProviderInv
<1>1. ProviderTypeOK'
  BY DEF VerifyAfter, Verified, CallAt, Leave, ProviderTypeOK, Places
<1>2. Placed'
  BY DEF VerifyAfter, Verified, CallAt, Leave, ProviderTypeOK, Placed, Stations, Places
<1>3. Turns'
  BY DEF VerifyAfter, Verified, CallAt, Leave, ProviderTypeOK, Placed, Stations, Turns, Shut, Allowed, ProviderAssumption
<1>4. Shut'
  BY DEF VerifyAfter, Verified, CallAt, Leave, ProviderTypeOK, Shut, Turns, ProviderAssumption
<1>5. Bound'
  BY DEF VerifyAfter, Verified, CallAt, Leave, ProviderTypeOK, Placed, Stations, Bound, Artifacts
<1>6. Vectors'
  <2>1. CASE call' = [call EXCEPT ![c] = "again"] /\ call[c] = "after" /\ fate' = fate
    BY <2>1 DEF VerifyAfter, ProviderTypeOK, Placed, Stations, Vectors
  <2>2. CASE call' = [call EXCEPT ![c] = "leaving"] /\ call[c] = "again" /\ fate' = [fate EXCEPT ![c] = "ok"]
    BY <2>2 DEF VerifyAfter, ProviderTypeOK, Placed, Stations, Vectors
  <2>3. CASE call' = [call EXCEPT ![c] = "leaving"] /\ fate' = [fate EXCEPT ![c] = "error"]
    BY <2>3 DEF VerifyAfter, ProviderTypeOK, Placed, Stations, Vectors
  <2> QED BY <2>1, <2>2, <2>3 DEF VerifyAfter, CallAt, Leave
<1> QED  BY <1>1, <1>2, <1>3, <1>4, <1>5, <1>6

LEMMA ReadBodyStep ==
  ASSUME ProviderAssumption, ProviderInv, NEW c \in Calls, ReadBody(c)
  PROVE  ProviderInv'
<1> USE DEF ProviderInv
<1>1. ProviderTypeOK'
  BY DEF ReadBody, CallAt, ProviderTypeOK, Places
<1>2. Placed'
  BY DEF ReadBody, CallAt, ProviderTypeOK, Placed, Stations, Places
<1>3. Turns'
  BY DEF ReadBody, CallAt, ProviderTypeOK, Placed, Stations, Turns, Shut, Allowed, ProviderAssumption
<1>4. Shut'
  BY DEF ReadBody, CallAt, ProviderTypeOK, Shut, Turns, ProviderAssumption
<1>5. Bound'
  BY DEF ReadBody, CallAt, ProviderTypeOK, Placed, Stations, Bound
<1>6. Vectors'
  BY DEF ReadBody, CallAt, ProviderTypeOK, Placed, Stations, Vectors
<1> QED  BY <1>1, <1>2, <1>3, <1>4, <1>5, <1>6

LEMMA DecodeStep ==
  ASSUME ProviderAssumption, ProviderInv, NEW c \in Calls, Decode(c)
  PROVE  ProviderInv'
<1> USE DEF ProviderInv
<1>1. ProviderTypeOK'
  BY DEF Decode, CallAt, Leave, ProviderTypeOK, Places
<1>2. Placed'
  BY DEF Decode, CallAt, Leave, ProviderTypeOK, Placed, Stations, Places
<1>3. Turns'
  BY DEF Decode, CallAt, Leave, ProviderTypeOK, Placed, Stations, Turns, Shut, Allowed, ProviderAssumption
<1>4. Shut'
  BY DEF Decode, CallAt, Leave, ProviderTypeOK, Shut, Turns, ProviderAssumption
<1>5. Bound'
  BY DEF Decode, CallAt, Leave, ProviderTypeOK, Placed, Stations, Bound
<1>6. Vectors'
  BY DEF Decode, CallAt, Leave, ProviderTypeOK, Placed, Stations, Vectors
<1> QED  BY <1>1, <1>2, <1>3, <1>4, <1>5, <1>6

LEMMA ReturnCallStep ==
  ASSUME ProviderAssumption, ProviderInv, NEW c \in Calls, ReturnCall(c)
  PROVE  ProviderInv'
<1> USE DEF ProviderInv
<1>1. ProviderTypeOK'
  BY DEF ReturnCall, CallAt, ProviderTypeOK, Places
<1>2. Placed'
  BY DEF ReturnCall, CallAt, ProviderTypeOK, Placed, Stations, Places
<1>3. Turns'
  BY DEF ReturnCall, CallAt, ProviderTypeOK, Placed, Stations, Turns, Shut, Allowed, ProviderAssumption
<1>4. Shut'
  BY DEF ReturnCall, CallAt, ProviderTypeOK, Shut, Turns, ProviderAssumption
<1>5. Bound'
  BY DEF ReturnCall, CallAt, ProviderTypeOK, Placed, Stations, Bound
<1>6. Vectors'
  BY DEF ReturnCall, CallAt, ProviderTypeOK, Placed, Stations, Vectors
<1> QED  BY <1>1, <1>2, <1>3, <1>4, <1>5, <1>6

LEMMA ExpireStep ==
  ASSUME ProviderAssumption, ProviderInv, NEW c \in Calls, Expire(c)
  PROVE  ProviderInv'
<1> USE DEF ProviderInv
<1>1. ProviderTypeOK'
  BY DEF Expire, ProviderTypeOK, Places
<1>2. Placed'
  BY DEF Expire, ProviderTypeOK, Placed, Stations, Places
<1>3. Turns'
  BY DEF Expire, ProviderTypeOK, Placed, Stations, Turns, Shut, Allowed, ProviderAssumption
<1>4. Shut'
  BY DEF Expire, ProviderTypeOK, Shut, Turns, ProviderAssumption
<1>5. Bound'
  BY DEF Expire, ProviderTypeOK, Placed, Stations, Bound
<1>6. Vectors'
  BY DEF Expire, ProviderTypeOK, Placed, Stations, Vectors
<1> QED  BY <1>1, <1>2, <1>3, <1>4, <1>5, <1>6

LEMMA AlterStep ==
  ASSUME ProviderAssumption, ProviderInv, NEW a \in Artifacts, Alter(a)
  PROVE  ProviderInv'
<1> USE DEF ProviderInv
<1>1. ProviderTypeOK'
  <2>1. altered' \in 0..MaxAlterations  BY DEF Alter, ProviderTypeOK, ProviderAssumption
  <2>2. written' \in [Artifacts -> BOOLEAN] /\ named' \in [Artifacts -> BOOLEAN]
    BY Zenon DEF Alter, ProviderTypeOK
  <2> QED  BY <2>1, <2>2 DEF Alter, ProviderTypeOK
<1>2. Placed'
  BY DEF Alter, ProviderTypeOK, Placed, Stations, Places
<1>3. Turns'
  BY DEF Alter, ProviderTypeOK, Placed, Stations, Turns, Shut, Allowed, ProviderAssumption
<1>4. Shut'
  BY DEF Alter, ProviderTypeOK, Shut, Turns, ProviderAssumption
<1>5. Bound'
  BY DEF Alter, ProviderTypeOK, Placed, Stations, Bound, Artifacts
<1>6. Vectors'
  BY DEF Alter, ProviderTypeOK, Placed, Stations, Vectors
<1> QED  BY <1>1, <1>2, <1>3, <1>4, <1>5, <1>6

LEMMA CloseCliStep ==
  ASSUME ProviderAssumption, ProviderInv, CloseCli
  PROVE  ProviderInv'
<1> USE DEF ProviderInv
<1>1. ProviderTypeOK'
  BY DEF CloseCli, ProviderTypeOK, Places
<1>2. Placed'
  BY DEF CloseCli, ProviderTypeOK, Placed, Stations, Places
<1>3. Turns'
  BY DEF CloseCli, ProviderTypeOK, Placed, Stations, Turns, Shut, Allowed, ProviderAssumption
<1>4. Shut'
  BY DEF CloseCli, ProviderTypeOK, Shut, Turns, ProviderAssumption
<1>5. Bound'
  BY DEF CloseCli, ProviderTypeOK, Placed, Stations, Bound
<1>6. Vectors'
  BY DEF CloseCli, ProviderTypeOK, Placed, Stations, Vectors
<1> QED  BY <1>1, <1>2, <1>3, <1>4, <1>5, <1>6

LEMMA CloseEmbedderStep ==
  ASSUME ProviderAssumption, ProviderInv, CloseEmbedder
  PROVE  ProviderInv'
<1> USE DEF ProviderInv
<1>1. ProviderTypeOK'
  BY DEF CloseEmbedder, ProviderTypeOK, Places
<1>2. Placed'
  BY DEF CloseEmbedder, ProviderTypeOK, Placed, Stations, Places
<1>3. Turns'
  BY DEF CloseEmbedder, ProviderTypeOK, Placed, Stations, Turns, Shut, Allowed, ProviderAssumption
<1>4. Shut'
  BY DEF CloseEmbedder, ProviderTypeOK, Shut, Turns, ProviderAssumption
<1>5. Bound'
  BY DEF CloseEmbedder, ProviderTypeOK, Placed, Stations, Bound
<1>6. Vectors'
  BY DEF CloseEmbedder, ProviderTypeOK, Placed, Stations, Vectors
<1> QED  BY <1>1, <1>2, <1>3, <1>4, <1>5, <1>6

LEMMA CloseHttpStep ==
  ASSUME ProviderAssumption, ProviderInv, CloseHttp
  PROVE  ProviderInv'
<1> USE DEF ProviderInv
<1>1. ProviderTypeOK'
  BY DEF CloseHttp, ProviderTypeOK, Places
<1>2. Placed'
  BY DEF CloseHttp, ProviderTypeOK, Placed, Stations, Places
<1>3. Turns'
  BY DEF CloseHttp, ProviderTypeOK, Placed, Stations, Turns, Shut, Allowed, ProviderAssumption
<1>4. Shut'
  BY DEF CloseHttp, ProviderTypeOK, Shut, Turns, ProviderAssumption
<1>5. Bound'
  BY DEF CloseHttp, ProviderTypeOK, Placed, Stations, Bound
<1>6. Vectors'
  BY DEF CloseHttp, ProviderTypeOK, Placed, Stations, Vectors
<1> QED  BY <1>1, <1>2, <1>3, <1>4, <1>5, <1>6

LEMMA ProviderStep ==
  ASSUME ProviderAssumption, ProviderInv, [ProviderNext]_providerVars
  PROVE  ProviderInv'
<1>1. CASE UNCHANGED providerVars
  <2> USE <1>1 DEF providerVars, ProviderInv
  <2>1. (ProviderTypeOK /\ Placed /\ Shut)'  BY DEF ProviderTypeOK, Placed, Shut
  <2>2. (Turns /\ Bound /\ Vectors)'  BY DEF Turns, Allowed, Bound, Vectors
  <2> QED  BY <2>1, <2>2
<1>2. ASSUME NEW c \in Calls,
             \/ EnterCli(c) \/ EnterEmbedder(c) \/ EnterHttp(c) \/ Gate(c) \/ WriteInput(c) \/ VerifyBefore(c)
             \/ LoadFiles(c) \/ Fails(c)
      PROVE  ProviderInv'
  BY <1>2, EnterCliStep, EnterEmbedderStep, EnterHttpStep, GateStep, WriteInputStep, VerifyBeforeStep, LoadFilesStep, FailsStep
<1>3. ASSUME NEW c \in Calls,
             \/ Generated(c) \/ (\E d \in Dimensions : Embedded(c, d)) \/ Vector(c) \/ VerifyAfter(c)
             \/ ReadBody(c) \/ Decode(c) \/ ReturnCall(c) \/ Expire(c)
      PROVE  ProviderInv'
  BY <1>3, GeneratedStep, EmbeddedStep, VectorStep, VerifyAfterStep, ReadBodyStep, DecodeStep, ReturnCallStep, ExpireStep
<1>4. ASSUME NEW a \in Artifacts, Alter(a)  PROVE  ProviderInv'
  BY <1>4, AlterStep
<1>5. CASE CloseCli \/ CloseEmbedder \/ CloseHttp
  BY <1>5, CloseCliStep, CloseEmbedderStep, CloseHttpStep
<1> QED  BY <1>1, <1>2, <1>3, <1>4, <1>5 DEF ProviderNext

-----------------------------------------------------------------------------
\* saturatingMultiply and saturatingSum: below the largest integer they are exact.
LEMMA SaturatingExact ==
  ASSUME Top \in Nat \ {0}, NEW x \in 0..Top, NEW y \in 0..Top
  PROVE  /\ SaturatingMultiply(x, y) \in 0..Top
         /\ SaturatingMultiply(x, y) # Top => SaturatingMultiply(x, y) = x * y
         /\ SaturatingAdd(x, y) \in 0..Top
         /\ SaturatingAdd(x, y) # Top => SaturatingAdd(x, y) = x + y
<1>1. x # 0 /\ ~(y > Top \div x) => x * y \in 0..Top
  <2> SUFFICES ASSUME x # 0, y <= Top \div x  PROVE x * y \in 0..Top
    OBVIOUS
  <2> DEFINE q == Top \div x
  <2>1. q \in Nat /\ y <= q /\ x * q <= Top  BY SMTT(30)
  <2> HIDE DEF q
  <2>2. q - y \in Nat /\ q = y + (q - y)  BY <2>1
  <2>3. x * (q - y) \in Nat /\ x * (y + (q - y)) = x * y + x * (q - y)  BY <2>2, SMTT(30)
  <2>4. x * y <= x * q  BY <2>1, <2>2, <2>3
  <2> QED  BY <2>1, <2>4
<1>2. x = 0 => x * y = 0  OBVIOUS
<1>3. /\ SaturatingMultiply(x, y) \in 0..Top
      /\ SaturatingMultiply(x, y) # Top => SaturatingMultiply(x, y) = x * y
  <2>1. CASE x # 0 /\ y > Top \div x
    <3>1. SaturatingMultiply(x, y) = Top  BY <2>1, Zenon DEF SaturatingMultiply
    <3> QED  BY <3>1
  <2>2. CASE ~(x # 0 /\ y > Top \div x)
    <3>1. SaturatingMultiply(x, y) = x * y  BY <2>2, Zenon DEF SaturatingMultiply
    <3>2. x * y \in 0..Top  BY <1>1, <1>2, <2>2
    <3> QED  BY <3>1, <3>2
  <2> QED  BY <2>1, <2>2
<1>4. /\ SaturatingAdd(x, y) \in 0..Top
      /\ SaturatingAdd(x, y) # Top => SaturatingAdd(x, y) = x + y
  BY DEF SaturatingAdd
<1> QED  BY <1>3, <1>4

\* What EstimateMemory allows under a budget is within it.
LEMMA AllowedFits ==
  ASSUME ProviderAssumption, MaxRSS \notin {0, Top}, NEW n \in Needs, Allowed(n)
  PROVE  n.weights + n.context * n.kv + n.overhead <= MaxRSS
<1> DEFINE m == SaturatingMultiply(n.context, n.kv)
           s == SaturatingAdd(n.weights, m)
<1>1. /\ Top \in Nat \ {0} /\ MaxRSS \in 0..Top /\ n.weights \in 0..Top /\ n.context \in 0..Top
      /\ n.kv \in 0..Top /\ n.overhead \in 0..Top
  BY DEF ProviderAssumption
<1>2. m \in 0..Top /\ (m # Top => m = n.context * n.kv)
  BY <1>1, SaturatingExact
<1> HIDE DEF m
<1>3. s \in 0..Top /\ (s # Top => s = n.weights + m)
  BY <1>1, <1>2, SaturatingExact
<1>4. SaturatingAdd(s, n.overhead) <= MaxRSS
  BY DEF Allowed, Peak, m
<1> HIDE DEF s
<1>5. SaturatingAdd(s, n.overhead) \in 0..Top /\ (SaturatingAdd(s, n.overhead) # Top => SaturatingAdd(s, n.overhead) = s + n.overhead)
  BY <1>1, <1>3, SaturatingExact
<1>6. s + n.overhead <= MaxRSS /\ s # Top
  BY <1>1, <1>3, <1>4, <1>5
<1>7. n.weights + m + n.overhead <= MaxRSS /\ m # Top
  BY <1>1, <1>2, <1>3, <1>6
<1> QED  BY <1>2, <1>7

LEMMA ProviderInvSound ==
  ASSUME ProviderAssumption, ProviderInv
  PROVE  ProviderSound
<1> USE DEF ProviderInv
<1>1. \A c \in Calls : Under(c) => turn = c
  BY DEF Under, Placed, Stations, Turns, ProviderTypeOK
<1>2. OneModel
  <2>1. Cardinality({c \in Calls : Under(c)}) <= 1
    <3>1. {c \in Calls : Under(c)} \subseteq {turn}  BY <1>1
    <3>2. IsFiniteSet({turn}) /\ Cardinality({turn}) = 1  BY FS_Singleton
    <3>3. Cardinality({c \in Calls : Under(c)}) <= Cardinality({turn})  BY <3>1, <3>2, FS_Subset
    <3> QED  BY <3>2, <3>3
  <2>2. provider # "http" /\ closing = "closed" => \A c \in Calls : ~Under(c)
    BY <1>1 DEF Under, Placed, Stations, Turns, Shut, ProviderTypeOK, ProviderAssumption
  <2>3. provider = "http" /\ closing = "closed" => \A c \in Calls : Under(c) => expired[c]
    BY <1>1 DEF Shut
  <2>4. ASSUME provider = "cli", MaxRSS \notin {0, Top}, NEW c \in Calls, Under(c)
        PROVE  need[c].weights + need[c].context * need[c].kv + need[c].overhead <= MaxRSS
    <3>1. Allowed(need[c]) /\ need[c] \in Needs
      BY <2>4 DEF Under, Turns, ProviderTypeOK
    <3> QED  BY <2>4, <3>1, AllowedFits
  <2> QED  BY <2>1, <2>2, <2>3, <2>4 DEF OneModel
<1>3. AnswersBound
  BY DEF AnswersBound, Bound
<1>4. VectorsAgree
  <2> SUFFICES ASSUME provider = "embedder", NEW c \in Calls, fate[c] = "ok"
               PROVE  /\ Len(made[c]) = Batch /\ \A i \in 1..Batch : made[c][i] = dims
                      /\ c \notin inputs
    BY DEF VectorsAgree
  <2>1. call[c] \in {"leaving", "returned"}
    BY DEF Placed, ProviderTypeOK
  <2> QED  BY <2>1 DEF Vectors
<1> QED  BY <1>2, <1>3, <1>4 DEF ProviderSound

\* For any number of calls, texts, dimensions, needs and alterations: one model at a
\* time within its budget, nobody under a closed provider, answers of the bound files
\* only, and whole batches of one dimension.
THEOREM Providers ==
  ASSUME ProviderAssumption
  PROVE  ProviderSpec => []ProviderSound
<1>1. ProviderInit => ProviderInv
  BY DEF ProviderInit, ProviderInv, ProviderAssumption, ProviderTypeOK, Places, Placed, Stations, Turns, Shut, Bound, Vectors
<1>2. ProviderInv /\ [ProviderNext]_providerVars => ProviderInv'
  BY ProviderStep
<1>3. ProviderInv => ProviderSound
  BY ProviderInvSound
<1> QED  BY <1>1, <1>2, <1>3, PTL DEF ProviderSpec
=============================================================================
