------------------------ MODULE SnapshotStoreProofs ------------------------
(***************************************************************************)
(* The two ways in which directories become visible by a rename.  First    *)
(* the safety properties of SnapshotStore, for every number of             *)
(* transactions, administrators, snapshot IDs, bundles and mishaps: IInv   *)
(* is shown inductive one named part at a time (one lemma per part, one    *)
(* step per action), and the properties follow from it.  Then the          *)
(* publication of a generated directory (SafeOutput), over variables of    *)
(* its own.                                                                *)
(***************************************************************************)
EXTENDS SnapshotStore, SafeOutput, TLAPS

(***************************************************************************)
(* What the small operators the actions share do to their variables.       *)
(***************************************************************************)

\* Every phase name an action goes to is a phase.

LEMMA PhaseType ==
  {"idle", "leasing", "marking", "recording", "admitting", "open", "binding", "sealing",
   "checking", "renaming", "pointing", "aborting", "validating", "isolating", "moving", "erasing",
   "listing", "opening", "locking", "aging", "selecting", "done", "dead"} \subseteq Phases
BY DEF Phases, BeginPhases, CommitPhases, RemovePhases

\* Goto keeps pc a function from processes to phases.
LEMMA GotoType ==
  ASSUME TypeOK, NEW a \in Actors, NEW phase \in Phases, Goto(a, phase)
  PROVE  pc' \in [Actors -> Phases]
BY DEF TypeOK, Goto, Actors

\* Goto moves one process and leaves the others where they are.
LEMMA GotoEffect ==
  ASSUME TypeOK, NEW a \in Actors, NEW phase, Goto(a, phase)
  PROVE  \A b \in Txns \cup Admins : pc'[b] = IF b = a THEN phase ELSE pc[b]
BY DEF TypeOK, Goto, Actors

\* Counting a mishap respects the bound.
LEMMA MishapType ==
  ASSUME TypeOK, Mishap \/ UNCHANGED mishaps
  PROVE  mishaps' \in 0..MaxMishaps
BY MishapAssumption DEF TypeOK, Mishap

\* Closing a lease keeps lock a function from transactions to holders.
LEMMA UnlockType ==
  ASSUME TypeOK, NEW a, NEW t, Unlock(a, t)
  PROVE  lock' \in [Txns -> Actors \cup {None}]
BY DEF TypeOK, Unlock

\* A record that is given another bundle or another status is a record.
LEMMA RecordEdits ==
  ASSUME NEW r \in Record
  PROVE  /\ \A b \in Bundles : Rebound(r, b) \in Record
         /\ \A s \in {"building", "failed", "committed"} : [r EXCEPT !.status = s] \in Record
BY DEF Record, Rebound

\* Giving one transaction another record keeps mem a function from transactions to records.
LEMMA MemType ==
  ASSUME TypeOK, NEW t \in Txns, NEW r \in Record, mem' = [mem EXCEPT ![t] = r]
  PROVE  mem' \in [Txns -> Record]
BY DEF TypeOK

\* The record write of Abort reaches its own record, or recreates a path.
LEMMA AbortRecordEffect ==
  ASSUME TypeOK, NEW t \in Txns, AbortRecord(t)
  PROVE  /\ UNCHANGED <<mem, lock>>
         /\ \A u \in Txns \ {t} : rec'[u] = rec[u]
         /\ \A u \in Txns \ {t} : pc'[u] = pc[u]
         /\ pc[t] = "aborting" /\ pc'[t] \in {"validating", "open"}
         /\ rec'[t] = mem[t] \/ (rec'[t] = rec[t] /\ (pc'[t] = "open" \/ dir[t] # "building"))
<1>1. pc[t] = "aborting" /\ UNCHANGED <<mem, lock>> BY DEF AbortRecord, txnVars
<1>2. Goto(t, "validating") \/ Goto(t, "open") BY DEF AbortRecord
<1>3. t \in Actors BY DEF Actors
<1>4. \/ Goto(t, "open") /\ \A u \in Txns : pc'[u] = IF u = t THEN "open" ELSE pc[u]
      \/ \A u \in Txns : pc'[u] = IF u = t THEN "validating" ELSE pc[u]
  <2>1. CASE Goto(t, "open") BY <2>1, <1>3, GotoEffect
  <2>2. CASE Goto(t, "validating") BY <2>2, <1>3, GotoEffect
  <2> QED BY <1>2, <2>1, <2>2
<1>5. rec \in [Txns -> Record \cup {None}] BY DEF TypeOK
<1>6. rec' = [rec EXCEPT ![t] = mem[t]] \/ rec' = rec BY DEF AbortRecord
<1>7. CASE rec' = [rec EXCEPT ![t] = mem[t]]
  <2>1. rec'[t] = mem[t] /\ \A u \in Txns \ {t} : rec'[u] = rec[u] BY <1>5, <1>7
  <2>2. pc'[t] \in {"validating", "open"} /\ \A u \in Txns \ {t} : pc'[u] = pc[u] BY <1>4
  <2> QED BY <1>1, <2>1, <2>2
<1>8. CASE rec' # [rec EXCEPT ![t] = mem[t]]
  <2>1. rec' = rec BY <1>6, <1>8
  <2>2. dir[t] # "building" \/ Goto(t, "open") BY <1>8 DEF AbortRecord
  <2>3. dir[t] # "building" \/ pc'[t] = "open"
    <3>1. CASE Goto(t, "open") BY <3>1, <1>3, GotoEffect
    <3> QED BY <2>2, <3>1
  <2>4. pc'[t] \in {"validating", "open"} /\ \A u \in Txns \ {t} : pc'[u] = pc[u] BY <1>4
  <2> QED BY <1>1, <2>1, <2>3, <2>4
<1> QED BY <1>7, <1>8

\* BeginInv reads a transaction's own phase, directory and lease.
LEMMA BeginKept ==
  ASSUME BeginInv, UNCHANGED <<id, dir, marker, rec>>,
         \A t \in Txns : pc'[t] = pc[t] /\ lock'[t] \in {lock[t], None}
  PROVE  BeginInv'
BY DEF BeginInv, BeginPhases, CommitPhases, RemovePhases

\* FailedInv reads no more than the records, the phases and who has its own lease.
LEMMA FailedKept ==
  ASSUME FailedInv, UNCHANGED <<mem, rec>>,
         \A t \in Txns : pc'[t] = pc[t] /\ (lock[t] = t => lock'[t] = t)
  PROVE  FailedInv'
BY DEF FailedInv

\* RecordInv reads no more than the records, the phases, the IDs and the objects there and lost.
LEMMA RecordKept ==
  ASSUME RecordInv, UNCHANGED <<mem, rec, id, casVars>>, \A t \in Txns : pc'[t] = pc[t]
  PROVE  RecordInv'
BY DEF RecordInv, casVars

\* PublishInv survives a step that publishes nothing and keeps who is pointing or selecting.
LEMMA PublishKept ==
  ASSUME TypeOK, PublishInv, UNCHANGED <<published, id>>,
         \A t \in Txns : dir'[t] = "published" => dir[t] = "published" /\ pc'[t] = pc[t],
         \A t \in Txns : pc'[t] = "pointing" => pc[t] = "pointing",
         \A a \in Admins : pc'[a] = "selecting" => pc[a] = "selecting" /\ entry'[a] = entry[a]
  PROVE  PublishInv'
<1>1. ASSUME NEW t \in Txns, dir'[t] = "published" PROVE pc'[t] \in SettledPhases
  <2>1. dir[t] = "published" /\ pc'[t] = pc[t] BY <1>1
  <2> QED BY <2>1 DEF PublishInv
<1>2. ASSUME NEW t \in Txns, pc'[t] = "pointing" PROVE published'[id'[t]] = t
  <2>1. pc[t] = "pointing" BY <1>2
  <2> QED BY <2>1 DEF PublishInv
<1>3. ASSUME NEW a \in Admins, pc'[a] = "selecting"
      PROVE  entry'[a] \in SnapIds /\ published'[entry'[a]] # None
  <2>1. pc[a] = "selecting" /\ entry'[a] = entry[a] BY <1>3
  <2> QED BY <2>1 DEF PublishInv
<1> QED BY <1>1, <1>2, <1>3 DEF PublishInv, SettledPhases

\* PublishedComplete survives a step that leaves published directories and their records alone.
LEMMA CompleteKept ==
  ASSUME TypeOK, NoneAssumption, PublishedComplete, UNCHANGED <<published, id, dir>>,
         \A t \in Txns : dir[t] = "published" => rec'[t] = rec[t]
  PROVE  PublishedComplete'
BY DEF PublishedComplete, TypeOK

(***************************************************************************)
(* The inductive step, part by part.                                       *)
(***************************************************************************)

\* Every step keeps the types.
LEMMA TypeStep == IInv /\ [Next]_vars => TypeOK'
<1> SUFFICES ASSUME TypeOK, BeginInv, PublishInv, [Next]_vars PROVE TypeOK'
  BY DEF IInv
<1> USE DEF TypeOK, txnVars, diskVars, storeVars, casVars, adminVars
<1>1. ASSUME NEW t \in Txns, Begin(t) PROVE TypeOK'
  <2> t \in Actors BY DEF Actors
  <2>1. CASE BeginDirectory(t) BY <2>1, PhaseType, GotoType DEF BeginDirectory
  <2>2. CASE BeginLease(t) BY <2>2, PhaseType, GotoType, MishapType DEF BeginLease
  <2>3. CASE BeginMarker(t) BY <2>3, PhaseType, GotoType, MishapType, UnlockType DEF BeginMarker
  <2>4. CASE BeginRecord(t) BY <2>4, PhaseType, GotoType, MishapType, UnlockType DEF BeginRecord
  <2>5. CASE BeginAdmit(t) BY <2>5, PhaseType, GotoType, MishapType, UnlockType DEF BeginAdmit
  <2> QED BY <1>1, <2>1, <2>2, <2>3, <2>4, <2>5 DEF Begin
<1>2. ASSUME NEW t \in Txns, Write(t) PROVE TypeOK'
  <2> t \in Actors BY DEF Actors
  <2>1. CASE WriteBundle(t)
    <3>1. PICK b \in Bundles :
            /\ objects' = objects \cup {BundleObject(id[t], b)}
            /\ mem' = [mem EXCEPT ![t] = Rebound(@, b)]
      BY <2>1 DEF WriteBundle
    <3>2. BundleObject(id[t], b) \in Object
      BY <2>1, NoneAssumption DEF WriteBundle, BeginInv, Object, BundleObject
    <3>3. mem' \in [Txns -> Record]
      <4>1. mem[t] \in Record OBVIOUS
      <4>2. Rebound(mem[t], b) \in Record
        BY <4>1, RecordEdits
      <4> QED BY <3>1, <4>2, MemType
    <3> QED BY <2>1, <3>1, <3>2, <3>3, PhaseType, GotoType DEF WriteBundle
  <2>2. CASE WriteCoverage(t)
    <3>1. CoverageObject(id[t], mem[t].bundle) \in Object
      BY <2>2 DEF WriteCoverage, HasBundle, BeginInv, Object, CoverageObject, Record
    <3>2. mem' \in [Txns -> Record]
      BY <2>2 DEF WriteCoverage, Record
    <3> QED BY <2>2, <3>1, <3>2, PhaseType, GotoType DEF WriteCoverage
  <2>3. CASE BindRecord(t) BY <2>3, PhaseType, GotoType, MishapType DEF BindRecord
  <2> QED BY <1>2, <2>1, <2>2, <2>3 DEF Write
<1>3. ASSUME NEW t \in Txns, Commit(t) PROVE TypeOK'
  <2> t \in Actors BY DEF Actors
  <2>1. CASE CommitVerify(t)
    <3>1. mem[t] \in Record OBVIOUS
    <3>2. [mem[t] EXCEPT !.status = "committed"] \in Record
      BY <3>1, RecordEdits
    <3>3. mem' \in [Txns -> Record]
      BY <2>1, <3>2, MemType DEF CommitVerify
    <3> QED BY <2>1, <3>3, PhaseType, GotoType DEF CommitVerify
  <2>2. CASE CommitSeal(t) BY <2>2, PhaseType, GotoType, MishapType DEF CommitSeal
  <2>3. CASE CommitCheck(t) BY <2>3, PhaseType, GotoType, MishapType DEF CommitCheck
  <2>4. CASE CommitRename(t) BY <2>4, PhaseType, GotoType, MishapType DEF CommitRename
  <2>5. CASE CommitPoint(t) BY <2>5, PhaseType, GotoType, MishapType, UnlockType DEF CommitPoint
  <2> QED BY <1>3, <2>1, <2>2, <2>3, <2>4, <2>5 DEF Commit
<1>4. ASSUME NEW t \in Txns, Abort(t) PROVE TypeOK'
  <2> t \in Actors BY DEF Actors
  <2>1. CASE AbortCheck(t)
    <3>1. mem[t] \in Record OBVIOUS
    <3>2. [mem[t] EXCEPT !.status = "failed"] \in Record
      BY <3>1, RecordEdits
    <3>3. mem' \in [Txns -> Record]
      BY <2>1, <3>2, MemType DEF AbortCheck
    <3> QED BY <2>1, <3>3, PhaseType, GotoType DEF AbortCheck
  <2>2. CASE AbortRecord(t) BY <2>2, PhaseType, GotoType, MishapType DEF AbortRecord
  <2> QED BY <1>4, <2>1, <2>2 DEF Abort
<1>5. ASSUME NEW a \in Actors, Remove(a) PROVE TypeOK'
  <2>0. ASSUME RemoveFail(a)
        PROVE  /\ pc' \in [Actors -> Phases]
               /\ lock' \in [Txns -> Actors \cup {None}]
               /\ entry' \in [Admins -> Txns \cup SnapIds \cup {None}]
               /\ todo' \in [Admins -> SUBSET Txns]
    BY <2>0, PhaseType, GotoType, UnlockType DEF RemoveFail
  <2>1. CASE RemoveValidate(a)
    BY <2>0, <2>1, PhaseType, GotoType, MishapType DEF RemoveValidate
  <2>2. CASE RemoveMove(a) BY <2>0, <2>2, PhaseType, GotoType, MishapType DEF RemoveMove
  <2>3. CASE RemoveErase(a)
    BY <2>0, <2>3, PhaseType, GotoType, MishapType, UnlockType DEF RemoveErase
  <2>4. CASE RemoveIsolate(a) BY <2>4, <2>0, PhaseType, GotoType, MishapType DEF RemoveIsolate
  <2> QED BY <1>5, <2>1, <2>2, <2>3, <2>4 DEF Remove
<1>6. ASSUME NEW a \in Admins, Recover(a) PROVE TypeOK'
  <2> a \in Actors BY DEF Actors
  <2>1. CASE RecoverList(a) BY <2>1, PhaseType, GotoType DEF RecoverList
  <2>2. CASE RecoverExamine(a) BY <2>2, PhaseType, GotoType DEF RecoverExamine
  <2>3. CASE RecoverReturn(a) BY <2>3, PhaseType, GotoType DEF RecoverReturn
  <2>4. CASE RecoverOpen(a) BY <2>4, PhaseType, GotoType DEF RecoverOpen
  <2>5. CASE RecoverLock(a) BY <2>5, PhaseType, GotoType DEF RecoverLock
  <2>6. CASE RecoverAge(a) BY <2>6, PhaseType, GotoType, UnlockType DEF RecoverAge
  <2> QED BY <1>6, <2>1, <2>2, <2>3, <2>4, <2>5, <2>6 DEF Recover
<1>7. ASSUME NEW a \in Admins, Select(a) PROVE TypeOK'
  <2> a \in Actors BY DEF Actors
  <2>1. CASE SelectLoad(a) BY <2>1, PhaseType, GotoType DEF SelectLoad
  <2>2. CASE SelectWrite(a)
    BY <2>2, PhaseType, GotoType, MishapType DEF SelectWrite, PublishInv
  <2> QED BY <1>7, <2>1, <2>2 DEF Select
<1>8. ASSUME NEW t \in Txns, GrowOld(t) PROVE TypeOK'
  BY <1>8 DEF GrowOld
<1>9. ASSUME NEW a \in Actors, Crash(a) PROVE TypeOK'
  BY <1>9, PhaseType, GotoType, MishapType DEF Crash
<1>10. ASSUME NEW o \in objects, LoseObject(o) PROVE TypeOK'
  BY <1>10, MishapType DEF LoseObject
<1>11. CASE UNCHANGED vars BY <1>11 DEF vars
<1> QED
  BY <1>1, <1>2, <1>3, <1>4, <1>5, <1>6, <1>7, <1>8, <1>9, <1>10, <1>11
     DEF Next, TxnNext, AdminNext, Actors

\* Every step keeps what holds of a transaction's directory during Begin.
LEMMA BeginStep == IInv /\ [Next]_vars => BeginInv'
<1> SUFFICES ASSUME IInv, [Next]_vars PROVE BeginInv'
  OBVIOUS
<1> USE NoneAssumption, ActorAssumption, RecordAssumption, GotoEffect
    DEF IInv, TypeOK, txnVars, diskVars, storeVars, casVars, adminVars, BeginPhases,
        CommitPhases, RemovePhases, OwnPhases, SettledPhases, ValidBuilding, AnyStatus,
        HoldsLease, LockFree, Rebound, HasBundle, Verified, DestinationFree, BeginInv,
        LeaseInv, TxnLeaseInv, AdminLeaseInv, FailedInv
<1>1. ASSUME NEW t \in Txns, Begin(t) PROVE BeginInv'
  <2> t \in Actors BY DEF Actors
  <2>1. CASE BeginDirectory(t) BY <2>1 DEF BeginDirectory
  <2>2. CASE BeginLease(t) BY <2>2 DEF BeginLease
  <2>3. CASE BeginMarker(t) BY <2>3 DEF BeginMarker, Unlock
  <2>4. CASE BeginRecord(t) BY <2>4 DEF BeginRecord, Unlock
  <2>5. CASE BeginAdmit(t) BY <2>5 DEF BeginAdmit, Unlock
  <2> QED BY <1>1, <2>1, <2>2, <2>3, <2>4, <2>5 DEF Begin
<1>2. ASSUME NEW t \in Txns, Write(t) PROVE BeginInv'
  <2> t \in Actors BY DEF Actors
  <2>1. CASE WriteBundle(t) BY <2>1 DEF WriteBundle
  <2>2. CASE WriteCoverage(t) BY <2>2 DEF WriteCoverage
  <2>3. CASE BindRecord(t) BY <2>3 DEF BindRecord
  <2> QED BY <1>2, <2>1, <2>2, <2>3 DEF Write
<1>3. ASSUME NEW t \in Txns, Commit(t) PROVE BeginInv'
  <2> t \in Actors BY DEF Actors
  <2>1. CASE CommitVerify(t) BY <2>1 DEF CommitVerify
  <2>2. CASE CommitSeal(t) BY <2>2 DEF CommitSeal
  <2>3. CASE CommitCheck(t) BY <2>3 DEF CommitCheck
  <2>4. CASE CommitRename(t) BY <2>4 DEF CommitRename
  <2>5. CASE CommitPoint(t) BY <2>5 DEF CommitPoint, Unlock
  <2> QED BY <1>3, <2>1, <2>2, <2>3, <2>4, <2>5 DEF Commit
<1>4. ASSUME NEW t \in Txns, Abort(t) PROVE BeginInv'
  <2> t \in Actors BY DEF Actors
  <2>1. CASE AbortCheck(t) BY <2>1 DEF AbortCheck
  <2>2. CASE AbortRecord(t) BY <2>2 DEF AbortRecord
  <2> QED BY <1>4, <2>1, <2>2 DEF Abort
<1>5. ASSUME NEW a \in Actors, Remove(a) PROVE BeginInv'
  <2>1. CASE RemoveValidate(a) BY <2>1 DEF RemoveValidate, RemoveFail, Unlock, Victim
  <2>2. CASE RemoveMove(a)
    <3>1. CASE a \in Txns BY <2>2, <3>1 DEF RemoveMove, RemoveFail, Unlock, Victim
    <3>2. CASE a \in Admins BY <2>2, <3>2 DEF RemoveMove, RemoveFail, Unlock, Victim
    <3> QED BY <3>1, <3>2 DEF Actors
  <2>3. CASE RemoveErase(a)
    <3>1. CASE a \in Txns BY <2>3, <3>1 DEF RemoveErase, RemoveFail, Unlock, Victim
    <3>2. CASE a \in Admins BY <2>3, <3>2 DEF RemoveErase, RemoveFail, Unlock, Victim
    <3> QED BY <3>1, <3>2 DEF Actors
  <2>4. CASE RemoveIsolate(a) BY <2>4 DEF RemoveIsolate, RemoveFail, Unlock, Victim
  <2> QED BY <1>5, <2>1, <2>2, <2>3, <2>4 DEF Remove
<1>6. ASSUME NEW a \in Admins, Recover(a) PROVE BeginInv'
  <2> a \in Actors BY DEF Actors
  <2>1. CASE RecoverList(a) BY <2>1 DEF RecoverList
  <2>2. CASE RecoverExamine(a) BY <2>2 DEF RecoverExamine
  <2>3. CASE RecoverReturn(a) BY <2>3 DEF RecoverReturn
  <2>4. CASE RecoverOpen(a)
    <3>1. UNCHANGED <<id, dir, marker, rec, lock>> BY <2>4 DEF RecoverOpen
    <3>2. \A t \in Txns : pc'[t] = pc[t] BY <2>4 DEF RecoverOpen
    <3> QED BY <3>1, <3>2, BeginKept
  <2>5. CASE RecoverLock(a) BY <2>5 DEF RecoverLock
  <2>6. CASE RecoverAge(a)
    <3>1. UNCHANGED <<id, dir, marker, rec>> BY <2>6 DEF RecoverAge
    <3>2. \A t \in Txns : pc'[t] = pc[t] BY <2>6 DEF RecoverAge
    <3>3. \A t \in Txns : lock'[t] \in {lock[t], None} BY <2>6 DEF RecoverAge, Unlock
    <3> QED BY <3>1, <3>2, <3>3, BeginKept
  <2> QED BY <1>6, <2>1, <2>2, <2>3, <2>4, <2>5, <2>6 DEF Recover
<1>7. ASSUME NEW a \in Admins, Select(a) PROVE BeginInv'
  <2> a \in Actors BY DEF Actors
  <2>1. CASE SelectLoad(a)
    <3>1. UNCHANGED <<id, dir, marker, rec, lock>> BY <2>1 DEF SelectLoad
    <3>2. \A t \in Txns : pc'[t] = pc[t] BY <2>1 DEF SelectLoad
    <3> QED BY <3>1, <3>2, BeginKept
  <2>2. CASE SelectWrite(a) BY <2>2 DEF SelectWrite
  <2> QED BY <1>7, <2>1, <2>2 DEF Select
<1>8. ASSUME NEW t \in Txns, GrowOld(t) PROVE BeginInv'
  BY <1>8 DEF GrowOld
<1>9. ASSUME NEW a \in Actors, Crash(a) PROVE BeginInv'
  BY <1>9 DEF Crash
<1>10. ASSUME NEW o \in objects, LoseObject(o) PROVE BeginInv'
  BY <1>10 DEF LoseObject
<1>11. CASE UNCHANGED vars BY <1>11 DEF vars
<1> QED
  BY <1>1, <1>2, <1>3, <1>4, <1>5, <1>6, <1>7, <1>8, <1>9, <1>10, <1>11
     DEF Next, TxnNext, AdminNext, Actors

\* Every step keeps a transaction's hold on its own lease.
LEMMA TxnLeaseStep == IInv /\ [Next]_vars => TxnLeaseInv'
<1> SUFFICES ASSUME IInv, [Next]_vars PROVE TxnLeaseInv'
  OBVIOUS
<1> USE NoneAssumption, ActorAssumption, RecordAssumption, GotoEffect
    DEF IInv, TypeOK, txnVars, diskVars, storeVars, casVars, adminVars, BeginPhases,
        CommitPhases, RemovePhases, OwnPhases, SettledPhases, ValidBuilding, AnyStatus,
        HoldsLease, LockFree, Rebound, HasBundle, Verified, DestinationFree, BeginInv,
        LeaseInv, TxnLeaseInv, AdminLeaseInv, FailedInv
<1>1. ASSUME NEW t \in Txns, Begin(t) PROVE TxnLeaseInv'
  <2> t \in Actors BY DEF Actors
  <2>1. CASE BeginDirectory(t) BY <2>1 DEF BeginDirectory
  <2>2. CASE BeginLease(t) BY <2>2 DEF BeginLease
  <2>3. CASE BeginMarker(t) BY <2>3 DEF BeginMarker, Unlock
  <2>4. CASE BeginRecord(t) BY <2>4 DEF BeginRecord, Unlock
  <2>5. CASE BeginAdmit(t) BY <2>5 DEF BeginAdmit, Unlock
  <2> QED BY <1>1, <2>1, <2>2, <2>3, <2>4, <2>5 DEF Begin
<1>2. ASSUME NEW t \in Txns, Write(t) PROVE TxnLeaseInv'
  <2> t \in Actors BY DEF Actors
  <2>1. CASE WriteBundle(t) BY <2>1 DEF WriteBundle
  <2>2. CASE WriteCoverage(t) BY <2>2 DEF WriteCoverage
  <2>3. CASE BindRecord(t) BY <2>3 DEF BindRecord
  <2> QED BY <1>2, <2>1, <2>2, <2>3 DEF Write
<1>3. ASSUME NEW t \in Txns, Commit(t) PROVE TxnLeaseInv'
  <2> t \in Actors BY DEF Actors
  <2>1. CASE CommitVerify(t) BY <2>1 DEF CommitVerify
  <2>2. CASE CommitSeal(t) BY <2>2 DEF CommitSeal
  <2>3. CASE CommitCheck(t) BY <2>3 DEF CommitCheck
  <2>4. CASE CommitRename(t) BY <2>4 DEF CommitRename
  <2>5. CASE CommitPoint(t) BY <2>5 DEF CommitPoint, Unlock
  <2> QED BY <1>3, <2>1, <2>2, <2>3, <2>4, <2>5 DEF Commit
<1>4. ASSUME NEW t \in Txns, Abort(t) PROVE TxnLeaseInv'
  <2> t \in Actors BY DEF Actors
  <2>1. CASE AbortCheck(t) BY <2>1 DEF AbortCheck
  <2>2. CASE AbortRecord(t) BY <2>2 DEF AbortRecord
  <2> QED BY <1>4, <2>1, <2>2 DEF Abort
<1>5. ASSUME NEW a \in Actors, Remove(a) PROVE TxnLeaseInv'
  <2>1. CASE RemoveValidate(a) BY <2>1 DEF RemoveValidate, RemoveFail, Unlock, Victim
  <2>2. CASE RemoveMove(a)
    <3>1. CASE a \in Txns BY <2>2, <3>1 DEF RemoveMove, RemoveFail, Unlock, Victim
    <3>2. CASE a \in Admins BY <2>2, <3>2 DEF RemoveMove, RemoveFail, Unlock, Victim
    <3> QED BY <3>1, <3>2 DEF Actors
  <2>3. CASE RemoveErase(a)
    <3>1. CASE a \in Txns BY <2>3, <3>1 DEF RemoveErase, RemoveFail, Unlock, Victim
    <3>2. CASE a \in Admins BY <2>3, <3>2 DEF RemoveErase, RemoveFail, Unlock, Victim
    <3> QED BY <3>1, <3>2 DEF Actors
  <2>4. CASE RemoveIsolate(a) BY <2>4 DEF RemoveIsolate, RemoveFail, Unlock, Victim
  <2> QED BY <1>5, <2>1, <2>2, <2>3, <2>4 DEF Remove
<1>6. ASSUME NEW a \in Admins, Recover(a) PROVE TxnLeaseInv'
  <2> a \in Actors BY DEF Actors
  <2>1. CASE RecoverList(a) BY <2>1 DEF RecoverList
  <2>2. CASE RecoverExamine(a) BY <2>2 DEF RecoverExamine
  <2>3. CASE RecoverReturn(a) BY <2>3 DEF RecoverReturn
  <2>4. CASE RecoverOpen(a) BY <2>4 DEF RecoverOpen
  <2>5. CASE RecoverLock(a) BY <2>5 DEF RecoverLock
  <2>6. CASE RecoverAge(a) BY <2>6 DEF RecoverAge, Unlock
  <2> QED BY <1>6, <2>1, <2>2, <2>3, <2>4, <2>5, <2>6 DEF Recover
<1>7. ASSUME NEW a \in Admins, Select(a) PROVE TxnLeaseInv'
  <2> a \in Actors BY DEF Actors
  <2>1. CASE SelectLoad(a) BY <2>1 DEF SelectLoad
  <2>2. CASE SelectWrite(a) BY <2>2 DEF SelectWrite
  <2> QED BY <1>7, <2>1, <2>2 DEF Select
<1>8. ASSUME NEW t \in Txns, GrowOld(t) PROVE TxnLeaseInv'
  BY <1>8 DEF GrowOld
<1>9. ASSUME NEW a \in Actors, Crash(a) PROVE TxnLeaseInv'
  BY <1>9 DEF Crash
<1>10. ASSUME NEW o \in objects, LoseObject(o) PROVE TxnLeaseInv'
  BY <1>10 DEF LoseObject
<1>11. CASE UNCHANGED vars BY <1>11 DEF vars
<1> QED
  BY <1>1, <1>2, <1>3, <1>4, <1>5, <1>6, <1>7, <1>8, <1>9, <1>10, <1>11
     DEF Next, TxnNext, AdminNext, Actors

\* Every step keeps Recover's hold on the lease of what it removes.
LEMMA AdminLeaseStep == IInv /\ [Next]_vars => AdminLeaseInv'
<1> SUFFICES ASSUME IInv, [Next]_vars PROVE AdminLeaseInv'
  OBVIOUS
<1> USE NoneAssumption, ActorAssumption, RecordAssumption, GotoEffect
    DEF IInv, TypeOK, txnVars, diskVars, storeVars, casVars, adminVars, BeginPhases,
        CommitPhases, RemovePhases, OwnPhases, SettledPhases, ValidBuilding, AnyStatus,
        HoldsLease, LockFree, Rebound, HasBundle, Verified, DestinationFree, BeginInv,
        LeaseInv, TxnLeaseInv, AdminLeaseInv, FailedInv
<1>1. ASSUME NEW t \in Txns, Begin(t) PROVE AdminLeaseInv'
  <2> t \in Actors BY DEF Actors
  <2>1. CASE BeginDirectory(t) BY <2>1 DEF BeginDirectory
  <2>2. CASE BeginLease(t) BY <2>2 DEF BeginLease
  <2>3. CASE BeginMarker(t) BY <2>3 DEF BeginMarker, Unlock
  <2>4. CASE BeginRecord(t) BY <2>4 DEF BeginRecord, Unlock
  <2>5. CASE BeginAdmit(t) BY <2>5 DEF BeginAdmit, Unlock
  <2> QED BY <1>1, <2>1, <2>2, <2>3, <2>4, <2>5 DEF Begin
<1>2. ASSUME NEW t \in Txns, Write(t) PROVE AdminLeaseInv'
  <2> t \in Actors BY DEF Actors
  <2>1. CASE WriteBundle(t) BY <2>1 DEF WriteBundle
  <2>2. CASE WriteCoverage(t) BY <2>2 DEF WriteCoverage
  <2>3. CASE BindRecord(t) BY <2>3 DEF BindRecord
  <2> QED BY <1>2, <2>1, <2>2, <2>3 DEF Write
<1>3. ASSUME NEW t \in Txns, Commit(t) PROVE AdminLeaseInv'
  <2> t \in Actors BY DEF Actors
  <2>1. CASE CommitVerify(t) BY <2>1 DEF CommitVerify
  <2>2. CASE CommitSeal(t) BY <2>2 DEF CommitSeal
  <2>3. CASE CommitCheck(t) BY <2>3 DEF CommitCheck
  <2>4. CASE CommitRename(t) BY <2>4 DEF CommitRename
  <2>5. CASE CommitPoint(t) BY <2>5 DEF CommitPoint, Unlock
  <2> QED BY <1>3, <2>1, <2>2, <2>3, <2>4, <2>5 DEF Commit
<1>4. ASSUME NEW t \in Txns, Abort(t) PROVE AdminLeaseInv'
  <2> t \in Actors BY DEF Actors
  <2>1. CASE AbortCheck(t) BY <2>1 DEF AbortCheck
  <2>2. CASE AbortRecord(t) BY <2>2 DEF AbortRecord
  <2> QED BY <1>4, <2>1, <2>2 DEF Abort
<1>5. ASSUME NEW a \in Actors, Remove(a) PROVE AdminLeaseInv'
  <2>1. CASE RemoveValidate(a) BY <2>1 DEF RemoveValidate, RemoveFail, Unlock, Victim
  <2>2. CASE RemoveMove(a)
    <3>1. CASE a \in Txns BY <2>2, <3>1 DEF RemoveMove, RemoveFail, Unlock, Victim
    <3>2. CASE a \in Admins BY <2>2, <3>2 DEF RemoveMove, RemoveFail, Unlock, Victim
    <3> QED BY <3>1, <3>2 DEF Actors
  <2>3. CASE RemoveErase(a)
    <3>1. CASE a \in Txns BY <2>3, <3>1 DEF RemoveErase, RemoveFail, Unlock, Victim
    <3>2. CASE a \in Admins BY <2>3, <3>2 DEF RemoveErase, RemoveFail, Unlock, Victim
    <3> QED BY <3>1, <3>2 DEF Actors
  <2>4. CASE RemoveIsolate(a) BY <2>4 DEF RemoveIsolate, RemoveFail, Unlock, Victim
  <2> QED BY <1>5, <2>1, <2>2, <2>3, <2>4 DEF Remove
<1>6. ASSUME NEW a \in Admins, Recover(a) PROVE AdminLeaseInv'
  <2> a \in Actors BY DEF Actors
  <2>1. CASE RecoverList(a) BY <2>1 DEF RecoverList
  <2>2. CASE RecoverExamine(a) BY <2>2 DEF RecoverExamine
  <2>3. CASE RecoverReturn(a) BY <2>3 DEF RecoverReturn
  <2>4. CASE RecoverOpen(a) BY <2>4 DEF RecoverOpen
  <2>5. CASE RecoverLock(a) BY <2>5 DEF RecoverLock
  <2>6. CASE RecoverAge(a) BY <2>6 DEF RecoverAge, Unlock
  <2> QED BY <1>6, <2>1, <2>2, <2>3, <2>4, <2>5, <2>6 DEF Recover
<1>7. ASSUME NEW a \in Admins, Select(a) PROVE AdminLeaseInv'
  <2> a \in Actors BY DEF Actors
  <2>1. CASE SelectLoad(a) BY <2>1 DEF SelectLoad
  <2>2. CASE SelectWrite(a) BY <2>2 DEF SelectWrite
  <2> QED BY <1>7, <2>1, <2>2 DEF Select
<1>8. ASSUME NEW t \in Txns, GrowOld(t) PROVE AdminLeaseInv'
  BY <1>8 DEF GrowOld
<1>9. ASSUME NEW a \in Actors, Crash(a) PROVE AdminLeaseInv'
  BY <1>9 DEF Crash
<1>10. ASSUME NEW o \in objects, LoseObject(o) PROVE AdminLeaseInv'
  BY <1>10 DEF LoseObject
<1>11. CASE UNCHANGED vars BY <1>11 DEF vars
<1> QED
  BY <1>1, <1>2, <1>3, <1>4, <1>5, <1>6, <1>7, <1>8, <1>9, <1>10, <1>11
     DEF Next, TxnNext, AdminNext, Actors

\* Every step keeps a transaction without its lease confined to Abort.
LEMMA FailedStep == IInv /\ [Next]_vars => FailedInv'
<1> SUFFICES ASSUME IInv, [Next]_vars PROVE FailedInv'
  OBVIOUS
<1> USE NoneAssumption, ActorAssumption, RecordAssumption, GotoEffect
    DEF IInv, TypeOK, txnVars, diskVars, storeVars, casVars, adminVars, BeginPhases,
        CommitPhases, RemovePhases, OwnPhases, SettledPhases, ValidBuilding, AnyStatus,
        HoldsLease, LockFree, Rebound, HasBundle, Verified, DestinationFree, BeginInv,
        RecordInv, LeaseInv, TxnLeaseInv, AdminLeaseInv, FailedInv
<1>1. ASSUME NEW t \in Txns, Begin(t) PROVE FailedInv'
  <2> t \in Actors BY DEF Actors
  <2>1. CASE BeginDirectory(t) BY <2>1 DEF BeginDirectory
  <2>2. CASE BeginLease(t) BY <2>2 DEF BeginLease
  <2>3. CASE BeginMarker(t) BY <2>3 DEF BeginMarker, Unlock
  <2>4. CASE BeginRecord(t) BY <2>4 DEF BeginRecord, Unlock
  <2>5. CASE BeginAdmit(t) BY <2>5 DEF BeginAdmit, Unlock
  <2> QED BY <1>1, <2>1, <2>2, <2>3, <2>4, <2>5 DEF Begin
<1>2. ASSUME NEW t \in Txns, Write(t) PROVE FailedInv'
  <2> t \in Actors BY DEF Actors
  <2>1. CASE WriteBundle(t) BY <2>1 DEF WriteBundle
  <2>2. CASE WriteCoverage(t) BY <2>2 DEF WriteCoverage
  <2>3. CASE BindRecord(t) BY <2>3 DEF BindRecord
  <2> QED BY <1>2, <2>1, <2>2, <2>3 DEF Write
<1>3. ASSUME NEW t \in Txns, Commit(t) PROVE FailedInv'
  <2> t \in Actors BY DEF Actors
  <2>1. CASE CommitVerify(t) BY <2>1 DEF CommitVerify
  <2>2. CASE CommitSeal(t) BY <2>2 DEF CommitSeal
  <2>3. CASE CommitCheck(t) BY <2>3 DEF CommitCheck
  <2>4. CASE CommitRename(t) BY <2>4 DEF CommitRename
  <2>5. CASE CommitPoint(t) BY <2>5 DEF CommitPoint, Unlock
  <2> QED BY <1>3, <2>1, <2>2, <2>3, <2>4, <2>5 DEF Commit
<1>4. ASSUME NEW t \in Txns, Abort(t) PROVE FailedInv'
  <2> t \in Actors BY DEF Actors
  <2>1. CASE AbortCheck(t) BY <2>1 DEF AbortCheck
  <2>2. CASE AbortRecord(t)
    <3>1. /\ UNCHANGED <<mem, lock>>
          /\ \A u \in Txns \ {t} : rec'[u] = rec[u] /\ pc'[u] = pc[u]
          /\ pc[t] = "aborting" /\ pc'[t] \in {"validating", "open"}
      BY <2>2, AbortRecordEffect
    <3>2. rec'[t] = mem[t] \/ (rec'[t] = rec[t] /\ (pc'[t] = "open" \/ dir[t] # "building"))
      BY <2>2, AbortRecordEffect
    <3>3. dir[t] # "building" => lock[t] # t
      BY <3>1
    <3>4. mem[t].status = "failed" /\ (lock[t] # t => rec[t].status = "failed")
      BY <3>1
    <3> QED BY <3>1, <3>2, <3>3, <3>4
  <2> QED BY <1>4, <2>1, <2>2 DEF Abort
<1>5. ASSUME NEW a \in Actors, Remove(a) PROVE FailedInv'
  <2>1. CASE RemoveValidate(a) BY <2>1 DEF RemoveValidate, RemoveFail, Unlock, Victim
  <2>2. CASE RemoveMove(a) BY <2>2 DEF RemoveMove, RemoveFail, Unlock, Victim
  <2>3. CASE RemoveErase(a) BY <2>3 DEF RemoveErase, RemoveFail, Unlock, Victim
  <2>4. CASE RemoveIsolate(a) BY <2>4 DEF RemoveIsolate, RemoveFail, Unlock, Victim
  <2> QED BY <1>5, <2>1, <2>2, <2>3, <2>4 DEF Remove
<1>6. ASSUME NEW a \in Admins, Recover(a) PROVE FailedInv'
  <2> a \in Actors BY DEF Actors
  <2>1. CASE RecoverList(a) BY <2>1 DEF RecoverList
  <2>2. CASE RecoverExamine(a) BY <2>2 DEF RecoverExamine
  <2>3. CASE RecoverReturn(a) BY <2>3 DEF RecoverReturn
  <2>4. CASE RecoverOpen(a)
    <3>1. UNCHANGED <<mem, rec, lock>> BY <2>4 DEF RecoverOpen
    <3>2. \A t \in Txns : pc'[t] = pc[t] BY <2>4 DEF RecoverOpen
    <3> QED BY <3>1, <3>2, FailedKept
  <2>5. CASE RecoverLock(a) BY <2>5 DEF RecoverLock
  <2>6. CASE RecoverAge(a) BY <2>6 DEF RecoverAge, Unlock
  <2> QED BY <1>6, <2>1, <2>2, <2>3, <2>4, <2>5, <2>6 DEF Recover
<1>7. ASSUME NEW a \in Admins, Select(a) PROVE FailedInv'
  <2> a \in Actors BY DEF Actors
  <2>1. CASE SelectLoad(a)
    <3>1. UNCHANGED <<mem, rec, lock>> BY <2>1 DEF SelectLoad
    <3>2. \A t \in Txns : pc'[t] = pc[t] BY <2>1 DEF SelectLoad
    <3> QED BY <3>1, <3>2, FailedKept
  <2>2. CASE SelectWrite(a) BY <2>2 DEF SelectWrite
  <2> QED BY <1>7, <2>1, <2>2 DEF Select
<1>8. ASSUME NEW t \in Txns, GrowOld(t) PROVE FailedInv'
  BY <1>8 DEF GrowOld
<1>9. ASSUME NEW a \in Actors, Crash(a) PROVE FailedInv'
  BY <1>9 DEF Crash
<1>10. ASSUME NEW o \in objects, LoseObject(o) PROVE FailedInv'
  BY <1>10 DEF LoseObject
<1>11. CASE UNCHANGED vars BY <1>11 DEF vars
<1> QED
  BY <1>1, <1>2, <1>3, <1>4, <1>5, <1>6, <1>7, <1>8, <1>9, <1>10, <1>11
     DEF Next, TxnNext, AdminNext, Actors

\* Every step keeps records consistent and what Commit verified intact.
LEMMA RecordStep == IInv /\ [Next]_vars => RecordInv'
<1> SUFFICES ASSUME IInv, [Next]_vars PROVE RecordInv'
  OBVIOUS
<1> USE NoneAssumption, ActorAssumption, RecordAssumption, GotoEffect
    DEF IInv, TypeOK, txnVars, diskVars, storeVars, casVars, adminVars, BeginPhases,
        CommitPhases, RemovePhases, OwnPhases, SettledPhases, ValidBuilding, AnyStatus,
        HoldsLease, LockFree, Rebound, HasBundle, Verified, DestinationFree, BeginInv,
        RecordInv, EmptyRecord, RecordObjects, BundleObject, CoverageObject, LeaseInv,
        TxnLeaseInv, AdminLeaseInv, FailedInv
<1>1. ASSUME NEW t \in Txns, Begin(t) PROVE RecordInv'
  <2> t \in Actors BY DEF Actors
  <2>1. CASE BeginDirectory(t) BY <2>1 DEF BeginDirectory
  <2>2. CASE BeginLease(t) BY <2>2 DEF BeginLease
  <2>3. CASE BeginMarker(t) BY <2>3 DEF BeginMarker, Unlock
  <2>4. CASE BeginRecord(t) BY <2>4 DEF BeginRecord, Unlock
  <2>5. CASE BeginAdmit(t) BY <2>5 DEF BeginAdmit, Unlock
  <2> QED BY <1>1, <2>1, <2>2, <2>3, <2>4, <2>5 DEF Begin
<1>2. ASSUME NEW t \in Txns, Write(t) PROVE RecordInv'
  <2> t \in Actors BY DEF Actors
  <2>1. CASE WriteBundle(t) BY <2>1 DEF WriteBundle
  <2>2. CASE WriteCoverage(t) BY <2>2 DEF WriteCoverage
  <2>3. CASE BindRecord(t)
    <3>1. UNCHANGED <<mem, id, casVars>> BY <2>3 DEF BindRecord
    <3>2. \A u \in Txns : pc'[u] = IF u = t THEN "open" ELSE pc[u] BY <2>3 DEF BindRecord
    <3>3. \A u \in Txns : rec'[u] = rec[u] \/ rec'[u] = mem[u] BY <2>3 DEF BindRecord
    <3>4. pc[t] = "binding" BY <2>3 DEF BindRecord
    <3> QED BY <3>1, <3>2, <3>3, <3>4
  <2> QED BY <1>2, <2>1, <2>2, <2>3 DEF Write
<1>3. ASSUME NEW t \in Txns, Commit(t) PROVE RecordInv'
  <2> t \in Actors BY DEF Actors
  <2>1. CASE CommitVerify(t) BY <2>1 DEF CommitVerify
  <2>2. CASE CommitSeal(t) BY <2>2 DEF CommitSeal
  <2>3. CASE CommitCheck(t) BY <2>3 DEF CommitCheck
  <2>4. CASE CommitRename(t) BY <2>4 DEF CommitRename
  <2>5. CASE CommitPoint(t) BY <2>5 DEF CommitPoint, Unlock
  <2> QED BY <1>3, <2>1, <2>2, <2>3, <2>4, <2>5 DEF Commit
<1>4. ASSUME NEW t \in Txns, Abort(t) PROVE RecordInv'
  <2> t \in Actors BY DEF Actors
  <2>1. CASE AbortCheck(t) BY <2>1 DEF AbortCheck
  <2>2. CASE AbortRecord(t) BY <2>2 DEF AbortRecord
  <2> QED BY <1>4, <2>1, <2>2 DEF Abort
<1>5. ASSUME NEW a \in Actors, Remove(a) PROVE RecordInv'
  <2>1. CASE RemoveValidate(a) BY <2>1 DEF RemoveValidate, RemoveFail, Unlock, Victim
  <2>2. CASE RemoveMove(a) BY <2>2 DEF RemoveMove, RemoveFail, Unlock, Victim
  <2>3. CASE RemoveErase(a)
    <3>1. UNCHANGED <<mem, rec, id, casVars>>
      BY <2>3 DEF RemoveErase
    <3>2. \A t \in Txns : pc'[t] = pc[t] \/ pc'[t] \in {"done", "open"}
      BY <2>3 DEF RemoveErase, RemoveFail
    <3> QED BY <3>1, <3>2
  <2>4. CASE RemoveIsolate(a) BY <2>4 DEF RemoveIsolate, RemoveFail, Unlock, Victim
  <2> QED BY <1>5, <2>1, <2>2, <2>3, <2>4 DEF Remove
<1>6. ASSUME NEW a \in Admins, Recover(a) PROVE RecordInv'
  <2> a \in Actors BY DEF Actors
  <2>1. CASE RecoverList(a) BY <2>1 DEF RecoverList
  <2>2. CASE RecoverExamine(a) BY <2>2 DEF RecoverExamine
  <2>3. CASE RecoverReturn(a) BY <2>3 DEF RecoverReturn
  <2>4. CASE RecoverOpen(a) BY <2>4 DEF RecoverOpen
  <2>5. CASE RecoverLock(a)
    <3>1. UNCHANGED <<mem, rec, id, casVars>> BY <2>5 DEF RecoverLock
    <3>2. \A t \in Txns : pc'[t] = pc[t] BY <2>5 DEF RecoverLock
    <3> QED BY <3>1, <3>2, RecordKept
  <2>6. CASE RecoverAge(a) BY <2>6 DEF RecoverAge, Unlock
  <2> QED BY <1>6, <2>1, <2>2, <2>3, <2>4, <2>5, <2>6 DEF Recover
<1>7. ASSUME NEW a \in Admins, Select(a) PROVE RecordInv'
  <2> a \in Actors BY DEF Actors
  <2>1. CASE SelectLoad(a) BY <2>1 DEF SelectLoad
  <2>2. CASE SelectWrite(a) BY <2>2 DEF SelectWrite
  <2> QED BY <1>7, <2>1, <2>2 DEF Select
<1>8. ASSUME NEW t \in Txns, GrowOld(t) PROVE RecordInv'
  BY <1>8 DEF GrowOld
<1>9. ASSUME NEW a \in Actors, Crash(a) PROVE RecordInv'
  BY <1>9 DEF Crash
<1>10. ASSUME NEW o \in objects, LoseObject(o) PROVE RecordInv'
  BY <1>10 DEF LoseObject
<1>11. CASE UNCHANGED vars BY <1>11 DEF vars
<1> QED
  BY <1>1, <1>2, <1>3, <1>4, <1>5, <1>6, <1>7, <1>8, <1>9, <1>10, <1>11
     DEF Next, TxnNext, AdminNext, Actors

\* Every step keeps the binding between phases and publication.
LEMMA PublishStep == IInv /\ [Next]_vars => PublishInv'
<1> SUFFICES ASSUME IInv, [Next]_vars PROVE PublishInv'
  OBVIOUS
<1> USE NoneAssumption, ActorAssumption, RecordAssumption, GotoEffect
    DEF IInv, TypeOK, txnVars, diskVars, storeVars, casVars, adminVars, BeginPhases,
        CommitPhases, RemovePhases, OwnPhases, SettledPhases, ValidBuilding, AnyStatus,
        HoldsLease, LockFree, Rebound, HasBundle, Verified, DestinationFree, BeginInv,
        PublishInv, PublishedComplete, Loadable, LeaseInv, TxnLeaseInv, AdminLeaseInv,
        FailedInv
<1>1. ASSUME NEW t \in Txns, Begin(t) PROVE PublishInv'
  <2> t \in Actors BY DEF Actors
  <2>1. CASE BeginDirectory(t) BY <2>1 DEF BeginDirectory
  <2>2. CASE BeginLease(t)
    <3>1. UNCHANGED <<published, id, entry>> BY <2>2 DEF BeginLease
    <3>2. pc'[t] # "pointing" /\ \A b \in Actors \ {t} : pc'[b] = pc[b]
      BY <2>2 DEF BeginLease, Actors
    <3>3. dir'[t] # "published" /\ \A u \in Txns \ {t} : dir'[u] = dir[u]
      BY <2>2 DEF BeginLease
    <3> QED BY <3>1, <3>2, <3>3, PublishKept DEF Actors
  <2>3. CASE BeginMarker(t) BY <2>3 DEF BeginMarker, Unlock
  <2>4. CASE BeginRecord(t) BY <2>4 DEF BeginRecord, Unlock
  <2>5. CASE BeginAdmit(t) BY <2>5 DEF BeginAdmit, Unlock
  <2> QED BY <1>1, <2>1, <2>2, <2>3, <2>4, <2>5 DEF Begin
<1>2. ASSUME NEW t \in Txns, Write(t) PROVE PublishInv'
  <2> t \in Actors BY DEF Actors
  <2>1. CASE WriteBundle(t) BY <2>1 DEF WriteBundle
  <2>2. CASE WriteCoverage(t) BY <2>2 DEF WriteCoverage
  <2>3. CASE BindRecord(t) BY <2>3 DEF BindRecord
  <2> QED BY <1>2, <2>1, <2>2, <2>3 DEF Write
<1>3. ASSUME NEW t \in Txns, Commit(t) PROVE PublishInv'
  <2> t \in Actors BY DEF Actors
  <2>1. CASE CommitVerify(t) BY <2>1 DEF CommitVerify
  <2>2. CASE CommitSeal(t) BY <2>2 DEF CommitSeal
  <2>3. CASE CommitCheck(t)
    <3>1. UNCHANGED <<published, id, dir, entry>> BY <2>3 DEF CommitCheck
    <3>2. /\ pc[t] = "checking" /\ pc'[t] \in {"renaming", "open"}
          /\ \A b \in Actors \ {t} : pc'[b] = pc[b]
      BY <2>3 DEF CommitCheck, Actors
    <3>3. dir[t] # "published" BY <3>2
    <3> QED BY <3>1, <3>2, <3>3, PublishKept DEF Actors
  <2>4. CASE CommitRename(t) BY <2>4 DEF CommitRename
  <2>5. CASE CommitPoint(t) BY <2>5 DEF CommitPoint, Unlock
  <2> QED BY <1>3, <2>1, <2>2, <2>3, <2>4, <2>5 DEF Commit
<1>4. ASSUME NEW t \in Txns, Abort(t) PROVE PublishInv'
  <2> t \in Actors BY DEF Actors
  <2>1. CASE AbortCheck(t)
    <3>1. UNCHANGED <<published, id, dir, entry>> BY <2>1 DEF AbortCheck
    <3>2. /\ dir[t] = "building" /\ pc'[t] = "aborting"
          /\ \A b \in Actors \ {t} : pc'[b] = pc[b]
      BY <2>1 DEF AbortCheck, Actors
    <3> QED BY <3>1, <3>2, PublishKept DEF Actors
  <2>2. CASE AbortRecord(t) BY <2>2 DEF AbortRecord
  <2> QED BY <1>4, <2>1, <2>2 DEF Abort
<1>5. ASSUME NEW a \in Actors, Remove(a) PROVE PublishInv'
  <2>1. CASE RemoveValidate(a)
    <3>1. UNCHANGED <<published, id, dir>> BY <2>1 DEF RemoveValidate
    <3>2. /\ pc[a] = "validating" /\ pc'[a] \in {"isolating", "open", "idle"}
          /\ \A b \in Actors \ {a} : pc'[b] = pc[b]
      BY <2>1 DEF RemoveValidate, RemoveFail, Actors
    <3>3. \A b \in Admins \ {a} : entry'[b] = entry[b]
      BY <2>1 DEF RemoveValidate, RemoveFail
    <3>4. a \in Txns => dir[a] # "published" BY <3>2
    <3> QED BY <3>1, <3>2, <3>3, <3>4, PublishKept DEF Actors
  <2>2. CASE RemoveMove(a) BY <2>2 DEF RemoveMove, RemoveFail, Unlock, Victim
  <2>3. CASE RemoveErase(a) BY <2>3 DEF RemoveErase, RemoveFail, Unlock, Victim
  <2>4. CASE RemoveIsolate(a) BY <2>4 DEF RemoveIsolate, RemoveFail, Unlock, Victim
  <2> QED BY <1>5, <2>1, <2>2, <2>3, <2>4 DEF Remove
<1>6. ASSUME NEW a \in Admins, Recover(a) PROVE PublishInv'
  <2> a \in Actors BY DEF Actors
  <2>1. CASE RecoverList(a) BY <2>1 DEF RecoverList
  <2>2. CASE RecoverExamine(a) BY <2>2 DEF RecoverExamine
  <2>3. CASE RecoverReturn(a) BY <2>3 DEF RecoverReturn
  <2>4. CASE RecoverOpen(a) BY <2>4 DEF RecoverOpen
  <2>5. CASE RecoverLock(a)
    <3>1. UNCHANGED <<published, id, dir>> BY <2>5 DEF RecoverLock
    <3>2. pc'[a] # "selecting" /\ \A b \in Actors \ {a} : pc'[b] = pc[b] BY <2>5 DEF RecoverLock, Actors
    <3>3. \A b \in Admins \ {a} : entry'[b] = entry[b] BY <2>5 DEF RecoverLock
    <3> QED BY <3>1, <3>2, <3>3, PublishKept DEF Actors
  <2>6. CASE RecoverAge(a) BY <2>6 DEF RecoverAge, Unlock
  <2> QED BY <1>6, <2>1, <2>2, <2>3, <2>4, <2>5, <2>6 DEF Recover
<1>7. ASSUME NEW a \in Admins, Select(a) PROVE PublishInv'
  <2> a \in Actors BY DEF Actors
  <2>1. CASE SelectLoad(a) BY <2>1 DEF SelectLoad
  <2>2. CASE SelectWrite(a) BY <2>2 DEF SelectWrite
  <2> QED BY <1>7, <2>1, <2>2 DEF Select
<1>8. ASSUME NEW t \in Txns, GrowOld(t) PROVE PublishInv'
  BY <1>8 DEF GrowOld
<1>9. ASSUME NEW a \in Actors, Crash(a) PROVE PublishInv'
  BY <1>9 DEF Crash
<1>10. ASSUME NEW o \in objects, LoseObject(o) PROVE PublishInv'
  BY <1>10 DEF LoseObject
<1>11. CASE UNCHANGED vars BY <1>11 DEF vars
<1> QED
  BY <1>1, <1>2, <1>3, <1>4, <1>5, <1>6, <1>7, <1>8, <1>9, <1>10, <1>11
     DEF Next, TxnNext, AdminNext, Actors

\* Every step keeps published snapshots complete.
LEMMA CompleteStep == IInv /\ [Next]_vars => PublishedComplete'
<1> SUFFICES ASSUME IInv, [Next]_vars PROVE PublishedComplete'
  OBVIOUS
<1> USE NoneAssumption, ActorAssumption, RecordAssumption, GotoEffect
    DEF IInv, TypeOK, txnVars, diskVars, storeVars, casVars, adminVars, BeginPhases,
        CommitPhases, RemovePhases, OwnPhases, SettledPhases, ValidBuilding, AnyStatus,
        HoldsLease, LockFree, Rebound, HasBundle, Verified, DestinationFree, BeginInv,
        RecordInv, PublishInv, PublishedComplete, LeaseInv, TxnLeaseInv, AdminLeaseInv,
        FailedInv
<1>1. ASSUME NEW t \in Txns, Begin(t) PROVE PublishedComplete'
  <2> t \in Actors BY DEF Actors
  <2>1. CASE BeginDirectory(t) BY <2>1 DEF BeginDirectory
  <2>2. CASE BeginLease(t) BY <2>2 DEF BeginLease
  <2>3. CASE BeginMarker(t) BY <2>3 DEF BeginMarker, Unlock
  <2>4. CASE BeginRecord(t)
    <3>1. UNCHANGED <<published, id, dir>> BY <2>4 DEF BeginRecord
    <3>2. dir[t] = "building" BY <2>4 DEF BeginRecord
    <3>3. \A u \in Txns \ {t} : rec'[u] = rec[u] BY <2>4 DEF BeginRecord
    <3> QED BY <3>1, <3>2, <3>3, CompleteKept
  <2>5. CASE BeginAdmit(t) BY <2>5 DEF BeginAdmit, Unlock
  <2> QED BY <1>1, <2>1, <2>2, <2>3, <2>4, <2>5 DEF Begin
<1>2. ASSUME NEW t \in Txns, Write(t) PROVE PublishedComplete'
  <2> t \in Actors BY DEF Actors
  <2>1. CASE WriteBundle(t) BY <2>1 DEF WriteBundle
  <2>2. CASE WriteCoverage(t) BY <2>2 DEF WriteCoverage
  <2>3. CASE BindRecord(t) BY <2>3 DEF BindRecord
  <2> QED BY <1>2, <2>1, <2>2, <2>3 DEF Write
<1>3. ASSUME NEW t \in Txns, Commit(t) PROVE PublishedComplete'
  <2> t \in Actors BY DEF Actors
  <2>1. CASE CommitVerify(t) BY <2>1 DEF CommitVerify
  <2>2. CASE CommitSeal(t)
    <3>1. UNCHANGED <<published, id, dir>> BY <2>2 DEF CommitSeal
    <3>2. dir[t] = "building" BY <2>2 DEF CommitSeal
    <3>3. \A u \in Txns \ {t} : rec'[u] = rec[u] BY <2>2 DEF CommitSeal
    <3> QED BY <3>1, <3>2, <3>3, CompleteKept
  <2>3. CASE CommitCheck(t) BY <2>3 DEF CommitCheck
  <2>4. CASE CommitRename(t) BY <2>4 DEF CommitRename
  <2>5. CASE CommitPoint(t) BY <2>5 DEF CommitPoint, Unlock
  <2> QED BY <1>3, <2>1, <2>2, <2>3, <2>4, <2>5 DEF Commit
<1>4. ASSUME NEW t \in Txns, Abort(t) PROVE PublishedComplete'
  <2> t \in Actors BY DEF Actors
  <2>1. CASE AbortCheck(t) BY <2>1 DEF AbortCheck
  <2>2. CASE AbortRecord(t) BY <2>2 DEF AbortRecord
  <2> QED BY <1>4, <2>1, <2>2 DEF Abort
<1>5. ASSUME NEW a \in Actors, Remove(a) PROVE PublishedComplete'
  <2>1. CASE RemoveValidate(a) BY <2>1 DEF RemoveValidate, RemoveFail, Unlock, Victim
  <2>2. CASE RemoveMove(a)
    <3>1. CASE a \in Txns BY <2>2, <3>1 DEF RemoveMove, RemoveFail, Unlock, Victim
    <3>2. CASE a \in Admins BY <2>2, <3>2 DEF RemoveMove, RemoveFail, Unlock, Victim
    <3> QED BY <3>1, <3>2 DEF Actors
  <2>3. CASE RemoveErase(a)
    <3>1. CASE a \in Txns BY <2>3, <3>1 DEF RemoveErase, RemoveFail, Unlock, Victim
    <3>2. CASE a \in Admins BY <2>3, <3>2 DEF RemoveErase, RemoveFail, Unlock, Victim
    <3> QED BY <3>1, <3>2 DEF Actors
  <2>4. CASE RemoveIsolate(a) BY <2>4 DEF RemoveIsolate, RemoveFail, Unlock, Victim
  <2> QED BY <1>5, <2>1, <2>2, <2>3, <2>4 DEF Remove
<1>6. ASSUME NEW a \in Admins, Recover(a) PROVE PublishedComplete'
  <2> a \in Actors BY DEF Actors
  <2>1. CASE RecoverList(a) BY <2>1 DEF RecoverList
  <2>2. CASE RecoverExamine(a) BY <2>2 DEF RecoverExamine
  <2>3. CASE RecoverReturn(a) BY <2>3 DEF RecoverReturn
  <2>4. CASE RecoverOpen(a) BY <2>4 DEF RecoverOpen
  <2>5. CASE RecoverLock(a) BY <2>5 DEF RecoverLock
  <2>6. CASE RecoverAge(a) BY <2>6 DEF RecoverAge, Unlock
  <2> QED BY <1>6, <2>1, <2>2, <2>3, <2>4, <2>5, <2>6 DEF Recover
<1>7. ASSUME NEW a \in Admins, Select(a) PROVE PublishedComplete'
  <2> a \in Actors BY DEF Actors
  <2>1. CASE SelectLoad(a) BY <2>1 DEF SelectLoad
  <2>2. CASE SelectWrite(a) BY <2>2 DEF SelectWrite
  <2> QED BY <1>7, <2>1, <2>2 DEF Select
<1>8. ASSUME NEW t \in Txns, GrowOld(t) PROVE PublishedComplete'
  BY <1>8 DEF GrowOld
<1>9. ASSUME NEW a \in Actors, Crash(a) PROVE PublishedComplete'
  BY <1>9 DEF Crash
<1>10. ASSUME NEW o \in objects, LoseObject(o) PROVE PublishedComplete'
  BY <1>10 DEF LoseObject
<1>11. CASE UNCHANGED vars BY <1>11 DEF vars
<1> QED
  BY <1>1, <1>2, <1>3, <1>4, <1>5, <1>6, <1>7, <1>8, <1>9, <1>10, <1>11
     DEF Next, TxnNext, AdminNext, Actors

\* Every step keeps CURRENT naming a published snapshot.
LEMMA CurrentStep == IInv /\ [Next]_vars => CurrentPublished'
<1> SUFFICES ASSUME IInv, [Next]_vars PROVE CurrentPublished'
  OBVIOUS
<1> USE NoneAssumption, ActorAssumption, RecordAssumption, GotoEffect
    DEF IInv, TypeOK, txnVars, diskVars, storeVars, casVars, adminVars, BeginPhases,
        CommitPhases, RemovePhases, OwnPhases, SettledPhases, ValidBuilding, AnyStatus,
        HoldsLease, LockFree, Rebound, HasBundle, Verified, DestinationFree, PublishInv,
        CurrentPublished
<1>1. ASSUME NEW t \in Txns, Begin(t) PROVE CurrentPublished'
  <2> t \in Actors BY DEF Actors
  <2>1. CASE BeginDirectory(t) BY <2>1 DEF BeginDirectory
  <2>2. CASE BeginLease(t) BY <2>2 DEF BeginLease
  <2>3. CASE BeginMarker(t) BY <2>3 DEF BeginMarker, Unlock
  <2>4. CASE BeginRecord(t) BY <2>4 DEF BeginRecord, Unlock
  <2>5. CASE BeginAdmit(t) BY <2>5 DEF BeginAdmit, Unlock
  <2> QED BY <1>1, <2>1, <2>2, <2>3, <2>4, <2>5 DEF Begin
<1>2. ASSUME NEW t \in Txns, Write(t) PROVE CurrentPublished'
  <2> t \in Actors BY DEF Actors
  <2>1. CASE WriteBundle(t) BY <2>1 DEF WriteBundle
  <2>2. CASE WriteCoverage(t) BY <2>2 DEF WriteCoverage
  <2>3. CASE BindRecord(t) BY <2>3 DEF BindRecord
  <2> QED BY <1>2, <2>1, <2>2, <2>3 DEF Write
<1>3. ASSUME NEW t \in Txns, Commit(t) PROVE CurrentPublished'
  <2> t \in Actors BY DEF Actors
  <2>1. CASE CommitVerify(t) BY <2>1 DEF CommitVerify
  <2>2. CASE CommitSeal(t) BY <2>2 DEF CommitSeal
  <2>3. CASE CommitCheck(t) BY <2>3 DEF CommitCheck
  <2>4. CASE CommitRename(t) BY <2>4 DEF CommitRename
  <2>5. CASE CommitPoint(t) BY <2>5 DEF CommitPoint, Unlock
  <2> QED BY <1>3, <2>1, <2>2, <2>3, <2>4, <2>5 DEF Commit
<1>4. ASSUME NEW t \in Txns, Abort(t) PROVE CurrentPublished'
  <2> t \in Actors BY DEF Actors
  <2>1. CASE AbortCheck(t) BY <2>1 DEF AbortCheck
  <2>2. CASE AbortRecord(t) BY <2>2 DEF AbortRecord
  <2> QED BY <1>4, <2>1, <2>2 DEF Abort
<1>5. ASSUME NEW a \in Actors, Remove(a) PROVE CurrentPublished'
  <2>1. CASE RemoveValidate(a) BY <2>1 DEF RemoveValidate, RemoveFail, Unlock, Victim
  <2>2. CASE RemoveMove(a) BY <2>2 DEF RemoveMove, RemoveFail, Unlock, Victim
  <2>3. CASE RemoveErase(a) BY <2>3 DEF RemoveErase, RemoveFail, Unlock, Victim
  <2>4. CASE RemoveIsolate(a) BY <2>4 DEF RemoveIsolate, RemoveFail, Unlock, Victim
  <2> QED BY <1>5, <2>1, <2>2, <2>3, <2>4 DEF Remove
<1>6. ASSUME NEW a \in Admins, Recover(a) PROVE CurrentPublished'
  <2> a \in Actors BY DEF Actors
  <2>1. CASE RecoverList(a) BY <2>1 DEF RecoverList
  <2>2. CASE RecoverExamine(a) BY <2>2 DEF RecoverExamine
  <2>3. CASE RecoverReturn(a) BY <2>3 DEF RecoverReturn
  <2>4. CASE RecoverOpen(a) BY <2>4 DEF RecoverOpen
  <2>5. CASE RecoverLock(a) BY <2>5 DEF RecoverLock
  <2>6. CASE RecoverAge(a) BY <2>6 DEF RecoverAge, Unlock
  <2> QED BY <1>6, <2>1, <2>2, <2>3, <2>4, <2>5, <2>6 DEF Recover
<1>7. ASSUME NEW a \in Admins, Select(a) PROVE CurrentPublished'
  <2> a \in Actors BY DEF Actors
  <2>1. CASE SelectLoad(a) BY <2>1 DEF SelectLoad
  <2>2. CASE SelectWrite(a) BY <2>2 DEF SelectWrite
  <2> QED BY <1>7, <2>1, <2>2 DEF Select
<1>8. ASSUME NEW t \in Txns, GrowOld(t) PROVE CurrentPublished'
  BY <1>8 DEF GrowOld
<1>9. ASSUME NEW a \in Actors, Crash(a) PROVE CurrentPublished'
  BY <1>9 DEF Crash
<1>10. ASSUME NEW o \in objects, LoseObject(o) PROVE CurrentPublished'
  BY <1>10 DEF LoseObject
<1>11. CASE UNCHANGED vars BY <1>11 DEF vars
<1> QED
  BY <1>1, <1>2, <1>3, <1>4, <1>5, <1>6, <1>7, <1>8, <1>9, <1>10, <1>11
     DEF Next, TxnNext, AdminNext, Actors

-----------------------------------------------------------------------------
(***************************************************************************)
(* The theorems.                                                           *)
(***************************************************************************)

\* A fresh store satisfies the inductive invariant.
LEMMA InitInv == Init => IInv
<1> SUFFICES ASSUME Init PROVE IInv
  OBVIOUS
<1> USE NoneAssumption DEF Init
<1>1. TypeOK
  <2>1. lost \in [Txns -> SUBSET Object] /\ litter \in BOOLEAN /\ objects \subseteq Object OBVIOUS
  <2>2. mem \in [Txns -> Record] BY DEF Record, EmptyRecord
  <2> QED BY <2>1, <2>2, PhaseType, MishapAssumption DEF TypeOK
<1>2. BeginInv
  BY DEF BeginInv, BeginPhases, CommitPhases, RemovePhases, Actors
<1>3. LeaseInv
  BY ActorAssumption DEF LeaseInv, TxnLeaseInv, AdminLeaseInv, FailedInv, OwnPhases,
     CommitPhases, RemovePhases, Actors
<1>4. RecordInv
  BY DEF RecordInv, EmptyRecord, BeginPhases, CommitPhases, Actors
<1>5. PublishInv /\ PublishedComplete /\ CurrentPublished
  BY DEF PublishInv, PublishedComplete, CurrentPublished, Actors
<1> QED
  BY <1>1, <1>2, <1>3, <1>4, <1>5 DEF IInv

\* IInv is an invariant of the store, for every value of the constants.
THEOREM Invariance == Spec => []IInv
<1>1. IInv /\ [Next]_vars => IInv'
  BY TypeStep, BeginStep, TxnLeaseStep, AdminLeaseStep, FailedStep, RecordStep, PublishStep,
     CompleteStep, CurrentStep DEF IInv, LeaseInv
<1> QED
  BY InitInv, <1>1, PTL DEF Spec

\* Every reachable state of the store is well typed.
THEOREM TypeCorrect == Spec => []TypeOK
BY Invariance, PTL DEF IInv

\* No recovery, crash or competing transaction takes a live build away from
\* its owner (store.go Begin, Recover).
THEOREM LiveBuilds == Spec => []LiveBuildKept
<1>1. IInv => LiveBuildKept
  BY DEF IInv, BeginInv, LeaseInv, TxnLeaseInv, FailedInv, LiveBuildKept, Live,
     OwnPhases, CommitPhases
<1> QED
  BY <1>1, Invariance, PTL

\* A published snapshot is complete, whatever objects are lost elsewhere
\* (store.go Commit).
THEOREM SnapshotsComplete == Spec => []PublishedComplete
BY Invariance, PTL DEF IInv

\* CURRENT names only published snapshots, at every crash point of Commit and
\* beside any SetCurrent (store.go Commit, SetCurrent).
THEOREM CurrentIsPublished == Spec => []CurrentPublished
BY Invariance, PTL DEF IInv

\* Only the holder of its lease moves a building directory away
\* (store.go removeBuildingDirectory).
THEOREM LeasedRemoval == Spec => RemovalUnderLease
<1>1. ASSUME IInv, [Next]_vars, NEW t \in Txns, dir[t] = "building", dir'[t] = "quarantine"
      PROVE  \E a \in Actors : pc[a] = "moving" /\ Victim(a) = t /\ lock[t] = a
  <2> USE <1>1 DEF IInv, TypeOK, txnVars, diskVars, storeVars, casVars, adminVars
  <2>1. ASSUME NEW u \in Txns, Begin(u) \/ Write(u) \/ Commit(u) \/ Abort(u) PROVE FALSE
    BY <2>1 DEF Begin, BeginDirectory, BeginLease, BeginMarker, BeginRecord, BeginAdmit,
       Write, WriteBundle, WriteCoverage, BindRecord, Commit, CommitVerify, CommitSeal,
       CommitCheck, CommitRename, CommitPoint, Abort, AbortCheck, AbortRecord
  <2>2. ASSUME NEW a \in Actors, Remove(a) PROVE pc[a] = "moving" /\ Victim(a) = t
    BY <2>2 DEF Remove, RemoveValidate, RemoveIsolate, RemoveMove, RemoveErase
  <2>3. ASSUME NEW a \in Admins, Recover(a) \/ Select(a) PROVE FALSE
    BY <2>3 DEF Recover, RecoverList, RecoverExamine, RecoverReturn, RecoverOpen,
       RecoverLock, RecoverAge, Select, SelectLoad, SelectWrite
  <2>4. ASSUME NEW a \in Actors, pc[a] = "moving" /\ Victim(a) = t PROVE lock[t] = a
    BY <2>4 DEF LeaseInv, TxnLeaseInv, AdminLeaseInv, Actors, Victim, RemovePhases
  <2>5. ~UNCHANGED vars /\ (\A u \in Txns : ~GrowOld(u)) /\ (\A a \in Actors : ~Crash(a))
          /\ (\A o \in objects : ~LoseObject(o))
    BY DEF vars, GrowOld, Crash, LoseObject
  <2> QED
    BY <2>1, <2>2, <2>3, <2>4, <2>5 DEF Next, TxnNext, AdminNext, Actors
<1>2. IInv /\ [Next]_vars =>
        [\A t \in Txns : dir[t] = "building" /\ dir'[t] = "quarantine" =>
           \E a \in Actors : pc[a] = "moving" /\ Victim(a) = t /\ lock[t] = a]_vars
  BY <1>1
<1> QED
  BY <1>2, Invariance, PTL DEF RemovalUnderLease, Spec

\* A published snapshot is neither replaced, removed nor rewritten
\* (store.go Commit, Abort, Recover).
THEOREM Permanence == Spec => PublishedForever
<1>1. ASSUME IInv, [Next]_vars, NEW i \in SnapIds, published[i] # None
      PROVE  /\ published'[i] = published[i]
             /\ dir'[published[i]] = "published"
             /\ rec'[published[i]] = rec[published[i]]
  <2> DEFINE p == published[i]
  <2>1. p \in Txns /\ dir[p] = "published" /\ id[p] = i /\ pc[p] \in {"pointing", "done", "dead"}
    BY <1>1 DEF IInv, TypeOK, PublishInv, PublishedComplete, SettledPhases
  <2> HIDE DEF p
  <2> USE <1>1, <2>1, NoneAssumption, ActorAssumption
      DEF IInv, TypeOK, txnVars, diskVars, storeVars, casVars, adminVars
  <2>2. ASSUME NEW t \in Txns, Begin(t)
        PROVE  published' = published /\ dir'[p] = "published" /\ rec'[p] = rec[p]
    BY <2>2 DEF Begin, BeginDirectory, BeginLease, BeginMarker, BeginRecord, BeginAdmit
  <2>3. ASSUME NEW t \in Txns, Write(t) \/ Abort(t)
        PROVE  published' = published /\ dir'[p] = "published" /\ rec'[p] = rec[p]
    BY <2>3 DEF Write, WriteBundle, WriteCoverage, BindRecord, Abort, AbortCheck, AbortRecord
  <2>4. ASSUME NEW t \in Txns, Commit(t)
        PROVE  published'[i] = published[i] /\ dir'[p] = "published" /\ rec'[p] = rec[p]
    BY <2>4 DEF Commit, CommitVerify, CommitSeal, CommitCheck, CommitRename, CommitPoint,
       DestinationFree
  <2>5. ASSUME NEW a \in Actors, Remove(a)
        PROVE  published' = published /\ dir'[p] = "published" /\ rec'[p] = rec[p]
    <3>1. pc[a] = "moving" \/ pc[a] = "erasing" => Victim(a) # p
      BY <2>5 DEF Victim, Actors, LeaseInv, TxnLeaseInv, AdminLeaseInv
    <3> QED
      BY <2>5, <3>1 DEF Remove, RemoveValidate, RemoveIsolate, RemoveMove, RemoveErase
  <2>6. ASSUME NEW a \in Admins, Recover(a) \/ Select(a)
        PROVE  published' = published /\ dir' = dir /\ rec' = rec
    BY <2>6 DEF Recover, RecoverList, RecoverExamine, RecoverReturn, RecoverOpen,
       RecoverLock, RecoverAge, Select, SelectLoad, SelectWrite
  <2>7. ASSUME \/ UNCHANGED vars \/ \E t \in Txns : GrowOld(t)
               \/ \E a \in Actors : Crash(a) \/ \E o \in objects : LoseObject(o)
        PROVE  published' = published /\ dir' = dir /\ rec' = rec
    BY <2>7 DEF vars, GrowOld, Crash, LoseObject
  <2> QED
    BY <2>2, <2>3, <2>4, <2>5, <2>6, <2>7 DEF Next, TxnNext, AdminNext, Actors, p
<1>2. IInv /\ [Next]_vars =>
        [\A i \in SnapIds : published[i] # None =>
           /\ published'[i] = published[i]
           /\ dir'[published[i]] = "published"
           /\ rec'[published[i]] = rec[published[i]]]_vars
  BY <1>1
<1> QED
  BY <1>2, Invariance, PTL DEF PublishedForever, Spec

\* Whatever is missing when a rename publishes a snapshot went after this very
\* Commit had verified it (store.go Commit).
THEOREM PublishedIntact == Spec => PublishesIntact
<1>1. ASSUME IInv, [Next]_vars, NEW i \in SnapIds, published[i] # published'[i]
      PROVE  LET u == published'[i] IN RecordObjects(i, rec'[u]) \subseteq objects' \cup lost'[u]
  <2>1. PICK t \in Txns : CommitRename(t)
    <3> USE <1>1 DEF txnVars, diskVars, storeVars, casVars, adminVars
    <3>1. ASSUME NEW t \in Txns, Begin(t) \/ Write(t) \/ Abort(t) PROVE FALSE
      BY <3>1 DEF Begin, BeginDirectory, BeginLease, BeginMarker, BeginRecord, BeginAdmit,
         Write, WriteBundle, WriteCoverage, BindRecord, Abort, AbortCheck, AbortRecord
    <3>2. ASSUME NEW t \in Txns, Commit(t) PROVE CommitRename(t)
      BY <3>2 DEF Commit, CommitVerify, CommitSeal, CommitCheck, CommitPoint
    <3>3. ASSUME NEW a \in Actors, Remove(a) PROVE FALSE
      BY <3>3 DEF Remove, RemoveValidate, RemoveIsolate, RemoveMove, RemoveErase
    <3>4. ASSUME NEW a \in Admins, Recover(a) \/ Select(a) PROVE FALSE
      BY <3>4 DEF Recover, RecoverList, RecoverExamine, RecoverReturn, RecoverOpen,
         RecoverLock, RecoverAge, Select, SelectLoad, SelectWrite
    <3>5. ~UNCHANGED vars /\ (\A u \in Txns : ~GrowOld(u)) /\ (\A a \in Actors : ~Crash(a))
            /\ (\A o \in objects : ~LoseObject(o))
      BY DEF vars, GrowOld, Crash, LoseObject
    <3> QED
      BY <3>1, <3>2, <3>3, <3>4, <3>5 DEF Next, TxnNext, AdminNext, Actors
  <2>2. /\ pc[t] = "renaming" /\ id[t] = i /\ published' = [published EXCEPT ![i] = t]
        /\ rec' = rec /\ UNCHANGED casVars
    BY <1>1, <2>1 DEF CommitRename, IInv, TypeOK, BeginInv, txnVars, storeVars, casVars
  <2>3. rec[t] = mem[t] /\ RecordObjects(i, mem[t]) \subseteq objects \cup lost[t]
    BY <1>1, <2>2 DEF IInv, RecordInv, CommitPhases
  <2>4. published'[i] = t
    BY <1>1, <2>2 DEF IInv, TypeOK
  <2> QED
    BY <2>2, <2>3, <2>4 DEF casVars
<1>2. IInv /\ [Next]_vars =>
        [\A i \in SnapIds : published[i] # published'[i] =>
           LET t == published'[i]
           IN  RecordObjects(i, rec'[t]) \subseteq objects' \cup lost'[t]]_vars
  BY <1>1
<1> QED
  BY <1>2, Invariance, PTL DEF PublishesIntact, Spec

-----------------------------------------------------------------------------
(***************************************************************************)
(* The publication of a generated directory.  Identities say where each    *)
(* directory can be: at one path at most, at none before it is built, and  *)
(* never at another's quarantine without a journal that names it.          *)
(***************************************************************************)
Unbuilt(d) ==
  /\ staging[d] = NoDir /\ quar[d].ver = 0 /\ target # d
  /\ \A q \in Dirs : staging[q] # d /\ quar[q].payload # d

Blank == \A d \in Dirs : state[d] = "free" => Unbuilt(d)

\* A directory has one owner, who has built it exactly when Begin is over.
Owners == \A p \in Publishers : place[p] # "idle" =>
  /\ mine[p] \in Dirs
  /\ role[p] = "recover" <=> state[mine[p]] = "free"
  /\ \A o \in Publishers : place[o] # "idle" /\ mine[o] = mine[p] => o = p

OnePayload ==
  \A q, r \in Dirs : quar[q].payload # NoDir /\ quar[q].payload = quar[r].payload => q = r

\* Where a publisher can stand in the role it has.
Recovering ==
  {"scan", "judge", "restore", "restored", "move", "moveBack", "note", "purge", "removing",
   "unlist", "rmdir", "check"}
Unjournalled == {"commit", "prior", "publish", "verifyNew", "journal"}
Swapping == {"exchange", "verify", "rollback", "unwind", "exchanged"}
Renaming == {"quarantine", "quarantined", "place", "putBack"}
Committing ==
  {"commit", "prior", "publish", "verifyNew", "journal", "exchange", "verify", "rollback", "unwind",
   "exchanged", "quarantine", "quarantined", "place", "putBack", "finish", "settle", "purge",
   "removing", "unlist", "rmdir", "abort"}

OutputRoles == \A p \in Publishers : place[p] # "idle" =>
  /\ role[p] = "recover" => place[p] \in Recovering
  /\ role[p] = "commit" => place[p] \in Committing
  /\ role[p] = "withdraw" => place[p] \in {"unlist", "rmdir", "abort"}
  /\ place[p] \in Swapping => exchanging

\* Where a publisher works in a quarantine it has made or found.
Journalled ==
  {"judge", "restore", "restored", "move", "moveBack", "note", "purge", "removing", "unlist",
   "rmdir", "exchange", "verify", "rollback", "unwind", "exchanged", "quarantine", "quarantined",
   "place", "putBack", "finish", "settle"}

\* The quarantine of a directory is made once, by its owner; whoever works in it
\* has seen it, and the owner knows what it has written there.
MadeOnce ==
  \A q \in Dirs : quar[q].ver = 0 => ~quar[q].root /\ ~quar[q].record /\ quar[q].payload = NoDir

Unmade == \A p \in Publishers : place[p] \in Unjournalled => quar[mine[p]].ver = 0

Seen == \A p \in Publishers : place[p] # "idle" =>
  /\ \A q \in unseen[p] : quar[q].ver > 0
  /\ place[p] \in Journalled => journal[p] \in Dirs /\ quar[journal[p]].ver > 0

Written == \A p \in Publishers :
  /\ place[p] = "journal" => prior[p] # NoDir
  /\ place[p] \in Journalled /\ role[p] # "recover" =>
       /\ journal[p] = mine[p] /\ quar[mine[p]].prior = prior[p]
       /\ prior[p] # NoDir /\ doomed[p] = prior[p]

\* The owner's own directory, until it is published or others learn of it.
Built == \A p \in Publishers :
  /\ place[p] = "commit" => staging[mine[p]] = mine[p] /\ state[mine[p]] = "staging"
  /\ place[p] \in {"prior", "publish", "journal"} =>
       staging[mine[p]] = mine[p] /\ state[mine[p]] = "final"
  /\ place[p] = "verifyNew" => staging[mine[p]] = NoDir

OutputBase ==
  /\ OutputTypeOK /\ Blank /\ Owners /\ OnePayload /\ OutputRoles
  /\ MadeOnce /\ Unmade /\ Seen /\ Written /\ Built

\* With an exchange, beside any others: what is removed has left its path, so that
\* no recovery finds a target missing, and what may come back to it is complete.
ReadyBack == \A q \in Dirs :
  /\ staging[q] \notin {NoDir, q} => state[staging[q]] \in {"final", "edited"}
  /\ staging[q] = q => state[q] \in {"staging", "final", "edited"}
  /\ quar[q].payload # NoDir => staging[q] = NoDir

NoneRenames == \A p \in Publishers :
  place[p] \notin Renaming /\ place[p] \notin {"restore", "restored", "moveBack"}

SwapsBuilt == \A p \in Publishers :
  place[p] = "exchange" /\ staging[mine[p]] = mine[p] => state[mine[p]] \in {"final", "edited"}

AwayFirst == \A p \in Publishers : place[p] = "removing" =>
  /\ staging[journal[p]] = NoDir
  /\ quar[journal[p]].payload # NoDir => state[quar[journal[p]].payload] = "torn"

UsersOwn == \A u \in UserDirs : state[u] = "edited"

Exchanged == TargetComplete /\ ReadyBack /\ NoneRenames /\ SwapsBuilt /\ AwayFirst /\ UsersOwn

\* What the two directories of a journal look like while a publication, or the
\* recovery that completes or undoes it, works on them alone.
Away(q) == TargetMissing(q) /\ state[q] = "final"
Shelved(q) == PriorQuarantined(q) /\ staging[q] = NoDir
Tearing(q) ==
  /\ Published(q) /\ staging[q] = NoDir
  /\ quar[q].payload = quar[q].prior /\ state[quar[q].prior] = "torn"
Undoing(q) == Sound(target, quar[q].prior) /\ staging[q] = NoDir /\ quar[q].payload = q
Undone(q) == Sound(target, quar[q].prior) /\ staging[q] = NoDir /\ quar[q].payload = NoDir

\* Nobody works on it: the next recovery understands it, or a fault struck before.
SetAside(q) == target = NoDir => Sound(quar[q].payload, quar[q].prior)
Unattended(q) == Recoverable(q) \/ (deep /\ SetAside(q))

OneWorks == \A p, o \in Publishers : place[p] # "idle" /\ place[o] # "idle" => p = o

NoJournal == \A q \in Dirs : ~quar[q].record

Completing(p) == doomed[p] = quar[journal[p]].prior
Reverting(p) == doomed[p] = journal[p] /\ role[p] = "recover"

\* What stands on disk where a publisher stands.
OnDisk(p) ==
  LET q == journal[p]
  IN /\ place[p] = "scan" => \A r \in Dirs : quar[r].record => r \in unseen[p] /\ Unattended(r)
     /\ place[p] \in {"check", "rmdir"} \/ place[p] \in Unjournalled => NoJournal
     /\ place[p] = "abort" =>
          \A r \in Dirs : quar[r].record => Unattended(r) /\ (deep \/ staging[r] # mine[p])
     /\ place[p] \in Journalled /\ place[p] # "rmdir" =>
          quar[q].record /\ known[p] = quar[q].ver
     /\ place[p] = "judge" => Unattended(q)
     /\ place[p] = "restore" => Away(q) /\ Reverting(p)
     /\ place[p] \in {"restored", "moveBack"} => NotExchanged(q) /\ Reverting(p)
     /\ place[p] = "move" => (Completing(p) /\ PriorStaged(q)) \/ (Reverting(p) /\ NotExchanged(q))
     /\ place[p] \in {"note", "settle", "purge"} =>
          (Completing(p) /\ Shelved(q)) \/ (Reverting(p) /\ Undoing(q) /\ state[q] = "final")
     /\ place[p] = "removing" => Tearing(q) \/ (Reverting(p) /\ Undoing(q))
     /\ place[p] = "unlist" =>
          IF role[p] = "withdraw" THEN NotExchanged(q)
          ELSE PriorRemoved(q) \/ (Reverting(p) /\ Undone(q))
     /\ place[p] \in {"exchange", "quarantine", "unwind"} => NotExchanged(q)
     /\ place[p] \in {"verify", "rollback", "exchanged"} => PriorStaged(q)
     /\ place[p] \in {"quarantined", "place", "putBack"} => Away(q)
     /\ place[p] = "finish" => IF exchanging THEN PriorStaged(q) ELSE Shelved(q)
     /\ place[p] = "publish" => target = NoDir
     /\ place[p] = "journal" => target = prior[p]
     /\ place[p] = "verifyNew" => target = mine[p]

OneJournal == \A q \in Dirs :
  /\ ~quar[q].record => quar[q].payload = NoDir
  /\ quar[q].record =>
       /\ quar[q].root /\ quar[q].prior \notin {NoDir, q}
       /\ staging[q] \in {NoDir, q, quar[q].prior}
       /\ staging[q] = q => state[q] = "final"
       /\ \A r \in Dirs : quar[r].record => q = r

TargetFinal == target # NoDir => state[target] = "final"

\* Publications one after the other, and no user, on every platform.
Sequential ==
  /\ OneWorks /\ TargetFinal /\ OneJournal
  /\ \A p \in Publishers : place[p] # "idle" => OnDisk(p)
  /\ (\A p \in Publishers : place[p] = "idle") => \A q \in Dirs : quar[q].record => Unattended(q)

OutputInv ==
  /\ OutputBase
  /\ exchanging => Exchanged
  /\ ~met /\ edits = 0 => Sequential

\* What every step leaves to the platform and to history.
Beside ==
  /\ exchanging' = exchanging
  /\ met' = (met \/ \E p, o \in Publishers : p # o /\ place'[p] # "idle" /\ place'[o] # "idle")

\* A publisher at work has a directory, and so has the journal it works in.
LEMMA WorkerFacts ==
  ASSUME OutputBase, NEW p \in Publishers, place[p] # "idle"
  PROVE  /\ mine[p] \in Dirs
         /\ place[p] \in Journalled =>
              /\ journal[p] \in Dirs /\ quar[journal[p]].ver > 0
              /\ role[p] # "recover" =>
                   /\ journal[p] = mine[p] /\ quar[mine[p]].prior = prior[p]
                   /\ prior[p] # NoDir /\ doomed[p] = prior[p]
         /\ \A o \in Publishers : place[o] # "idle" => mine[o] \in Dirs
         /\ \A o \in Publishers \ {p} : place[o] # "idle" => mine[o] # mine[p]
         /\ \A o \in Publishers : place[o] \in Unjournalled => mine[o] \in Dirs /\ quar[mine[o]].ver = 0
         /\ \A o \in Publishers : place[o] = "removing" =>
              journal[o] \in Dirs /\ quar[journal[o]].ver > 0
<1>1. \A o \in Publishers : place[o] = "removing" => journal[o] \in Dirs /\ quar[journal[o]].ver > 0
  BY DEF OutputBase, Seen, Journalled
<1> QED  BY <1>1 DEF OutputBase, Owners, Seen, Written, Unmade, Unjournalled

\* What is being built is at its own path and nowhere else.
LEMMA BuiltFacts ==
  ASSUME OutputAssumption, OutputBase, NEW o \in Publishers, place[o] \in {"commit", "prior", "publish", "journal"}
  PROVE  /\ mine[o] \in Dirs /\ staging[mine[o]] = mine[o] /\ target # mine[o]
         /\ \A r \in Dirs : quar[r].payload # mine[o] /\ (staging[r] = mine[o] => r = mine[o])
  BY DEF OutputAssumption, OutputBase, OutputTypeOK, OnePlace, Owners, Built

\* A step after which publications still went one after the other.
LEMMA AloneFacts ==
  ASSUME OutputInv, Beside, ~met', edits = 0, NEW p \in Publishers, place[p] # "idle"
  PROVE  /\ Sequential /\ OneWorks' /\ OnDisk(p)
         /\ \A o \in Publishers : o # p => place[o] = "idle"
  BY DEF OutputInv, Beside, OneWorks, Sequential

\* Where there is a journal it is the only one, and where there is none nothing is
\* in a quarantine.
LEMMA JournalFacts ==
  ASSUME OutputTypeOK, Sequential, NEW p \in Publishers, place[p] # "idle"
  PROVE  /\ place[p] \in Journalled /\ place[p] # "rmdir" /\ journal[p] \in Dirs =>
              /\ quar[journal[p]].record /\ quar[journal[p]].root
              /\ known[p] = quar[journal[p]].ver
              /\ quar[journal[p]].prior \notin {NoDir, journal[p]}
              /\ staging[journal[p]] \in {NoDir, journal[p], quar[journal[p]].prior}
              /\ staging[journal[p]] = journal[p] => state[journal[p]] = "final"
              /\ \A r \in Dirs : r # journal[p] => ~quar[r].record /\ quar[r].payload = NoDir
              /\ quar[journal[p]].prior \in Dirs \cup UserDirs
              /\ target # NoDir => target # staging[journal[p]] /\ target # quar[journal[p]].payload
              /\ staging[journal[p]] # NoDir => staging[journal[p]] # quar[journal[p]].payload
         /\ place[p] \in {"check", "rmdir"} \/ place[p] \in Unjournalled =>
              \A r \in Dirs : ~quar[r].record /\ quar[r].payload = NoDir
         /\ target # NoDir => target \in Dirs \cup UserDirs /\ state[target] = "final"
  BY DEF OutputTypeOK, OnePlace, OutputTypes, Paths, Sequential, OneJournal, TargetFinal, OnDisk, NoJournal

\* What a step does to a quarantine, field by field.
Quarantine == [root : BOOLEAN, record : BOOLEAN, ver : Nat, prior : Paths, payload : Paths]

PayloadBecomes(j, d) ==
  /\ quar' \in [Dirs -> Quarantine]
  /\ \A r \in Dirs :
       /\ quar'[r].root = quar[r].root /\ quar'[r].record = quar[r].record
       /\ quar'[r].ver = quar[r].ver /\ quar'[r].prior = quar[r].prior
       /\ quar'[r].payload = IF r = j THEN d ELSE quar[r].payload

JournalBecomes(j, root, record, ver) ==
  /\ quar' \in [Dirs -> Quarantine]
  /\ \A r \in Dirs :
       /\ quar'[r].prior = quar[r].prior /\ quar'[r].payload = quar[r].payload
       /\ r # j => quar'[r].root = quar[r].root /\ quar'[r].record = quar[r].record /\ quar'[r].ver = quar[r].ver
  /\ (quar'[j].root <=> root) /\ (quar'[j].record <=> record) /\ quar'[j].ver = ver

LEMMA PayloadFacts ==
  ASSUME quar \in [Dirs -> Quarantine], NEW j \in Dirs, NEW d \in Paths,
         quar' = [quar EXCEPT ![j].payload = d]
  PROVE  PayloadBecomes(j, d)
  BY DEF PayloadBecomes, Quarantine

LEMMA UpdateFacts ==
  ASSUME quar \in [Dirs -> Quarantine], NEW j \in Dirs, quar[j].root,
         quar' = [quar EXCEPT ![j] = Rewritten(@)]
  PROVE  JournalBecomes(j, TRUE, TRUE, quar[j].ver + 1)
<1> DEFINE file == Rewritten(quar[j])
<1>1. /\ file \in Quarantine /\ file.record /\ file.ver = quar[j].ver + 1
      /\ file.root = quar[j].root /\ file.prior = quar[j].prior /\ file.payload = quar[j].payload
  BY DEF Quarantine, Rewritten
<1>2. quar' = [quar EXCEPT ![j] = file]
  OBVIOUS
<1> HIDE DEF file
<1>3. quar'[j] = file /\ quar' \in [Dirs -> Quarantine] /\ \A r \in Dirs : r # j => quar'[r] = quar[r]
  BY <1>1, <1>2
<1> QED  BY <1>1, <1>3 DEF JournalBecomes

LEMMA UnlistFacts ==
  ASSUME quar \in [Dirs -> Quarantine], NEW j \in Dirs,
         quar' = [quar EXCEPT ![j].record = FALSE]
  PROVE  JournalBecomes(j, quar[j].root, FALSE, quar[j].ver)
  BY DEF JournalBecomes, Quarantine

LEMMA RmdirFacts ==
  ASSUME quar \in [Dirs -> Quarantine], NEW j \in Dirs,
         quar' = [quar EXCEPT ![j].root = FALSE]
  PROVE  JournalBecomes(j, FALSE, quar[j].record, quar[j].ver)
  BY DEF JournalBecomes, Quarantine

\* A journal that is made.
JournalMade(j, x) ==
  /\ quar' \in [Dirs -> Quarantine]
  /\ \A r \in Dirs : r # j =>
       /\ quar'[r].root = quar[r].root /\ quar'[r].record = quar[r].record
       /\ quar'[r].ver = quar[r].ver /\ quar'[r].prior = quar[r].prior
       /\ quar'[r].payload = quar[r].payload
  /\ quar'[j].root /\ quar'[j].record /\ quar'[j].ver = 1 /\ quar'[j].prior = x /\ quar'[j].payload = NoDir

LEMMA MadeFacts ==
  ASSUME quar \in [Dirs -> Quarantine], NEW p \in Publishers, mine[p] \in Dirs, prior[p] \in Paths,
         NoDir \in Paths, quar' = [quar EXCEPT ![mine[p]] = JournalOf(p)]
  PROVE  JournalMade(mine[p], prior[p])
  BY DEF JournalMade, JournalOf, Quarantine

\* Who gives up leaves the disk as it is.
LEMMA GiveUp ==
  ASSUME OutputInv, Beside, NEW p \in Publishers, place[p] # "idle", NEW w \in {"idle", "abort"},
         w = "abort" => role[p] # "recover",
         place' = [place EXCEPT ![p] = w], role' \in {role, [role EXCEPT ![p] = "withdraw"]},
         UNCHANGED <<onDisk, mine, prior, unseen, matched, journal, known, doomed>>,
         strikes' \in 0..MaxStrikes, edits' = edits, deep' \in BOOLEAN
  PROVE  OutputBase' /\ (exchanging => Exchanged')
<1> USE DEF OutputBase, OutputInv, onDisk
<1>1. OutputTypes'
  BY DEF OutputTypeOK, OutputTypes, OutputPlaces, Beside
<1>2. OnePlace' /\ OnePayload'
  BY DEF OutputTypeOK, OnePlace, OnePayload
<1>3. Blank' /\ Owners'
  BY DEF OutputTypeOK, OutputTypes, Owners, Blank, Unbuilt
<1>4. OutputRoles'
  BY DEF OutputTypeOK, OutputTypes, OutputRoles, Committing, Swapping, Beside
<1>5. MadeOnce' /\ Unmade'
  BY DEF OutputTypeOK, OutputTypes, MadeOnce, Unmade, Unjournalled
<1>6. Seen' /\ Written'
  BY DEF OutputTypeOK, OutputTypes, Seen, Written, Journalled
<1>7. Built'
  BY DEF OutputTypeOK, OutputTypes, Built
<1>8. exchanging => Exchanged'
  <2>1. exchanging => TargetComplete' /\ ReadyBack'
    BY DEF Exchanged, TargetComplete, ReadyBack
  <2>2. exchanging => NoneRenames' /\ SwapsBuilt'
    BY DEF OutputTypeOK, OutputTypes, Exchanged, NoneRenames, SwapsBuilt, Renaming
  <2>3. exchanging => AwayFirst'
    BY DEF OutputTypeOK, OutputTypes, Exchanged, AwayFirst
  <2>4. exchanging => UsersOwn'
    BY DEF Exchanged, UsersOwn
  <2> QED  BY <2>1, <2>2, <2>3, <2>4 DEF Exchanged
<1> QED  BY <1>1, <1>2, <1>3, <1>4, <1>5, <1>6, <1>7, <1>8 DEF OutputTypeOK


\* What is to be said of a journal, and of where its publisher stands, after a step.
LEMMA OnlyJournal ==
  ASSUME NEW j \in Dirs, \A r \in Dirs : r # j => ~quar'[r].record /\ quar'[r].payload = NoDir,
         quar'[j].record, quar'[j].root, quar'[j].prior # NoDir, quar'[j].prior # j,
         staging'[j] \in {NoDir, j, quar'[j].prior}, staging'[j] = j => state'[j] = "final"
  PROVE  OneJournal'
<1>1. \A r \in Dirs : r = j \/ (~quar'[r].record /\ quar'[r].payload = NoDir)
  OBVIOUS
<1> QED  BY <1>1 DEF OneJournal

LEMMA StagingGone ==
  ASSUME OneJournal, quar' = quar, OutputAssumption,
         \A r \in Dirs : staging'[r] # NoDir => staging'[r] = staging[r] /\ (staging[r] = r => state'[r] = state[r])
  PROVE  OneJournal'
  BY DEF OneJournal, OutputAssumption

LEMMA AbandonedBeside ==
  ASSUME NEW r \in Dirs, Unattended(r), target' = target, quar'[r].payload = quar[r].payload,
         quar'[r].prior = quar[r].prior, target # NoDir => state'[target] = state[target], deep' <=> deep,
         quar[r].payload # NoDir => state'[quar[r].payload] = state[quar[r].payload],
         ~deep => staging'[r] = staging[r] /\ (staging[r] # NoDir => state'[staging[r]] = state[staging[r]])
  PROVE  Unattended(r)'
<1>1. CASE deep
  BY <1>1 DEF Unattended, SetAside, Recoverable, PriorStaged, PriorQuarantined, PriorRemoved, NotExchanged,
              TargetMissing, Published, Sound
<1>2. CASE ~deep
  BY <1>2 DEF Unattended, SetAside, Recoverable, PriorStaged, PriorQuarantined, PriorRemoved, NotExchanged,
              TargetMissing, Published, Sound
<1> QED  BY <1>1, <1>2

LEMMA AtScan ==
  ASSUME NEW p \in Publishers, place'[p] = "scan", UNCHANGED <<target, staging, quar, state, incidents>>,
         \A r \in Dirs : quar[r].record => r \in unseen'[p] /\ Unattended(r)
  PROVE  OnDisk(p)'
  BY DEF OnDisk, Journalled, Unjournalled, incidents, Unattended, SetAside, Recoverable, PriorStaged,
     PriorQuarantined,
         PriorRemoved, NotExchanged, TargetMissing, Published, Sound

LEMMA AtJudge ==
  ASSUME NEW p \in Publishers, place'[p] = "judge", UNCHANGED <<target, staging, quar, state, incidents>>,
         journal'[p] \in Dirs, quar[journal'[p]].record, known'[p] = quar[journal'[p]].ver, Unattended(journal'[p])
  PROVE  OnDisk(p)'
  BY DEF OnDisk, Journalled, Unjournalled, incidents, Unattended, SetAside, Recoverable, PriorStaged,
     PriorQuarantined,
         PriorRemoved, NotExchanged, TargetMissing, Published, Sound


LEMMA AtRestored ==
  ASSUME NEW p \in Publishers, NEW j \in Dirs, j # NoDir, place'[p] \in {"restored", "moveBack"}, journal'[p] = j, quar'[j].record,
         known'[p] = quar'[j].ver, quar'[j].prior \notin {NoDir, j},
         target' = quar'[j].prior,
         state'[quar'[j].prior] = "final",
         staging'[j] = j,
         state'[j] = "final",
         quar'[j].payload = NoDir,
         doomed'[p] = j,
         role'[p] = "recover"
  PROVE  OnDisk(p)'
  BY DEF OnDisk, Journalled, Unjournalled, NotExchanged, Sound, Reverting

LEMMA AtRestore ==
  ASSUME NEW p \in Publishers, NEW j \in Dirs, j # NoDir, place'[p] = "restore", journal'[p] = j, quar'[j].record,
         known'[p] = quar'[j].ver, quar'[j].prior \notin {NoDir, j},
         target' = NoDir,
         staging'[j] = j,
         quar'[j].payload = quar'[j].prior,
         state'[quar'[j].prior] = "final",
         state'[j] = "final",
         doomed'[p] = j,
         role'[p] = "recover"
  PROVE  OnDisk(p)'
  BY DEF OnDisk, Journalled, Unjournalled, Away, TargetMissing, Sound, Reverting

LEMMA AtMove ==
  ASSUME NEW p \in Publishers, NEW j \in Dirs, j # NoDir, place'[p] = "move", journal'[p] = j, quar'[j].record,
         known'[p] = quar'[j].ver, quar'[j].prior \notin {NoDir, j},
         \/ target' = j /\ state'[j] = "final" /\ quar'[j].payload = NoDir /\ staging'[j] = quar'[j].prior /\ state'[quar'[j].prior] = "final" /\ doomed'[p] = quar'[j].prior
         \/ target' = quar'[j].prior /\ state'[quar'[j].prior] = "final" /\ staging'[j] = j /\ state'[j] = "final" /\ quar'[j].payload = NoDir /\ doomed'[p] = j /\ role'[p] = "recover"
  PROVE  OnDisk(p)'
  BY DEF OnDisk, Journalled, Unjournalled, Completing, PriorStaged, Published, Sound, Reverting, NotExchanged

LEMMA AtPurge ==
  ASSUME NEW p \in Publishers, NEW j \in Dirs, j # NoDir, place'[p] \in {"note", "settle", "purge"}, journal'[p] = j, quar'[j].record,
         known'[p] = quar'[j].ver, quar'[j].prior \notin {NoDir, j},
         \/ target' = j /\ state'[j] = "final" /\ quar'[j].payload = quar'[j].prior /\ state'[quar'[j].prior] = "final" /\ staging'[j] = NoDir /\ doomed'[p] = quar'[j].prior
         \/ target' = quar'[j].prior /\ state'[quar'[j].prior] = "final" /\ staging'[j] = NoDir /\ quar'[j].payload = j /\ state'[j] = "final" /\ doomed'[p] = j /\ role'[p] = "recover"
  PROVE  OnDisk(p)'
  BY DEF OnDisk, Journalled, Unjournalled, Completing, Shelved, PriorQuarantined, Published, Sound,
     Reverting, Undoing

LEMMA AtRemoving ==
  ASSUME NEW p \in Publishers, NEW j \in Dirs, j # NoDir, place'[p] = "removing", journal'[p] = j, quar'[j].record,
         known'[p] = quar'[j].ver, quar'[j].prior \notin {NoDir, j},
         \/ target' = j /\ state'[j] = "final" /\ quar'[j].payload = quar'[j].prior /\ state'[quar'[j].prior] = "torn" /\ staging'[j] = NoDir
         \/ target' = quar'[j].prior /\ state'[quar'[j].prior] = "final" /\ staging'[j] = NoDir /\ quar'[j].payload = j /\ doomed'[p] = j /\ role'[p] = "recover"
  PROVE  OnDisk(p)'
  BY DEF OnDisk, Journalled, Unjournalled, Tearing, Published, Sound, Reverting, Undoing

LEMMA AtUnlist ==
  ASSUME NEW p \in Publishers, NEW j \in Dirs, j # NoDir, place'[p] = "unlist", journal'[p] = j, quar'[j].record,
         known'[p] = quar'[j].ver, quar'[j].prior \notin {NoDir, j},
         \/ target' = j /\ state'[j] = "final" /\ staging'[j] = NoDir /\ quar'[j].payload = NoDir /\ role'[p] # "withdraw"
         \/ target' = quar'[j].prior /\ state'[quar'[j].prior] = "final" /\ staging'[j] = NoDir /\ quar'[j].payload = NoDir /\ doomed'[p] = j /\ role'[p] = "recover"
         \/ target' = quar'[j].prior /\ state'[quar'[j].prior] = "final" /\ staging'[j] = j /\ state'[j] = "final" /\ quar'[j].payload = NoDir /\ role'[p] = "withdraw"
  PROVE  OnDisk(p)'
  BY DEF OnDisk, Journalled, Unjournalled, NotExchanged, PriorRemoved, Published, Sound, Reverting, Undone

LEMMA AtSwap ==
  ASSUME NEW p \in Publishers, NEW j \in Dirs, j # NoDir, place'[p] \in {"exchange", "quarantine", "unwind"}, journal'[p] = j, quar'[j].record,
         known'[p] = quar'[j].ver, quar'[j].prior \notin {NoDir, j},
         target' = quar'[j].prior,
         state'[quar'[j].prior] = "final",
         staging'[j] = j,
         state'[j] = "final",
         quar'[j].payload = NoDir
  PROVE  OnDisk(p)'
  BY DEF OnDisk, Journalled, Unjournalled, NotExchanged, Sound

LEMMA AtSwapped ==
  ASSUME NEW p \in Publishers, NEW j \in Dirs, j # NoDir, place'[p] \in {"verify", "rollback", "exchanged"}, journal'[p] = j, quar'[j].record,
         known'[p] = quar'[j].ver, quar'[j].prior \notin {NoDir, j},
         target' = j,
         state'[j] = "final",
         quar'[j].payload = NoDir,
         staging'[j] = quar'[j].prior,
         state'[quar'[j].prior] = "final"
  PROVE  OnDisk(p)'
  BY DEF OnDisk, Journalled, Unjournalled, PriorStaged, Published, Sound

LEMMA AtPlace ==
  ASSUME NEW p \in Publishers, NEW j \in Dirs, j # NoDir, place'[p] \in {"quarantined", "place", "putBack"}, journal'[p] = j, quar'[j].record,
         known'[p] = quar'[j].ver, quar'[j].prior \notin {NoDir, j},
         target' = NoDir,
         staging'[j] = j,
         quar'[j].payload = quar'[j].prior,
         state'[quar'[j].prior] = "final",
         state'[j] = "final"
  PROVE  OnDisk(p)'
  BY DEF OnDisk, Journalled, Unjournalled, Away, TargetMissing, Sound

LEMMA AtFinish ==
  ASSUME NEW p \in Publishers, NEW j \in Dirs, j # NoDir, place'[p] = "finish", journal'[p] = j, quar'[j].record,
         known'[p] = quar'[j].ver, quar'[j].prior \notin {NoDir, j},
         \/ exchanging' /\ target' = j /\ state'[j] = "final" /\ quar'[j].payload = NoDir /\ staging'[j] = quar'[j].prior /\ state'[quar'[j].prior] = "final"
         \/ ~exchanging' /\ target' = j /\ state'[j] = "final" /\ quar'[j].payload = quar'[j].prior /\ state'[quar'[j].prior] = "final" /\ staging'[j] = NoDir
  PROVE  OnDisk(p)'
  BY DEF OnDisk, Journalled, Unjournalled, PriorStaged, Published, Sound, Shelved, PriorQuarantined

LEMMA LoadJournalStep ==
  ASSUME OutputAssumption, OutputInv, Beside, NEW p \in Publishers, LoadJournal(p)
  PROVE  OutputInv'
<1> DEFINE j == journal[p]
<1> USE DEF OutputBase, OutputInv, Beside
<1>0. /\ place[p] = "scan"
      /\ mine[p] \in Dirs
      /\ \A o \in Publishers : place[o] # "idle" => mine[o] \in Dirs
      /\ \A o \in Publishers \ {p} : place[o] # "idle" => mine[o] # mine[p]
      /\ \A o \in Publishers : place[o] \in Unjournalled => mine[o] \in Dirs /\ quar[mine[o]].ver = 0
      /\ \A o \in Publishers : place[o] = "removing" => journal[o] \in Dirs /\ quar[journal[o]].ver > 0
  BY WorkerFacts DEF LoadJournal, Journalled
<1>c. \A o \in Publishers : place[o] \in {"commit", "prior", "publish", "journal"} =>
        /\ mine[o] \in Dirs /\ staging[mine[o]] = mine[o] /\ target # mine[o]
        /\ \A r \in Dirs : quar[r].payload # mine[o] /\ (staging[r] = mine[o] => r = mine[o])
  BY BuiltFacts
<1>d. /\ role[p] = "recover"
  BY <1>0 DEF OutputTypeOK, OutputTypes, OutputRoles, Committing
<1>1. /\ UNCHANGED <<target, staging, quar, state>>
  BY <1>0, <1>d DEF LoadJournal, StandAt, Paths, onDisk, States, Paths
<1>b0. place' \in [Publishers -> OutputPlaces] /\ place'[p] \in {"scan", "idle", "judge", "check"} /\ \A b \in Publishers : b # p => place'[b] = place[b]
  BY <1>0, <1>d DEF LoadJournal, StandAt, OutputTypeOK, OutputTypes, Paths, OutputPlaces, Paths, Beside
<1>b1. place'[p] = "judge" => journal'[p] \in unseen[p]
  BY <1>0, <1>d DEF LoadJournal, StandAt, OutputTypeOK, OutputTypes, Paths, OutputPlaces, Paths, Beside
<1>b2. unseen' \in [Publishers -> SUBSET Dirs]
  BY <1>0, <1>d DEF LoadJournal, StandAt, OutputTypeOK, OutputTypes, Paths, OutputPlaces, Paths, Beside
<1>b3. \A o \in Publishers : unseen'[o] \subseteq unseen[o]
  BY <1>0, <1>d DEF LoadJournal, StandAt, OutputTypeOK, OutputTypes, Paths, OutputPlaces, Paths, Beside
<1>b4. \A o \in Publishers : o # p => journal'[o] = journal[o]
  BY <1>0, <1>d DEF LoadJournal, StandAt, OutputTypeOK, OutputTypes, Paths, OutputPlaces, Paths, Beside
<1>b5. matched' \in [Publishers -> BOOLEAN]
  BY <1>0, <1>d DEF LoadJournal, StandAt, OutputTypeOK, OutputTypes, Paths, OutputPlaces, Paths, Beside
<1>b6. journal' \in [Publishers -> Paths]
  BY <1>0, <1>d DEF LoadJournal, StandAt, OutputTypeOK, OutputTypes, Paths, OutputPlaces, Paths, Beside
<1>b7. known' \in [Publishers -> Nat]
  BY <1>0, <1>d DEF LoadJournal, StandAt, OutputTypeOK, OutputTypes, Paths, OutputPlaces, Paths, Beside
<1>b8. UNCHANGED <<mine, prior, doomed, role, incidents>>
  BY <1>0, <1>d DEF LoadJournal, StandAt, OutputTypeOK, OutputTypes, Paths, OutputPlaces, Paths, Beside
<1>b. /\ place' \in [Publishers -> OutputPlaces] /\ place'[p] \in {"scan", "idle", "judge", "check"} /\ \A b \in Publishers : b # p => place'[b] = place[b]
      /\ place'[p] = "judge" => journal'[p] \in unseen[p]
      /\ unseen' \in [Publishers -> SUBSET Dirs]
      /\ \A o \in Publishers : unseen'[o] \subseteq unseen[o]
      /\ \A o \in Publishers : o # p => journal'[o] = journal[o]
      /\ matched' \in [Publishers -> BOOLEAN]
      /\ journal' \in [Publishers -> Paths]
      /\ known' \in [Publishers -> Nat]
      /\ UNCHANGED <<mine, prior, doomed, role, incidents>>
  <2>1. /\ place' \in [Publishers -> OutputPlaces] /\ place'[p] \in {"scan", "idle", "judge", "check"} /\ \A b \in Publishers : b # p => place'[b] = place[b]
    BY <1>0, <1>d, <1>b0, <1>b1, <1>b2, <1>b3, <1>b4, <1>b5, <1>b6, <1>b7, <1>b8 DEF LoadJournal, StandAt,
       OutputTypeOK, OutputTypes, Paths, Paths, Beside, OutputPlaces
  <2>2. /\ place'[p] = "judge" => journal'[p] \in unseen[p]
    BY <1>0, <1>d, <1>b0, <1>b1, <1>b2, <1>b3, <1>b4, <1>b5, <1>b6, <1>b7, <1>b8 DEF LoadJournal, StandAt,
       OutputTypeOK, OutputTypes, Paths, Paths, Beside, OutputPlaces
  <2>3. /\ unseen' \in [Publishers -> SUBSET Dirs]
    BY <1>0, <1>d, <1>b0, <1>b1, <1>b2, <1>b3, <1>b4, <1>b5, <1>b6, <1>b7, <1>b8 DEF LoadJournal, StandAt,
       OutputTypeOK, OutputTypes, Paths, Paths, Beside
  <2>4. /\ \A o \in Publishers : unseen'[o] \subseteq unseen[o]
    BY <1>0, <1>d, <1>b0, <1>b1, <1>b2, <1>b3, <1>b4, <1>b5, <1>b6, <1>b7, <1>b8 DEF LoadJournal, StandAt,
       OutputTypeOK, OutputTypes, Paths, Paths, Beside
  <2>5. /\ \A o \in Publishers : o # p => journal'[o] = journal[o]
    BY <1>0, <1>d, <1>b0, <1>b1, <1>b2, <1>b3, <1>b4, <1>b5, <1>b6, <1>b7, <1>b8 DEF LoadJournal, StandAt,
       OutputTypeOK, OutputTypes, Paths, Paths, Beside
  <2>6. /\ matched' \in [Publishers -> BOOLEAN]
    BY <1>0, <1>d, <1>b0, <1>b1, <1>b2, <1>b3, <1>b4, <1>b5, <1>b6, <1>b7, <1>b8 DEF LoadJournal, StandAt,
       OutputTypeOK, OutputTypes, Paths, Paths, Beside
  <2>7. /\ journal' \in [Publishers -> Paths]
    BY <1>0, <1>d, <1>b0, <1>b1, <1>b2, <1>b3, <1>b4, <1>b5, <1>b6, <1>b7, <1>b8 DEF LoadJournal, StandAt,
       OutputTypeOK, OutputTypes, Paths, Paths, Beside
  <2>8. /\ known' \in [Publishers -> Nat]
    BY <1>0, <1>d, <1>b0, <1>b1, <1>b2, <1>b3, <1>b4, <1>b5, <1>b6, <1>b7, <1>b8 DEF LoadJournal, StandAt,
       OutputTypeOK, OutputTypes, Paths, Paths, Beside
  <2>9. /\ UNCHANGED <<mine, prior, doomed, role, incidents>>
    BY <1>0, <1>d, <1>b0, <1>b1, <1>b2, <1>b3, <1>b4, <1>b5, <1>b6, <1>b7, <1>b8 DEF LoadJournal, StandAt,
       OutputTypeOK, OutputTypes, Paths, Paths, Beside
  <2> QED  BY <2>1, <2>2, <2>3, <2>4, <2>5, <2>6, <2>7, <2>8, <2>9
<1>e. \A r \in Dirs : quar[r].ver > 0 => quar'[r].ver > 0 /\ quar'[r].prior = quar[r].prior
  BY <1>0, <1>1, <1>d, <1>b DEF OutputTypeOK, OutputTypes
<1>2. OutputTypes'
  BY <1>0, <1>1, <1>d, <1>b DEF OutputTypeOK, OutputTypes, OutputPlaces, States, Paths, Quarantine,
     incidents, Beside
<1>3. OnePlace'
  BY <1>0, <1>1, <1>d DEF OutputTypeOK, OutputTypes, OnePlace
<1>3a. OnePayload'
  BY <1>0, <1>1, <1>d DEF OutputTypeOK, OutputTypes, OnePlace, OnePayload
<1>4. Blank'
  BY <1>0, <1>1, <1>d DEF OutputTypeOK, OutputTypes, Blank, Unbuilt, OutputAssumption
<1>4a. Owners'
  BY <1>0, <1>1, <1>d, <1>b DEF OutputTypeOK, OutputTypes, Owners
<1>5. OutputRoles'
  BY <1>0, <1>b, <1>d DEF OutputTypeOK, OutputTypes, OutputRoles, Recovering, Committing, Swapping, Beside
<1>6. MadeOnce'
  BY <1>0, <1>1, <1>d, <1>b DEF OutputTypeOK, OutputTypes, MadeOnce
<1>6a. Unmade'
  BY <1>0, <1>1, <1>d, <1>b DEF OutputTypeOK, OutputTypes, Unmade, Unjournalled
<1>7. Seen'
  BY <1>0, <1>b, <1>d, <1>e DEF OutputTypeOK, OutputTypes, Seen, Journalled
<1>7a. Written'
  BY <1>0, <1>b, <1>d, <1>e DEF OutputTypeOK, OutputTypes, Written, Journalled, Seen
<1>8. Built'
  BY <1>0, <1>1, <1>d, <1>b, <1>c DEF OutputTypeOK, OutputTypes, Built, Unjournalled
<1>9. exchanging => Exchanged'
  <2> SUFFICES ASSUME exchanging, Exchanged  PROVE Exchanged'
    OBVIOUS
  <2>1. TargetComplete'
    BY <1>0, <1>1, <1>d, <1>b DEF OutputTypeOK, OutputTypes, Exchanged, TargetComplete, ReadyBack, OnePlace,
       Paths, OutputAssumption
  <2>2. ReadyBack'
    BY <1>0, <1>1, <1>d, <1>b DEF OutputTypeOK, OutputTypes, Exchanged, ReadyBack, OnePlace, Paths,
       OutputAssumption
  <2>3. NoneRenames'
    BY <1>0, <1>1, <1>d, <1>b DEF OutputTypeOK, OutputTypes, Exchanged, NoneRenames, Renaming
  <2>4. SwapsBuilt'
    BY <1>0, <1>1, <1>d, <1>b DEF OutputTypeOK, OutputTypes, Exchanged, SwapsBuilt, ReadyBack, Paths,
       OutputAssumption
  <2>5. AwayFirst'
    BY <1>0, <1>1, <1>d, <1>b DEF OutputTypeOK, OutputTypes, Exchanged, AwayFirst, Paths, OutputAssumption
  <2>6. UsersOwn'
    BY <1>0, <1>1, <1>d, <1>b DEF Exchanged, UsersOwn, OutputAssumption
  <2> QED  BY <2>1, <2>2, <2>3, <2>4, <2>5, <2>6 DEF Exchanged
<1>10. ~met' /\ edits' = 0 => Sequential'
  <2> SUFFICES ASSUME ~met', edits' = 0  PROVE Sequential'
    OBVIOUS
  <2>1. /\ Sequential /\ TargetFinal /\ OneJournal /\ OneWorks' /\ OnDisk(p)
        /\ \A o \in Publishers : o # p => place[o] = "idle" /\ place'[o] = "idle"
    BY <1>0, <1>b, AloneFacts DEF incidents, Sequential
  <2>3a. \A r \in Dirs : quar[r].record => r \in unseen[p] /\ Unattended(r)
    BY <1>0, <1>1, <1>d, <1>b, <2>1 DEF OnDisk, Unattended, SetAside, Recoverable, PriorStaged,
       PriorQuarantined, PriorRemoved, NotExchanged, TargetMissing, Published, Sound
  <2>4a. place'[p] = "scan" => \A r \in Dirs : quar[r].record => r \in unseen'[p] /\ Unattended(r)
    BY <1>0, <1>1, <1>d, <1>b, <2>1, <2>3a DEF LoadJournal, StandAt, OutputTypeOK, OutputTypes, Paths,
       Unattended, SetAside, Recoverable, PriorStaged, PriorQuarantined, PriorRemoved, NotExchanged,
       TargetMissing, Published, Sound
  <2>4b. \A r \in unseen[p] : r \notin unseen'[p] => journal'[p] = r /\ known'[p] = quar[r].ver /\ (quar[r].record => place'[p] # "scan")
    BY <1>0, <1>1, <1>d, <1>b, <2>1, <2>3a DEF LoadJournal, StandAt, OutputTypeOK, OutputTypes, Paths,
       Unattended, SetAside, Recoverable, PriorStaged, PriorQuarantined, PriorRemoved, NotExchanged,
       TargetMissing, Published, Sound
  <2>4c. place'[p] = "judge" => journal'[p] \in Dirs /\ quar[journal'[p]].record /\ known'[p] = quar[journal'[p]].ver /\ Unattended(journal'[p])
    BY <1>0, <1>1, <1>d, <1>b, <2>1, <2>3a DEF LoadJournal, StandAt, OutputTypeOK, OutputTypes, Paths,
       Unattended, SetAside, Recoverable, PriorStaged, PriorQuarantined, PriorRemoved, NotExchanged,
       TargetMissing, Published, Sound
  <2>4d. place'[p] = "check" => unseen[p] = {}
    BY <1>0, <1>1, <1>d, <1>b, <2>1, <2>3a DEF LoadJournal, StandAt, OutputTypeOK, OutputTypes, Paths,
       Unattended, SetAside, Recoverable, PriorStaged, PriorQuarantined, PriorRemoved, NotExchanged,
       TargetMissing, Published, Sound
  <2>5. TargetFinal'
    BY <1>0, <1>1, <1>d, <1>b, <2>1, <2>3a, <2>4a, <2>4b, <2>4c, <2>4d DEF TargetFinal, OutputTypeOK,
       OutputTypes, Paths
  <2>6. OneJournal'
    BY <1>0, <1>1, <1>d, <1>b, <2>1, <2>3a, <2>4a, <2>4b, <2>4c, <2>4d DEF OneJournal, OutputTypeOK,
       OutputTypes, Paths
  <2>7. place'[p] # "idle" => OnDisk(p)'
    <3>1. CASE place'[p] = "scan"
      BY <1>0, <1>1, <1>d, <1>b, <2>1, <2>3a, <2>4a, <2>4b, <2>4c, <2>4d, <3>1, AtScan
    <3>2. CASE place'[p] = "judge"
      BY <1>0, <1>1, <1>d, <1>b, <2>1, <2>3a, <2>4a, <2>4b, <2>4c, <2>4d, <3>2, AtJudge
    <3>3. CASE place'[p] = "check"
      BY <1>0, <1>1, <1>d, <1>b, <2>1, <2>3a, <2>4a, <2>4b, <2>4c, <2>4d, <3>3 DEF OnDisk, NoJournal,
         Journalled, Unjournalled, Sound
    <3> QED  BY <1>b, <3>1, <3>2, <3>3
  <2>8. place'[p] = "idle" => \A q \in Dirs : quar'[q].record => Unattended(q)'
    BY <1>0, <1>1, <1>d, <1>b, <2>1, <2>3a, <2>4a, <2>4b, <2>4c, <2>4d DEF OnDisk, NoJournal, Journalled,
       Unjournalled, Sound, Published, PriorStaged, PriorQuarantined, PriorRemoved, NotExchanged,
       TargetMissing, Recoverable, SetAside, Away, Shelved, Tearing, Undoing, Undone, Unattended, Completing,
       Reverting, incidents
  <2> QED  BY <2>1, <2>3a, <2>4a, <2>4b, <2>4c, <2>4d, <2>5, <2>6, <2>7, <2>8 DEF Sequential
<1> QED  BY <1>2, <1>3, <1>3a, <1>4, <1>4a, <1>5, <1>6, <1>6a, <1>7, <1>7a, <1>8, <1>9, <1>10 DEF OutputTypeOK

LEMMA JudgeStep ==
  ASSUME OutputAssumption, OutputInv, Beside, NEW p \in Publishers, Judge(p)
  PROVE  OutputInv'
<1> DEFINE j == journal[p]
<1> USE DEF OutputBase, OutputInv, Beside
<1>0. /\ place[p] = "judge"
      /\ mine[p] \in Dirs
      /\ journal[p] \in Dirs /\ quar[journal[p]].ver > 0
      /\ role[p] # "recover" => journal[p] = mine[p] /\ quar[mine[p]].prior = prior[p] /\ prior[p] # NoDir /\ doomed[p] = prior[p]
      /\ \A o \in Publishers : place[o] # "idle" => mine[o] \in Dirs
      /\ \A o \in Publishers \ {p} : place[o] # "idle" => mine[o] # mine[p]
      /\ \A o \in Publishers : place[o] \in Unjournalled => mine[o] \in Dirs /\ quar[mine[o]].ver = 0
      /\ \A o \in Publishers : place[o] = "removing" => journal[o] \in Dirs /\ quar[journal[o]].ver > 0
  BY WorkerFacts DEF Judge, Journalled
<1>c. \A o \in Publishers : place[o] \in {"commit", "prior", "publish", "journal"} =>
        /\ mine[o] \in Dirs /\ staging[mine[o]] = mine[o] /\ target # mine[o]
        /\ \A r \in Dirs : quar[r].payload # mine[o] /\ (staging[r] = mine[o] => r = mine[o])
  BY BuiltFacts
<1>d. /\ role[p] = "recover"
  BY <1>0 DEF OutputTypeOK, OutputTypes, OutputRoles, Committing
<1>1. /\ UNCHANGED <<target, staging, quar, state>>
  BY <1>0, <1>d DEF Judge, StandAt, Paths, Quarantine, onDisk, States, Paths
<1>b. /\ place' \in [Publishers -> OutputPlaces] /\ place'[p] \in {"move", "purge", "unlist", "restore", "idle"} /\ \A b \in Publishers : b # p => place'[b] = place[b]
      /\ doomed' \in [Publishers -> Paths]
      /\ \A o \in Publishers : o # p => doomed'[o] = doomed[o]
      /\ UNCHANGED <<mine, prior, unseen, matched, journal, known, role, incidents>>
  <2>1. /\ place' \in [Publishers -> OutputPlaces] /\ place'[p] \in {"move", "purge", "unlist", "restore", "idle"} /\ \A b \in Publishers : b # p => place'[b] = place[b]
    BY <1>0, <1>d DEF Judge, StandAt, OutputTypeOK, OutputTypes, Paths, Quarantine, Paths, Beside,
       OutputPlaces
  <2>2. /\ doomed' \in [Publishers -> Paths]
    BY <1>0, <1>d DEF Judge, StandAt, OutputTypeOK, OutputTypes, Paths, Quarantine, Paths, Beside
  <2>3. /\ \A o \in Publishers : o # p => doomed'[o] = doomed[o]
    BY <1>0, <1>d DEF Judge, StandAt, OutputTypeOK, OutputTypes, Paths, Quarantine, Paths, Beside
  <2>4. /\ UNCHANGED <<mine, prior, unseen, matched, journal, known, role, incidents>>
    BY <1>0, <1>d DEF Judge, StandAt, OutputTypeOK, OutputTypes, Paths, Quarantine, Paths, Beside
  <2> QED  BY <2>1, <2>2, <2>3, <2>4
<1>e. \A r \in Dirs : quar[r].ver > 0 => quar'[r].ver > 0 /\ quar'[r].prior = quar[r].prior
  BY <1>0, <1>1, <1>d, <1>b DEF OutputTypeOK, OutputTypes
<1>2. OutputTypes'
  BY <1>0, <1>1, <1>d, <1>b DEF OutputTypeOK, OutputTypes, OutputPlaces, States, Paths, Quarantine,
     incidents, Beside
<1>3. OnePlace'
  BY <1>0, <1>1, <1>d DEF OutputTypeOK, OutputTypes, OnePlace
<1>3a. OnePayload'
  BY <1>0, <1>1, <1>d DEF OutputTypeOK, OutputTypes, OnePlace, OnePayload
<1>4. Blank'
  BY <1>0, <1>1, <1>d DEF OutputTypeOK, OutputTypes, Blank, Unbuilt, OutputAssumption
<1>4a. Owners'
  BY <1>0, <1>1, <1>d, <1>b DEF OutputTypeOK, OutputTypes, Owners
<1>5. OutputRoles'
  BY <1>0, <1>b, <1>d DEF OutputTypeOK, OutputTypes, OutputRoles, Recovering, Committing, Swapping, Beside
<1>6. MadeOnce'
  BY <1>0, <1>1, <1>d, <1>b DEF OutputTypeOK, OutputTypes, MadeOnce
<1>6a. Unmade'
  BY <1>0, <1>1, <1>d, <1>b DEF OutputTypeOK, OutputTypes, Unmade, Unjournalled
<1>7. Seen'
  BY <1>0, <1>b, <1>d, <1>e DEF OutputTypeOK, OutputTypes, Seen, Journalled
<1>7a. Written'
  BY <1>0, <1>b, <1>d, <1>e DEF OutputTypeOK, OutputTypes, Written, Journalled, Seen
<1>8. Built'
  BY <1>0, <1>1, <1>d, <1>b, <1>c DEF OutputTypeOK, OutputTypes, Built, Unjournalled
<1>9. exchanging => Exchanged'
  <2> SUFFICES ASSUME exchanging, Exchanged  PROVE Exchanged'
    OBVIOUS
  <2>1. TargetComplete'
    BY <1>0, <1>1, <1>d, <1>b DEF OutputTypeOK, OutputTypes, Exchanged, TargetComplete, ReadyBack, OnePlace,
       Paths, OutputAssumption
  <2>2. ReadyBack'
    BY <1>0, <1>1, <1>d, <1>b DEF OutputTypeOK, OutputTypes, Exchanged, ReadyBack, OnePlace, Paths,
       OutputAssumption
  <2>3. NoneRenames'
    BY <1>0, <1>1, <1>d, <1>b DEF OutputTypeOK, OutputTypes, Exchanged, NoneRenames, Renaming, Judge,
       StandAt, TargetMissing, Sound, ReadyBack, OutputAssumption
  <2>4. SwapsBuilt'
    BY <1>0, <1>1, <1>d, <1>b DEF OutputTypeOK, OutputTypes, Exchanged, SwapsBuilt, ReadyBack, Paths,
       OutputAssumption
  <2>5. AwayFirst'
    BY <1>0, <1>1, <1>d, <1>b DEF OutputTypeOK, OutputTypes, Exchanged, AwayFirst, Paths, OutputAssumption
  <2>6. UsersOwn'
    BY <1>0, <1>1, <1>d, <1>b DEF Exchanged, UsersOwn, OutputAssumption
  <2> QED  BY <2>1, <2>2, <2>3, <2>4, <2>5, <2>6 DEF Exchanged
<1>10. ~met' /\ edits' = 0 => Sequential'
  <2> SUFFICES ASSUME ~met', edits' = 0  PROVE Sequential'
    OBVIOUS
  <2>1. /\ Sequential /\ TargetFinal /\ OneJournal /\ OneWorks' /\ OnDisk(p)
        /\ \A o \in Publishers : o # p => place[o] = "idle" /\ place'[o] = "idle"
    BY <1>0, <1>b, AloneFacts DEF incidents, Sequential
  <2>2. /\ quar[journal[p]].record /\ quar[journal[p]].root /\ known[p] = quar[journal[p]].ver
        /\ quar[journal[p]].prior # journal[p] /\ quar[journal[p]].prior # NoDir /\ quar[journal[p]].prior \in Dirs \cup UserDirs
        /\ staging[journal[p]] \in {NoDir, journal[p], quar[journal[p]].prior}
        /\ staging[journal[p]] = journal[p] => state[journal[p]] = "final"
        /\ target # NoDir => target # staging[journal[p]] /\ target # quar[journal[p]].payload
        /\ staging[journal[p]] # NoDir => staging[journal[p]] # quar[journal[p]].payload
        /\ \A r \in Dirs : r # journal[p] => ~quar[r].record /\ quar[r].payload = NoDir
        /\ target # NoDir => target \in Dirs \cup UserDirs /\ state[target] = "final"
    BY <1>0, <2>1, JournalFacts DEF Journalled, OutputTypeOK
  <2>3. /\ Unattended(journal[p])
    BY <1>0, <1>1, <1>d, <1>b, <2>1, <2>2 DEF OnDisk, Unattended, SetAside, Recoverable, PriorStaged,
       PriorQuarantined, PriorRemoved, NotExchanged, TargetMissing, Published, Sound
  <2>4a. place'[p] = "purge" => (doomed'[p] = quar[journal[p]].prior /\ target = journal[p] /\ state[journal[p]] = "final" /\ quar[journal[p]].payload = quar[journal[p]].prior /\ state[quar[journal[p]].prior] = "final" /\ staging[journal[p]] = NoDir)
    BY <1>0, <1>1, <1>d, <1>b, <2>1, <2>2, <2>3 DEF Judge, StandAt, OutputTypeOK, OutputTypes, Paths,
       Quarantine, Unattended, SetAside, Recoverable, PriorStaged, PriorQuarantined, PriorRemoved,
       NotExchanged, TargetMissing, Published, Sound
  <2>4b. place'[p] = "unlist" => (target = journal[p] /\ state[journal[p]] = "final" /\ staging[journal[p]] = NoDir /\ quar[journal[p]].payload = NoDir)
    BY <1>0, <1>1, <1>d, <1>b, <2>1, <2>2, <2>3 DEF Judge, StandAt, OutputTypeOK, OutputTypes, Paths,
       Quarantine, Unattended, SetAside, Recoverable, PriorStaged, PriorQuarantined, PriorRemoved,
       NotExchanged, TargetMissing, Published, Sound
  <2>4c. place'[p] = "restore" => (doomed'[p] = journal[p] /\ target = NoDir /\ staging[journal[p]] = journal[p] /\ state[journal[p]] = "final" /\ quar[journal[p]].payload = quar[journal[p]].prior /\ state[quar[journal[p]].prior] = "final")
    BY <1>0, <1>1, <1>d, <1>b, <2>1, <2>2, <2>3 DEF Judge, StandAt, OutputTypeOK, OutputTypes, Paths,
       Quarantine, Unattended, SetAside, Recoverable, PriorStaged, PriorQuarantined, PriorRemoved,
       NotExchanged, TargetMissing, Published, Sound
  <2>4d. place'[p] = "move" => (doomed'[p] = quar[journal[p]].prior /\ target = journal[p] /\ state[journal[p]] = "final" /\ quar[journal[p]].payload = NoDir /\ staging[journal[p]] = quar[journal[p]].prior /\ state[quar[journal[p]].prior] = "final") \/ (doomed'[p] = journal[p] /\ target = quar[journal[p]].prior /\ state[quar[journal[p]].prior] = "final" /\ staging[journal[p]] = journal[p] /\ state[journal[p]] = "final" /\ quar[journal[p]].payload = NoDir)
    BY <1>0, <1>1, <1>d, <1>b, <2>1, <2>2, <2>3 DEF Judge, StandAt, OutputTypeOK, OutputTypes, Paths,
       Quarantine, Unattended, SetAside, Recoverable, PriorStaged, PriorQuarantined, PriorRemoved,
       NotExchanged, TargetMissing, Published, Sound
  <2>5. TargetFinal'
    BY <1>0, <1>1, <1>d, <1>b, <2>1, <2>2, <2>3, <2>4a, <2>4b, <2>4c, <2>4d DEF TargetFinal, OutputTypeOK,
       OutputTypes, Paths
  <2>6. OneJournal'
    <3>1. \A r \in Dirs : r # journal[p] => ~quar'[r].record /\ quar'[r].payload = NoDir
      BY <1>0, <1>1, <1>d, <1>b, <2>1, <2>2, <2>3, <2>4a, <2>4b, <2>4c, <2>4d
    <3>2. /\ quar'[journal[p]].record /\ quar'[journal[p]].root /\ quar'[journal[p]].prior # NoDir /\ quar'[journal[p]].prior # journal[p]
          /\ staging'[journal[p]] \in {NoDir, journal[p], quar'[journal[p]].prior}
          /\ staging'[journal[p]] = journal[p] => state'[journal[p]] = "final"
      BY <1>0, <1>1, <1>d, <1>b, <2>1, <2>2, <2>3, <2>4a, <2>4b, <2>4c, <2>4d DEF OutputTypeOK, OutputTypes,
         OutputAssumption
    <3> QED  BY <1>0, <3>1, <3>2, OnlyJournal
  <2>7. place'[p] # "idle" => OnDisk(p)'
    <3>1. CASE place'[p] = "move"
      <4>1. /\ journal[p] # NoDir
            /\ journal'[p] = journal[p]
            /\ quar'[journal[p]].record
            /\ known'[p] = quar'[journal[p]].ver
            /\ quar'[journal[p]].prior # NoDir /\ quar'[journal[p]].prior # journal[p]
        BY <1>0, <1>1, <1>d, <1>b, <2>1, <2>2, <2>3, <2>4a, <2>4b, <2>4c, <2>4d, <3>1 DEF OutputAssumption
      <4>2. \/ target' = journal[p] /\ state'[journal[p]] = "final" /\ quar'[journal[p]].payload = NoDir /\ staging'[journal[p]] = quar'[journal[p]].prior /\ state'[quar'[journal[p]].prior] = "final" /\ doomed'[p] = quar'[journal[p]].prior
            \/ target' = quar'[journal[p]].prior /\ state'[quar'[journal[p]].prior] = "final" /\ staging'[journal[p]] = journal[p] /\ state'[journal[p]] = "final" /\ quar'[journal[p]].payload = NoDir /\ doomed'[p] = journal[p] /\ role'[p] = "recover"
        BY <1>0, <1>1, <1>d, <1>b, <2>1, <2>2, <2>3, <2>4a, <2>4b, <2>4c, <2>4d, <3>1 DEF OutputAssumption
      <4> QED  BY <1>0, <3>1, <4>1, <4>2, AtMove
    <3>2. CASE place'[p] = "purge"
      <4>1. /\ journal[p] # NoDir
            /\ journal'[p] = journal[p]
            /\ quar'[journal[p]].record
            /\ known'[p] = quar'[journal[p]].ver
            /\ quar'[journal[p]].prior # NoDir /\ quar'[journal[p]].prior # journal[p]
        BY <1>0, <1>1, <1>d, <1>b, <2>1, <2>2, <2>3, <2>4a, <2>4b, <2>4c, <2>4d, <3>2 DEF OutputAssumption
      <4>2. \/ target' = journal[p] /\ state'[journal[p]] = "final" /\ quar'[journal[p]].payload = quar'[journal[p]].prior /\ state'[quar'[journal[p]].prior] = "final" /\ staging'[journal[p]] = NoDir /\ doomed'[p] = quar'[journal[p]].prior
            \/ target' = quar'[journal[p]].prior /\ state'[quar'[journal[p]].prior] = "final" /\ staging'[journal[p]] = NoDir /\ quar'[journal[p]].payload = journal[p] /\ state'[journal[p]] = "final" /\ doomed'[p] = journal[p] /\ role'[p] = "recover"
        BY <1>0, <1>1, <1>d, <1>b, <2>1, <2>2, <2>3, <2>4a, <2>4b, <2>4c, <2>4d, <3>2 DEF OutputAssumption
      <4> QED  BY <1>0, <3>2, <4>1, <4>2, AtPurge
    <3>3. CASE place'[p] = "unlist"
      <4>1. /\ journal[p] # NoDir
            /\ journal'[p] = journal[p]
            /\ quar'[journal[p]].record
            /\ known'[p] = quar'[journal[p]].ver
            /\ quar'[journal[p]].prior # NoDir /\ quar'[journal[p]].prior # journal[p]
        BY <1>0, <1>1, <1>d, <1>b, <2>1, <2>2, <2>3, <2>4a, <2>4b, <2>4c, <2>4d, <3>3 DEF OutputAssumption
      <4>2. \/ target' = journal[p] /\ state'[journal[p]] = "final" /\ staging'[journal[p]] = NoDir /\ quar'[journal[p]].payload = NoDir /\ role'[p] # "withdraw"
            \/ target' = quar'[journal[p]].prior /\ state'[quar'[journal[p]].prior] = "final" /\ staging'[journal[p]] = NoDir /\ quar'[journal[p]].payload = NoDir /\ doomed'[p] = journal[p] /\ role'[p] = "recover"
            \/ target' = quar'[journal[p]].prior /\ state'[quar'[journal[p]].prior] = "final" /\ staging'[journal[p]] = journal[p] /\ state'[journal[p]] = "final" /\ quar'[journal[p]].payload = NoDir /\ role'[p] = "withdraw"
        BY <1>0, <1>1, <1>d, <1>b, <2>1, <2>2, <2>3, <2>4a, <2>4b, <2>4c, <2>4d, <3>3 DEF OutputAssumption
      <4> QED  BY <1>0, <3>3, <4>1, <4>2, AtUnlist
    <3>4. CASE place'[p] = "restore"
      <4>1. /\ journal[p] # NoDir
            /\ journal'[p] = journal[p]
            /\ quar'[journal[p]].record
            /\ known'[p] = quar'[journal[p]].ver
            /\ quar'[journal[p]].prior # NoDir /\ quar'[journal[p]].prior # journal[p]
            /\ target' = NoDir
            /\ staging'[journal[p]] = journal[p]
            /\ quar'[journal[p]].payload = quar'[journal[p]].prior
            /\ state'[quar'[journal[p]].prior] = "final"
            /\ state'[journal[p]] = "final"
            /\ doomed'[p] = journal[p]
            /\ role'[p] = "recover"
        BY <1>0, <1>1, <1>d, <1>b, <2>1, <2>2, <2>3, <2>4a, <2>4b, <2>4c, <2>4d, <3>4 DEF OutputAssumption
      <4> QED  BY <1>0, <3>4, <4>1, AtRestore
    <3> QED  BY <1>b, <3>1, <3>2, <3>3, <3>4
  <2>8. place'[p] = "idle" => \A q \in Dirs : quar'[q].record => Unattended(q)'
    BY <1>0, <1>1, <1>d, <1>b, <2>1, <2>2, <2>3, <2>4a, <2>4b, <2>4c, <2>4d DEF OnDisk, NoJournal,
       Journalled, Unjournalled, Sound, Published, PriorStaged, PriorQuarantined, PriorRemoved,
       NotExchanged, TargetMissing, Recoverable, SetAside, Away, Shelved, Tearing, Undoing, Undone,
       Unattended, Completing, Reverting, incidents
  <2> QED  BY <2>1, <2>2, <2>3, <2>4a, <2>4b, <2>4c, <2>4d, <2>5, <2>6, <2>7, <2>8 DEF Sequential
<1> QED  BY <1>2, <1>3, <1>3a, <1>4, <1>4a, <1>5, <1>6, <1>6a, <1>7, <1>7a, <1>8, <1>9, <1>10 DEF OutputTypeOK

LEMMA RestoreStep ==
  ASSUME OutputAssumption, OutputInv, Beside, NEW p \in Publishers, Restore(p)
  PROVE  OutputInv'
<1> DEFINE j == journal[p]
<1> USE DEF OutputBase, OutputInv, Beside
<1>0. /\ place[p] = "restore"
      /\ mine[p] \in Dirs
      /\ journal[p] \in Dirs /\ quar[journal[p]].ver > 0
      /\ role[p] # "recover" => journal[p] = mine[p] /\ quar[mine[p]].prior = prior[p] /\ prior[p] # NoDir /\ doomed[p] = prior[p]
      /\ \A o \in Publishers : place[o] # "idle" => mine[o] \in Dirs
      /\ \A o \in Publishers \ {p} : place[o] # "idle" => mine[o] # mine[p]
      /\ \A o \in Publishers : place[o] \in Unjournalled => mine[o] \in Dirs /\ quar[mine[o]].ver = 0
      /\ \A o \in Publishers : place[o] = "removing" => journal[o] \in Dirs /\ quar[journal[o]].ver > 0
  BY WorkerFacts DEF Restore, Journalled
<1>c. \A o \in Publishers : place[o] \in {"commit", "prior", "publish", "journal"} =>
        /\ mine[o] \in Dirs /\ staging[mine[o]] = mine[o] /\ target # mine[o]
        /\ \A r \in Dirs : quar[r].payload # mine[o] /\ (staging[r] = mine[o] => r = mine[o])
  BY BuiltFacts
<1>1. CASE target = NoDir /\ quar[j].payload # NoDir
  <2>a. PayloadBecomes(j, NoDir)
    BY <1>0, <1>1, PayloadFacts DEF Restore, StandAt, OutputTypeOK, OutputTypes, Paths, Quarantine
  <2>d. /\ role[p] = "recover"
    BY <1>0 DEF OutputTypeOK, OutputTypes, OutputRoles, Committing
  <2>1. /\ target' \in Paths
        /\ target' = quar[j].payload
        /\ target = NoDir
        /\ UNCHANGED <<staging, state>>
    <3>1. /\ target' \in Paths
      BY <1>0, <1>1, <2>d DEF Restore, StandAt, OutputTypeOK, OutputTypes, onDisk, States, Paths
    <3>2. /\ target' = quar[j].payload
          /\ target = NoDir
          /\ UNCHANGED <<staging, state>>
      BY <1>0, <1>1, <2>d DEF Restore, StandAt, OutputTypeOK, OutputTypes, onDisk, States, Paths
    <3> QED  BY <3>1, <3>2
  <2>b. /\ place' \in [Publishers -> OutputPlaces] /\ place'[p] = "restored" /\ \A b \in Publishers : b # p => place'[b] = place[b]
        /\ UNCHANGED <<mine, prior, unseen, matched, journal, known, doomed, role, incidents>>
    <3>1. /\ place' \in [Publishers -> OutputPlaces] /\ place'[p] = "restored" /\ \A b \in Publishers : b # p => place'[b] = place[b]
      BY <1>0, <1>1, <2>d DEF Restore, StandAt, OutputTypeOK, OutputTypes, Paths, Beside, OutputPlaces
    <3>2. /\ UNCHANGED <<mine, prior, unseen, matched, journal, known, doomed, role, incidents>>
      BY <1>0, <1>1, <2>d DEF Restore, StandAt, OutputTypeOK, OutputTypes, Paths, Beside
    <3> QED  BY <3>1, <3>2
  <2>e. \A r \in Dirs : quar[r].ver > 0 => quar'[r].ver > 0 /\ quar'[r].prior = quar[r].prior
    BY <1>0, <1>1, <2>a, <2>1, <2>d, <2>b DEF OutputTypeOK, OutputTypes, PayloadBecomes
  <2>2. OutputTypes'
    BY <1>0, <1>1, <2>a, <2>1, <2>d, <2>b DEF OutputTypeOK, OutputTypes, PayloadBecomes, OutputPlaces,
       States, Paths, Quarantine, incidents, Beside
  <2>3. OnePlace'
    BY <1>0, <1>1, <2>a, <2>1, <2>d DEF OutputTypeOK, OutputTypes, PayloadBecomes, OnePlace, OnePayload
  <2>3a. OnePayload'
    BY <1>0, <1>1, <2>a, <2>1, <2>d DEF OutputTypeOK, OutputTypes, PayloadBecomes, OnePlace, OnePayload
  <2>4. Blank'
    BY <1>0, <1>1, <2>a, <2>1, <2>d DEF OutputTypeOK, OutputTypes, PayloadBecomes, Blank, Unbuilt,
       OutputAssumption
  <2>4a. Owners'
    BY <1>0, <1>1, <2>a, <2>1, <2>d, <2>b DEF OutputTypeOK, OutputTypes, PayloadBecomes, Owners
  <2>5. OutputRoles'
    BY <1>0, <2>b, <2>d DEF OutputTypeOK, OutputTypes, OutputRoles, Recovering, Committing, Swapping, Beside
  <2>6. MadeOnce'
    BY <1>0, <2>a, <2>d, <2>e DEF OutputTypeOK, OutputTypes, PayloadBecomes, MadeOnce
  <2>6a. Unmade'
    BY <1>0, <2>a, <2>b, <2>d DEF OutputTypeOK, OutputTypes, PayloadBecomes, Unmade, Unjournalled
  <2>7. Seen'
    BY <1>0, <2>b, <2>d, <2>e DEF OutputTypeOK, OutputTypes, Seen, Journalled
  <2>7a. Written'
    BY <1>0, <2>b, <2>d, <2>e DEF OutputTypeOK, OutputTypes, Written, Journalled, Seen
  <2>8. Built'
    BY <1>0, <1>1, <2>a, <2>1, <2>d, <2>b, <1>c DEF OutputTypeOK, OutputTypes, Built, Unjournalled
  <2>9. exchanging => Exchanged'
    BY <1>0 DEF Exchanged, NoneRenames, Renaming
  <2>10. ~met' /\ edits' = 0 => Sequential'
    <3> SUFFICES ASSUME ~met', edits' = 0  PROVE Sequential'
      OBVIOUS
    <3>1. /\ Sequential /\ TargetFinal /\ OneJournal /\ OneWorks' /\ OnDisk(p)
          /\ \A o \in Publishers : o # p => place[o] = "idle" /\ place'[o] = "idle"
      BY <1>0, <2>b, AloneFacts DEF incidents, Sequential
    <3>2. /\ quar[journal[p]].record /\ quar[journal[p]].root /\ known[p] = quar[journal[p]].ver
          /\ quar[journal[p]].prior # journal[p] /\ quar[journal[p]].prior # NoDir /\ quar[journal[p]].prior \in Dirs \cup UserDirs
          /\ staging[journal[p]] \in {NoDir, journal[p], quar[journal[p]].prior}
          /\ staging[journal[p]] = journal[p] => state[journal[p]] = "final"
          /\ target # NoDir => target # staging[journal[p]] /\ target # quar[journal[p]].payload
          /\ staging[journal[p]] # NoDir => staging[journal[p]] # quar[journal[p]].payload
          /\ \A r \in Dirs : r # journal[p] => ~quar[r].record /\ quar[r].payload = NoDir
          /\ target # NoDir => target \in Dirs \cup UserDirs /\ state[target] = "final"
      BY <1>0, <3>1, JournalFacts DEF Journalled, OutputTypeOK
    <3>3. /\ target = NoDir
          /\ staging[journal[p]] = journal[p]
          /\ state[journal[p]] = "final"
          /\ quar[journal[p]].payload = quar[journal[p]].prior
          /\ state[quar[journal[p]].prior] = "final"
          /\ doomed[p] = journal[p]
          /\ role[p] = "recover"
      BY <1>0, <1>1, <2>a, <2>1, <2>d, <2>b, <3>1, <3>2 DEF OnDisk, Away, TargetMissing, Sound, Reverting
    <3>5. TargetFinal'
      BY <1>0, <1>1, <2>a, <2>1, <2>d, <2>b, <3>1, <3>2, <3>3 DEF TargetFinal, PayloadBecomes, OutputTypeOK,
         OutputTypes, Paths
    <3>6. OneJournal'
      <4>1. \A r \in Dirs : r # journal[p] => ~quar'[r].record /\ quar'[r].payload = NoDir
        BY <1>0, <2>a, <2>b, <2>d, <3>1, <3>2, <3>3 DEF PayloadBecomes
      <4>2. /\ quar'[journal[p]].record /\ quar'[journal[p]].root /\ quar'[journal[p]].prior # NoDir /\ quar'[journal[p]].prior # journal[p]
            /\ staging'[journal[p]] \in {NoDir, journal[p], quar'[journal[p]].prior}
            /\ staging'[journal[p]] = journal[p] => state'[journal[p]] = "final"
        BY <1>0, <1>1, <2>a, <2>1, <2>d, <2>b, <3>1, <3>2, <3>3 DEF PayloadBecomes, OutputTypeOK,
           OutputTypes, OutputAssumption
      <4> QED  BY <1>0, <4>1, <4>2, OnlyJournal
    <3>7. place'[p] # "idle" => OnDisk(p)'
      <4>1. CASE place'[p] = "restored"
        <5>1. /\ journal[p] # NoDir
              /\ journal'[p] = journal[p]
              /\ quar'[journal[p]].record
              /\ known'[p] = quar'[journal[p]].ver
              /\ quar'[journal[p]].prior # NoDir /\ quar'[journal[p]].prior # journal[p]
              /\ target' = quar'[journal[p]].prior
              /\ state'[quar'[journal[p]].prior] = "final"
              /\ staging'[journal[p]] = journal[p]
              /\ state'[journal[p]] = "final"
              /\ quar'[journal[p]].payload = NoDir
              /\ doomed'[p] = journal[p]
              /\ role'[p] = "recover"
          BY <1>0, <1>1, <2>a, <2>1, <2>d, <2>b, <3>1, <3>2, <3>3, <4>1 DEF PayloadBecomes, OutputAssumption
        <5> QED  BY <1>0, <4>1, <5>1, AtRestored
      <4> QED  BY <2>b, <4>1
    <3>8. place'[p] # "idle"
      BY <2>b
    <3> QED  BY <3>1, <3>2, <3>3, <3>5, <3>6, <3>7, <3>8 DEF Sequential
  <2> QED  BY <2>2, <2>3, <2>3a, <2>4, <2>4a, <2>5, <2>6, <2>6a, <2>7, <2>7a, <2>8, <2>9, <2>10 DEF
              OutputTypeOK
<1>2. CASE ~(target = NoDir /\ quar[j].payload # NoDir)
  <2>1. place' = [place EXCEPT ![p] = "idle"] /\ UNCHANGED <<onDisk, mine, prior, unseen, matched, journal, known, doomed, role, incidents>>
    BY <1>0, <1>2 DEF Restore, StandAt, onDisk
  <2>2. "idle" \in {"idle", "abort"} /\ ("idle" = "abort" => role[p] # "recover") /\ place[p] # "idle"
    BY <1>0 DEF OutputTypeOK, OutputTypes, OutputRoles, Recovering, Committing
  <2>3. strikes' \in 0..MaxStrikes /\ edits' = edits /\ deep' \in BOOLEAN
    BY <2>1 DEF OutputTypeOK, OutputTypes, incidents
  <2>4. OutputBase' /\ (exchanging => Exchanged')
    BY <2>1, <2>2, <2>3, GiveUp DEF onDisk
  <2>b. /\ place' \in [Publishers -> OutputPlaces] /\ place'[p] = "idle" /\ \A b \in Publishers : b # p => place'[b] = place[b]
        /\ UNCHANGED <<target, staging, quar, state, mine, prior, unseen, matched, journal, known, doomed, role, incidents>>
    BY <2>1, <2>2 DEF OutputTypeOK, OutputTypes, OutputPlaces, onDisk
  <2>10. ~met' /\ edits' = 0 => Sequential'
    <3> SUFFICES ASSUME ~met', edits' = 0  PROVE Sequential'
      OBVIOUS
    <3>1. /\ Sequential /\ TargetFinal /\ OneJournal /\ OneWorks' /\ OnDisk(p)
          /\ \A o \in Publishers : o # p => place[o] = "idle" /\ place'[o] = "idle"
      BY <1>0, <2>b, AloneFacts DEF incidents, Sequential
    <3>2. /\ quar[journal[p]].record /\ quar[journal[p]].root /\ known[p] = quar[journal[p]].ver
          /\ quar[journal[p]].prior # journal[p] /\ quar[journal[p]].prior # NoDir /\ quar[journal[p]].prior \in Dirs \cup UserDirs
          /\ staging[journal[p]] \in {NoDir, journal[p], quar[journal[p]].prior}
          /\ staging[journal[p]] = journal[p] => state[journal[p]] = "final"
          /\ target # NoDir => target # staging[journal[p]] /\ target # quar[journal[p]].payload
          /\ staging[journal[p]] # NoDir => staging[journal[p]] # quar[journal[p]].payload
          /\ \A r \in Dirs : r # journal[p] => ~quar[r].record /\ quar[r].payload = NoDir
          /\ target # NoDir => target \in Dirs \cup UserDirs /\ state[target] = "final"
      BY <1>0, <3>1, JournalFacts DEF Journalled, OutputTypeOK
    <3>3. /\ target = NoDir
          /\ staging[journal[p]] = journal[p]
          /\ state[journal[p]] = "final"
          /\ quar[journal[p]].payload = quar[journal[p]].prior
          /\ state[quar[journal[p]].prior] = "final"
          /\ doomed[p] = journal[p]
          /\ role[p] = "recover"
      BY <1>0, <1>2, <2>2, <2>b, <3>1, <3>2 DEF OnDisk, Away, TargetMissing, Sound, Reverting
    <3> QED  BY <1>0, <1>2, <2>2, <2>b, <3>1, <3>2, <3>3 DEF Sound, Published, PriorStaged,
                PriorQuarantined, PriorRemoved, NotExchanged, TargetMissing, Recoverable, SetAside, Away,
                Shelved, Tearing, Undoing, Undone, Unattended, Completing, Reverting, OutputAssumption
  <2> QED  BY <2>4, <2>10
<1> QED  BY <1>1, <1>2 DEF Restore

LEMMA RestoredStep ==
  ASSUME OutputAssumption, OutputInv, Beside, NEW p \in Publishers, Restored(p)
  PROVE  OutputInv'
<1> DEFINE j == journal[p]
<1> USE DEF OutputBase, OutputInv, Beside
<1>0. /\ place[p] = "restored"
      /\ mine[p] \in Dirs
      /\ journal[p] \in Dirs /\ quar[journal[p]].ver > 0
      /\ role[p] # "recover" => journal[p] = mine[p] /\ quar[mine[p]].prior = prior[p] /\ prior[p] # NoDir /\ doomed[p] = prior[p]
      /\ \A o \in Publishers : place[o] # "idle" => mine[o] \in Dirs
      /\ \A o \in Publishers \ {p} : place[o] # "idle" => mine[o] # mine[p]
      /\ \A o \in Publishers : place[o] \in Unjournalled => mine[o] \in Dirs /\ quar[mine[o]].ver = 0
      /\ \A o \in Publishers : place[o] = "removing" => journal[o] \in Dirs /\ quar[journal[o]].ver > 0
  BY WorkerFacts DEF Restored, Journalled
<1>c. \A o \in Publishers : place[o] \in {"commit", "prior", "publish", "journal"} =>
        /\ mine[o] \in Dirs /\ staging[mine[o]] = mine[o] /\ target # mine[o]
        /\ \A r \in Dirs : quar[r].payload # mine[o] /\ (staging[r] = mine[o] => r = mine[o])
  BY BuiltFacts
<1>d. /\ role[p] = "recover"
  BY <1>0 DEF OutputTypeOK, OutputTypes, OutputRoles, Committing
<1>1. /\ UNCHANGED <<target, staging, quar, state>>
  BY <1>0, <1>d DEF Restored, StandAt, onDisk, States, Paths
<1>b. /\ place' \in [Publishers -> OutputPlaces] /\ place'[p] \in {"moveBack", "idle"} /\ \A b \in Publishers : b # p => place'[b] = place[b]
      /\ UNCHANGED <<mine, prior, unseen, matched, journal, known, doomed, role, incidents>>
  <2>1. /\ place' \in [Publishers -> OutputPlaces] /\ place'[p] \in {"moveBack", "idle"} /\ \A b \in Publishers : b # p => place'[b] = place[b]
    BY <1>0, <1>d DEF Restored, StandAt, OutputTypeOK, OutputTypes, Paths, Beside, OutputPlaces
  <2>2. /\ UNCHANGED <<mine, prior, unseen, matched, journal, known, doomed, role, incidents>>
    BY <1>0, <1>d DEF Restored, StandAt, OutputTypeOK, OutputTypes, Paths, Beside
  <2> QED  BY <2>1, <2>2
<1>e. \A r \in Dirs : quar[r].ver > 0 => quar'[r].ver > 0 /\ quar'[r].prior = quar[r].prior
  BY <1>0, <1>1, <1>d, <1>b DEF OutputTypeOK, OutputTypes
<1>2. OutputTypes'
  BY <1>0, <1>1, <1>d, <1>b DEF OutputTypeOK, OutputTypes, OutputPlaces, States, Paths, Quarantine,
     incidents, Beside
<1>3. OnePlace'
  BY <1>0, <1>1, <1>d DEF OutputTypeOK, OutputTypes, OnePlace
<1>3a. OnePayload'
  BY <1>0, <1>1, <1>d DEF OutputTypeOK, OutputTypes, OnePlace, OnePayload
<1>4. Blank'
  BY <1>0, <1>1, <1>d DEF OutputTypeOK, OutputTypes, Blank, Unbuilt, OutputAssumption
<1>4a. Owners'
  BY <1>0, <1>1, <1>d, <1>b DEF OutputTypeOK, OutputTypes, Owners
<1>5. OutputRoles'
  BY <1>0, <1>b, <1>d DEF OutputTypeOK, OutputTypes, OutputRoles, Recovering, Committing, Swapping, Beside
<1>6. MadeOnce'
  BY <1>0, <1>1, <1>d, <1>b DEF OutputTypeOK, OutputTypes, MadeOnce
<1>6a. Unmade'
  BY <1>0, <1>1, <1>d, <1>b DEF OutputTypeOK, OutputTypes, Unmade, Unjournalled
<1>7. Seen'
  BY <1>0, <1>b, <1>d, <1>e DEF OutputTypeOK, OutputTypes, Seen, Journalled
<1>7a. Written'
  BY <1>0, <1>b, <1>d, <1>e DEF OutputTypeOK, OutputTypes, Written, Journalled, Seen
<1>8. Built'
  BY <1>0, <1>1, <1>d, <1>b, <1>c DEF OutputTypeOK, OutputTypes, Built, Unjournalled
<1>9. exchanging => Exchanged'
  BY <1>0 DEF Exchanged, NoneRenames, Renaming
<1>10. ~met' /\ edits' = 0 => Sequential'
  <2> SUFFICES ASSUME ~met', edits' = 0  PROVE Sequential'
    OBVIOUS
  <2>1. /\ Sequential /\ TargetFinal /\ OneJournal /\ OneWorks' /\ OnDisk(p)
        /\ \A o \in Publishers : o # p => place[o] = "idle" /\ place'[o] = "idle"
    BY <1>0, <1>b, AloneFacts DEF incidents, Sequential
  <2>2. /\ quar[journal[p]].record /\ quar[journal[p]].root /\ known[p] = quar[journal[p]].ver
        /\ quar[journal[p]].prior # journal[p] /\ quar[journal[p]].prior # NoDir /\ quar[journal[p]].prior \in Dirs \cup UserDirs
        /\ staging[journal[p]] \in {NoDir, journal[p], quar[journal[p]].prior}
        /\ staging[journal[p]] = journal[p] => state[journal[p]] = "final"
        /\ target # NoDir => target # staging[journal[p]] /\ target # quar[journal[p]].payload
        /\ staging[journal[p]] # NoDir => staging[journal[p]] # quar[journal[p]].payload
        /\ \A r \in Dirs : r # journal[p] => ~quar[r].record /\ quar[r].payload = NoDir
        /\ target # NoDir => target \in Dirs \cup UserDirs /\ state[target] = "final"
    BY <1>0, <2>1, JournalFacts DEF Journalled, OutputTypeOK
  <2>3. /\ target = quar[journal[p]].prior
        /\ state[quar[journal[p]].prior] = "final"
        /\ staging[journal[p]] = journal[p]
        /\ state[journal[p]] = "final"
        /\ quar[journal[p]].payload = NoDir
        /\ doomed[p] = journal[p]
        /\ role[p] = "recover"
    BY <1>0, <1>1, <1>d, <1>b, <2>1, <2>2 DEF OnDisk, NotExchanged, Sound, Reverting
  <2>4a. place'[p] = "moveBack"
    BY <1>0, <1>1, <1>d, <1>b, <2>1, <2>2, <2>3 DEF Restored, StandAt, OutputTypeOK, OutputTypes,
       NotExchanged, Sound, Reverting
  <2>5. TargetFinal'
    BY <1>0, <1>1, <1>d, <1>b, <2>1, <2>2, <2>3, <2>4a DEF TargetFinal, OutputTypeOK, OutputTypes, Paths
  <2>6. OneJournal'
    <3>1. \A r \in Dirs : r # journal[p] => ~quar'[r].record /\ quar'[r].payload = NoDir
      BY <1>0, <1>1, <1>d, <1>b, <2>1, <2>2, <2>3, <2>4a
    <3>2. /\ quar'[journal[p]].record /\ quar'[journal[p]].root /\ quar'[journal[p]].prior # NoDir /\ quar'[journal[p]].prior # journal[p]
          /\ staging'[journal[p]] \in {NoDir, journal[p], quar'[journal[p]].prior}
          /\ staging'[journal[p]] = journal[p] => state'[journal[p]] = "final"
      BY <1>0, <1>1, <1>d, <1>b, <2>1, <2>2, <2>3, <2>4a DEF OutputTypeOK, OutputTypes, OutputAssumption
    <3> QED  BY <1>0, <3>1, <3>2, OnlyJournal
  <2>7. place'[p] # "idle" => OnDisk(p)'
    <3>1. CASE place'[p] = "moveBack"
      <4>1. /\ journal[p] # NoDir
            /\ journal'[p] = journal[p]
            /\ quar'[journal[p]].record
            /\ known'[p] = quar'[journal[p]].ver
            /\ quar'[journal[p]].prior # NoDir /\ quar'[journal[p]].prior # journal[p]
            /\ target' = quar'[journal[p]].prior
            /\ state'[quar'[journal[p]].prior] = "final"
            /\ staging'[journal[p]] = journal[p]
            /\ state'[journal[p]] = "final"
            /\ quar'[journal[p]].payload = NoDir
            /\ doomed'[p] = journal[p]
            /\ role'[p] = "recover"
        BY <1>0, <1>1, <1>d, <1>b, <2>1, <2>2, <2>3, <2>4a, <3>1 DEF OutputAssumption
      <4> QED  BY <1>0, <3>1, <4>1, AtRestored
    <3> QED  BY <1>b, <3>1
  <2>8. place'[p] = "idle" => \A q \in Dirs : quar'[q].record => Unattended(q)'
    BY <1>0, <1>1, <1>d, <1>b, <2>1, <2>2, <2>3, <2>4a DEF OnDisk, NoJournal, Journalled, Unjournalled,
       Sound, Published, PriorStaged, PriorQuarantined, PriorRemoved, NotExchanged, TargetMissing,
       Recoverable, SetAside, Away, Shelved, Tearing, Undoing, Undone, Unattended, Completing, Reverting,
       incidents
  <2> QED  BY <2>1, <2>2, <2>3, <2>4a, <2>5, <2>6, <2>7, <2>8 DEF Sequential
<1> QED  BY <1>2, <1>3, <1>3a, <1>4, <1>4a, <1>5, <1>6, <1>6a, <1>7, <1>7a, <1>8, <1>9, <1>10 DEF OutputTypeOK

LEMMA MoveStagingStep ==
  ASSUME OutputAssumption, OutputInv, Beside, NEW p \in Publishers, MoveStaging(p)
  PROVE  OutputInv'
<1> DEFINE j == journal[p]
<1> USE DEF OutputBase, OutputInv, Beside
<1>0. /\ place[p] \in {"move", "moveBack"}
      /\ mine[p] \in Dirs
      /\ journal[p] \in Dirs /\ quar[journal[p]].ver > 0
      /\ role[p] # "recover" => journal[p] = mine[p] /\ quar[mine[p]].prior = prior[p] /\ prior[p] # NoDir /\ doomed[p] = prior[p]
      /\ \A o \in Publishers : place[o] # "idle" => mine[o] \in Dirs
      /\ \A o \in Publishers \ {p} : place[o] # "idle" => mine[o] # mine[p]
      /\ \A o \in Publishers : place[o] \in Unjournalled => mine[o] \in Dirs /\ quar[mine[o]].ver = 0
      /\ \A o \in Publishers : place[o] = "removing" => journal[o] \in Dirs /\ quar[journal[o]].ver > 0
  BY WorkerFacts DEF MoveStaging, Journalled
<1>c. \A o \in Publishers : place[o] \in {"commit", "prior", "publish", "journal"} =>
        /\ mine[o] \in Dirs /\ staging[mine[o]] = mine[o] /\ target # mine[o]
        /\ \A r \in Dirs : quar[r].payload # mine[o] /\ (staging[r] = mine[o] => r = mine[o])
  BY BuiltFacts
<1>1. CASE CanQuarantine(j, staging[j])
  <2>a. PayloadBecomes(j, staging[j])
    BY <1>0, <1>1, PayloadFacts DEF MoveStaging, StandAt, OutputTypeOK, OutputTypes, CanQuarantine, Paths,
       Quarantine
  <2>d. /\ role[p] = "recover"
    BY <1>0 DEF OutputTypeOK, OutputTypes, OutputRoles, Committing
  <2>1. /\ staging' \in [Dirs -> Paths] /\ staging'[j] = NoDir /\ \A b \in Dirs : b # j => staging'[b] = staging[b]
        /\ UNCHANGED <<target, state>>
        /\ staging[j] # NoDir
        /\ quar[j].payload = NoDir
    <3>1. /\ staging' \in [Dirs -> Paths] /\ staging'[j] = NoDir /\ \A b \in Dirs : b # j => staging'[b] = staging[b]
      BY <1>0, <1>1, <2>d DEF MoveStaging, StandAt, OutputTypeOK, OutputTypes, CanQuarantine, onDisk,
         States, Paths
    <3>2. /\ quar[j].payload = NoDir
      BY <1>0, <1>1, <2>d DEF MoveStaging, StandAt, OutputTypeOK, OutputTypes, CanQuarantine, onDisk,
         States, Paths
    <3>3. /\ UNCHANGED <<target, state>>
          /\ staging[j] # NoDir
      BY <1>0, <1>1, <2>d DEF MoveStaging, StandAt, OutputTypeOK, OutputTypes, CanQuarantine, onDisk,
         States, Paths
    <3> QED  BY <3>1, <3>2, <3>3
  <2>b. /\ place' \in [Publishers -> OutputPlaces] /\ place'[p] = (IF place[p] = "move" THEN "note" ELSE "purge") /\ \A b \in Publishers : b # p => place'[b] = place[b]
        /\ UNCHANGED <<mine, prior, unseen, matched, journal, known, doomed, role, incidents>>
    <3>1. /\ place' \in [Publishers -> OutputPlaces] /\ place'[p] = (IF place[p] = "move" THEN "note" ELSE "purge") /\ \A b \in Publishers : b # p => place'[b] = place[b]
      BY <1>0, <1>1, <2>d DEF MoveStaging, StandAt, OutputTypeOK, OutputTypes, OutputPlaces
    <3>2. /\ UNCHANGED <<mine, prior, unseen, matched, journal, known, doomed, role, incidents>>
      BY <1>0, <1>1, <2>d DEF MoveStaging, StandAt, OutputTypeOK, OutputTypes, CanQuarantine, Paths, Beside
    <3> QED  BY <3>1, <3>2
  <2>e. \A r \in Dirs : quar[r].ver > 0 => quar'[r].ver > 0 /\ quar'[r].prior = quar[r].prior
    BY <1>0, <1>1, <2>a, <2>1, <2>d, <2>b DEF OutputTypeOK, OutputTypes, PayloadBecomes
  <2>2. OutputTypes'
    BY <1>0, <1>1, <2>a, <2>1, <2>d, <2>b DEF OutputTypeOK, OutputTypes, PayloadBecomes, OutputPlaces,
       States, Paths, Quarantine, incidents, Beside
  <2>3. OnePlace'
    BY <1>0, <1>1, <2>a, <2>1, <2>d, <2>b DEF OutputTypeOK, OutputTypes, PayloadBecomes, OnePlace
  <2>3a. OnePayload'
    BY <1>0, <1>1, <2>a, <2>1, <2>d, <2>b DEF OutputTypeOK, OutputTypes, PayloadBecomes, OnePlace, OnePayload
  <2>4. Blank'
    BY <1>0, <1>1, <2>a, <2>1, <2>d DEF OutputTypeOK, OutputTypes, PayloadBecomes, Blank, Unbuilt,
       OutputAssumption
  <2>4a. Owners'
    BY <1>0, <1>1, <2>a, <2>1, <2>d, <2>b DEF OutputTypeOK, OutputTypes, PayloadBecomes, Owners
  <2>5. OutputRoles'
    BY <1>0, <2>b, <2>d DEF OutputTypeOK, OutputTypes, OutputRoles, Recovering, Committing, Swapping, Beside
  <2>6. MadeOnce'
    BY <1>0, <2>a, <2>d, <2>e DEF OutputTypeOK, OutputTypes, PayloadBecomes, MadeOnce
  <2>6a. Unmade'
    BY <1>0, <2>a, <2>b, <2>d DEF OutputTypeOK, OutputTypes, PayloadBecomes, Unmade, Unjournalled
  <2>7. Seen'
    BY <1>0, <2>b, <2>d, <2>e DEF OutputTypeOK, OutputTypes, Seen, Journalled
  <2>7a. Written'
    BY <1>0, <2>b, <2>d, <2>e DEF OutputTypeOK, OutputTypes, Written, Journalled, Seen
  <2>8. Built'
    BY <1>0, <1>1, <2>a, <2>1, <2>d, <2>b, <1>c DEF OutputTypeOK, OutputTypes, Built, Unjournalled
  <2>9. exchanging => Exchanged'
    <3> SUFFICES ASSUME exchanging, Exchanged  PROVE Exchanged'
      OBVIOUS
    <3>1. TargetComplete'
      BY <1>0, <1>1, <2>a, <2>1, <2>d, <2>b DEF OutputTypeOK, OutputTypes, Exchanged, TargetComplete,
         ReadyBack, OnePlace, Paths, OutputAssumption
    <3>2. ReadyBack'
      BY <1>0, <1>1, <2>a, <2>1, <2>d, <2>b DEF OutputTypeOK, OutputTypes, PayloadBecomes, Exchanged,
         ReadyBack, OnePlace, Paths, OutputAssumption
    <3>3. NoneRenames'
      BY <1>0, <1>1, <2>a, <2>1, <2>d, <2>b DEF OutputTypeOK, OutputTypes, Exchanged, NoneRenames, Renaming
    <3>4. SwapsBuilt'
      BY <1>0, <1>1, <2>a, <2>1, <2>d, <2>b DEF OutputTypeOK, OutputTypes, Exchanged, SwapsBuilt, ReadyBack,
         Paths, OutputAssumption
    <3>5. AwayFirst'
      BY <1>0, <1>1, <2>a, <2>1, <2>d, <2>b DEF OutputTypeOK, OutputTypes, PayloadBecomes, Exchanged,
         AwayFirst, Paths, OutputAssumption
    <3>6. UsersOwn'
      BY <1>0, <1>1, <2>a, <2>1, <2>d, <2>b DEF Exchanged, UsersOwn, OutputAssumption
    <3> QED  BY <3>1, <3>2, <3>3, <3>4, <3>5, <3>6 DEF Exchanged
  <2>10. ~met' /\ edits' = 0 => Sequential'
    <3> SUFFICES ASSUME ~met', edits' = 0  PROVE Sequential'
      OBVIOUS
    <3>1. /\ Sequential /\ TargetFinal /\ OneJournal /\ OneWorks' /\ OnDisk(p)
          /\ \A o \in Publishers : o # p => place[o] = "idle" /\ place'[o] = "idle"
      BY <1>0, <2>b, AloneFacts DEF incidents, Sequential
    <3>2. /\ quar[journal[p]].record /\ quar[journal[p]].root /\ known[p] = quar[journal[p]].ver
          /\ quar[journal[p]].prior # journal[p] /\ quar[journal[p]].prior # NoDir /\ quar[journal[p]].prior \in Dirs \cup UserDirs
          /\ staging[journal[p]] \in {NoDir, journal[p], quar[journal[p]].prior}
          /\ staging[journal[p]] = journal[p] => state[journal[p]] = "final"
          /\ target # NoDir => target # staging[journal[p]] /\ target # quar[journal[p]].payload
          /\ staging[journal[p]] # NoDir => staging[journal[p]] # quar[journal[p]].payload
          /\ \A r \in Dirs : r # journal[p] => ~quar[r].record /\ quar[r].payload = NoDir
          /\ target # NoDir => target \in Dirs \cup UserDirs /\ state[target] = "final"
      BY <1>0, <3>1, JournalFacts DEF Journalled, OutputTypeOK
    <3>3a. \/ (target = journal[p] /\ state[journal[p]] = "final" /\ quar[journal[p]].payload = NoDir /\ staging[journal[p]] = quar[journal[p]].prior /\ state[quar[journal[p]].prior] = "final" /\ doomed[p] = quar[journal[p]].prior)
         \/ (target = quar[journal[p]].prior /\ state[quar[journal[p]].prior] = "final" /\ staging[journal[p]] = journal[p] /\ state[journal[p]] = "final" /\ quar[journal[p]].payload = NoDir /\ doomed[p] = journal[p] /\ role[p] = "recover")
      BY <1>0, <1>1, <2>a, <2>1, <2>d, <2>b, <3>1, <3>2 DEF OnDisk, Completing, PriorStaged, Published,
         Sound, Reverting, NotExchanged
    <3>5. TargetFinal'
      BY <1>0, <1>1, <2>a, <2>1, <2>d, <2>b, <3>1, <3>2, <3>3a DEF TargetFinal, PayloadBecomes,
         OutputTypeOK, OutputTypes, Paths
    <3>6. OneJournal'
      <4>1. \A r \in Dirs : r # journal[p] => ~quar'[r].record /\ quar'[r].payload = NoDir
        BY <1>0, <2>a, <2>b, <2>d, <3>1, <3>2, <3>3a DEF PayloadBecomes
      <4>2. /\ quar'[journal[p]].record /\ quar'[journal[p]].root /\ quar'[journal[p]].prior # NoDir /\ quar'[journal[p]].prior # journal[p]
            /\ staging'[journal[p]] \in {NoDir, journal[p], quar'[journal[p]].prior}
            /\ staging'[journal[p]] = journal[p] => state'[journal[p]] = "final"
        BY <1>0, <1>1, <2>a, <2>1, <2>d, <2>b, <3>1, <3>2, <3>3a DEF PayloadBecomes, OutputTypeOK,
           OutputTypes, OutputAssumption
      <4> QED  BY <1>0, <4>1, <4>2, OnlyJournal
    <3>7. place'[p] # "idle" => OnDisk(p)'
      <4>1. CASE place'[p] = "note"
        <5>1. /\ journal[p] # NoDir
              /\ journal'[p] = journal[p]
              /\ quar'[journal[p]].record
              /\ known'[p] = quar'[journal[p]].ver
              /\ quar'[journal[p]].prior # NoDir /\ quar'[journal[p]].prior # journal[p]
          BY <1>0, <1>1, <2>a, <2>1, <2>d, <2>b, <3>1, <3>2, <3>3a, <4>1 DEF PayloadBecomes, OutputAssumption
        <5>2. \/ target' = journal[p] /\ state'[journal[p]] = "final" /\ quar'[journal[p]].payload = quar'[journal[p]].prior /\ state'[quar'[journal[p]].prior] = "final" /\ staging'[journal[p]] = NoDir /\ doomed'[p] = quar'[journal[p]].prior
              \/ target' = quar'[journal[p]].prior /\ state'[quar'[journal[p]].prior] = "final" /\ staging'[journal[p]] = NoDir /\ quar'[journal[p]].payload = journal[p] /\ state'[journal[p]] = "final" /\ doomed'[p] = journal[p] /\ role'[p] = "recover"
          BY <1>0, <1>1, <2>a, <2>1, <2>d, <2>b, <3>1, <3>2, <3>3a, <4>1 DEF PayloadBecomes, OutputAssumption
        <5> QED  BY <1>0, <4>1, <5>1, <5>2, AtPurge
      <4>2. CASE place'[p] = "purge"
        <5>1. /\ journal[p] # NoDir
              /\ journal'[p] = journal[p]
              /\ quar'[journal[p]].record
              /\ known'[p] = quar'[journal[p]].ver
              /\ quar'[journal[p]].prior # NoDir /\ quar'[journal[p]].prior # journal[p]
          BY <1>0, <1>1, <2>a, <2>1, <2>d, <2>b, <3>1, <3>2, <3>3a, <4>2 DEF PayloadBecomes, OutputAssumption
        <5>2. \/ target' = journal[p] /\ state'[journal[p]] = "final" /\ quar'[journal[p]].payload = quar'[journal[p]].prior /\ state'[quar'[journal[p]].prior] = "final" /\ staging'[journal[p]] = NoDir /\ doomed'[p] = quar'[journal[p]].prior
              \/ target' = quar'[journal[p]].prior /\ state'[quar'[journal[p]].prior] = "final" /\ staging'[journal[p]] = NoDir /\ quar'[journal[p]].payload = journal[p] /\ state'[journal[p]] = "final" /\ doomed'[p] = journal[p] /\ role'[p] = "recover"
          BY <1>0, <1>1, <2>a, <2>1, <2>d, <2>b, <3>1, <3>2, <3>3a, <4>2 DEF PayloadBecomes, OutputAssumption
        <5> QED  BY <1>0, <4>2, <5>1, <5>2, AtPurge
      <4> QED  BY <2>b, <4>1, <4>2
    <3>8. place'[p] # "idle"
      BY <2>b
    <3> QED  BY <3>1, <3>2, <3>3a, <3>5, <3>6, <3>7, <3>8 DEF Sequential
  <2> QED  BY <2>2, <2>3, <2>3a, <2>4, <2>4a, <2>5, <2>6, <2>6a, <2>7, <2>7a, <2>8, <2>9, <2>10 DEF
              OutputTypeOK
<1>2. CASE ~CanQuarantine(j, staging[j])
  <2>1. place' = [place EXCEPT ![p] = "idle"] /\ UNCHANGED <<onDisk, mine, prior, unseen, matched, journal, known, doomed, role, incidents>>
    BY <1>0, <1>2 DEF MoveStaging, StandAt, onDisk
  <2>2. "idle" \in {"idle", "abort"} /\ ("idle" = "abort" => role[p] # "recover") /\ place[p] # "idle"
    BY <1>0 DEF OutputTypeOK, OutputTypes, OutputRoles, Recovering, Committing
  <2>3. strikes' \in 0..MaxStrikes /\ edits' = edits /\ deep' \in BOOLEAN
    BY <2>1 DEF OutputTypeOK, OutputTypes, incidents
  <2>4. OutputBase' /\ (exchanging => Exchanged')
    BY <2>1, <2>2, <2>3, GiveUp DEF onDisk
  <2>b. /\ place' \in [Publishers -> OutputPlaces] /\ place'[p] = "idle" /\ \A b \in Publishers : b # p => place'[b] = place[b]
        /\ UNCHANGED <<target, staging, quar, state, mine, prior, unseen, matched, journal, known, doomed, role, incidents>>
    BY <2>1, <2>2 DEF OutputTypeOK, OutputTypes, OutputPlaces, onDisk
  <2>10. ~met' /\ edits' = 0 => Sequential'
    <3> SUFFICES ASSUME ~met', edits' = 0  PROVE Sequential'
      OBVIOUS
    <3>1. /\ Sequential /\ TargetFinal /\ OneJournal /\ OneWorks' /\ OnDisk(p)
          /\ \A o \in Publishers : o # p => place[o] = "idle" /\ place'[o] = "idle"
      BY <1>0, <2>b, AloneFacts DEF incidents, Sequential
    <3>2. /\ quar[journal[p]].record /\ quar[journal[p]].root /\ known[p] = quar[journal[p]].ver
          /\ quar[journal[p]].prior # journal[p] /\ quar[journal[p]].prior # NoDir /\ quar[journal[p]].prior \in Dirs \cup UserDirs
          /\ staging[journal[p]] \in {NoDir, journal[p], quar[journal[p]].prior}
          /\ staging[journal[p]] = journal[p] => state[journal[p]] = "final"
          /\ target # NoDir => target # staging[journal[p]] /\ target # quar[journal[p]].payload
          /\ staging[journal[p]] # NoDir => staging[journal[p]] # quar[journal[p]].payload
          /\ \A r \in Dirs : r # journal[p] => ~quar[r].record /\ quar[r].payload = NoDir
          /\ target # NoDir => target \in Dirs \cup UserDirs /\ state[target] = "final"
      BY <1>0, <3>1, JournalFacts DEF Journalled, OutputTypeOK
    <3>3a. \/ (target = journal[p] /\ state[journal[p]] = "final" /\ quar[journal[p]].payload = NoDir /\ staging[journal[p]] = quar[journal[p]].prior /\ state[quar[journal[p]].prior] = "final" /\ doomed[p] = quar[journal[p]].prior)
         \/ (target = quar[journal[p]].prior /\ state[quar[journal[p]].prior] = "final" /\ staging[journal[p]] = journal[p] /\ state[journal[p]] = "final" /\ quar[journal[p]].payload = NoDir /\ doomed[p] = journal[p] /\ role[p] = "recover")
      BY <1>0, <1>2, <2>2, <2>b, <3>1, <3>2 DEF OnDisk, Completing, PriorStaged, Published, Sound,
         Reverting, NotExchanged
    <3> QED  BY <1>0, <1>2, <2>2, <2>b, <3>1, <3>2, <3>3a DEF Sound, Published, PriorStaged,
                PriorQuarantined, PriorRemoved, NotExchanged, TargetMissing, Recoverable, SetAside, Away,
                Shelved, Tearing, Undoing, Undone, Unattended, Completing, Reverting, CanQuarantine,
                OutputAssumption
  <2> QED  BY <2>4, <2>10
<1> QED  BY <1>1, <1>2 DEF MoveStaging

LEMMA NoteStep ==
  ASSUME OutputAssumption, OutputInv, Beside, NEW p \in Publishers, Note(p)
  PROVE  OutputInv'
<1> DEFINE j == journal[p]
<1> USE DEF OutputBase, OutputInv, Beside
<1>0. /\ place[p] \in {"note", "exchanged", "quarantined", "settle"}
      /\ mine[p] \in Dirs
      /\ journal[p] \in Dirs /\ quar[journal[p]].ver > 0
      /\ role[p] # "recover" => journal[p] = mine[p] /\ quar[mine[p]].prior = prior[p] /\ prior[p] # NoDir /\ doomed[p] = prior[p]
      /\ \A o \in Publishers : place[o] # "idle" => mine[o] \in Dirs
      /\ \A o \in Publishers \ {p} : place[o] # "idle" => mine[o] # mine[p]
      /\ \A o \in Publishers : place[o] \in Unjournalled => mine[o] \in Dirs /\ quar[mine[o]].ver = 0
      /\ \A o \in Publishers : place[o] = "removing" => journal[o] \in Dirs /\ quar[journal[o]].ver > 0
  BY WorkerFacts DEF Note, Journalled
<1>c. \A o \in Publishers : place[o] \in {"commit", "prior", "publish", "journal"} =>
        /\ mine[o] \in Dirs /\ staging[mine[o]] = mine[o] /\ target # mine[o]
        /\ \A r \in Dirs : quar[r].payload # mine[o] /\ (staging[r] = mine[o] => r = mine[o])
  BY BuiltFacts
<1>1. CASE quar[j].root
  <2>a. JournalBecomes(j, TRUE, TRUE, quar[j].ver + 1)
    BY <1>0, <1>1, UpdateFacts DEF Note, StandAt, OutputTypeOK, OutputTypes, Persist, Quarantine, Paths,
       Quarantine
  <2>d. /\ role[p] # "withdraw"
    BY <1>0 DEF OutputRoles
  <2>1. /\ UNCHANGED <<target, staging, state>>
    BY <1>0, <1>1, <2>d DEF Note, StandAt, OutputTypeOK, OutputTypes, Persist, Quarantine, onDisk, States,
       Paths
  <2>b. /\ place' \in [Publishers -> OutputPlaces] /\ place'[p] \in {"finish", "place", "purge"} /\ \A b \in Publishers : b # p => place'[b] = place[b]
        /\ role[p] = "recover" => place'[p] = "purge"
        /\ known' \in [Publishers -> Nat] /\ known'[p] = quar[j].ver + 1 /\ \A b \in Publishers : b # p => known'[b] = known[b]
        /\ UNCHANGED <<mine, prior, unseen, matched, journal, doomed, role, incidents>>
    <3>1. /\ place' \in [Publishers -> OutputPlaces] /\ place'[p] \in {"finish", "place", "purge"} /\ \A b \in Publishers : b # p => place'[b] = place[b]
      BY <1>0, <1>1, <2>d DEF Note, StandAt, OutputTypeOK, OutputTypes, OutputPlaces
    <3>2. /\ role[p] = "recover" => place'[p] = "purge"
      BY <1>0, <1>1, <2>d DEF Note, StandAt, OutputTypeOK, OutputTypes, OutputPlaces, OutputRoles, Recovering
    <3>3. /\ known' \in [Publishers -> Nat] /\ known'[p] = quar[j].ver + 1 /\ \A b \in Publishers : b # p => known'[b] = known[b]
      BY <1>0, <1>1, <2>d DEF Note, StandAt, OutputTypeOK, OutputTypes, Persist, Quarantine, Paths, Beside
    <3>4. /\ UNCHANGED <<mine, prior, unseen, matched, journal, doomed, role, incidents>>
      BY <1>0, <1>1, <2>d DEF Note, StandAt, OutputTypeOK, OutputTypes, Persist, Quarantine, Paths, Beside
    <3> QED  BY <3>1, <3>2, <3>3, <3>4
  <2>e. \A r \in Dirs : quar[r].ver > 0 => quar'[r].ver > 0 /\ quar'[r].prior = quar[r].prior
    BY <1>0, <1>1, <2>a, <2>1, <2>d, <2>b DEF OutputTypeOK, OutputTypes, JournalBecomes
  <2>2. OutputTypes'
    BY <1>0, <1>1, <2>a, <2>1, <2>d, <2>b DEF OutputTypeOK, OutputTypes, JournalBecomes, OutputPlaces,
       States, Paths, Quarantine, incidents, Beside
  <2>3. OnePlace'
    BY <1>0, <1>1, <2>a, <2>1, <2>d DEF OutputTypeOK, OutputTypes, JournalBecomes, OnePlace
  <2>3a. OnePayload'
    BY <1>0, <1>1, <2>a, <2>1, <2>d DEF OutputTypeOK, OutputTypes, JournalBecomes, OnePlace, OnePayload
  <2>4. Blank'
    BY <1>0, <1>1, <2>a, <2>1, <2>d DEF OutputTypeOK, OutputTypes, JournalBecomes, Blank, Unbuilt,
       OutputAssumption
  <2>4a. Owners'
    BY <1>0, <1>1, <2>a, <2>1, <2>d, <2>b DEF OutputTypeOK, OutputTypes, JournalBecomes, Owners
  <2>5. OutputRoles'
    BY <1>0, <2>b, <2>d DEF OutputTypeOK, OutputTypes, OutputRoles, Recovering, Committing, Swapping, Beside
  <2>6. MadeOnce'
    BY <1>0, <2>a, <2>d, <2>e DEF JournalBecomes, MadeOnce
  <2>6a. Unmade'
    <3>1. \A r \in Dirs : quar[r].ver = 0 => quar'[r].ver = 0
      BY <1>0, <2>a DEF JournalBecomes
    <3> QED  BY <1>0, <2>b, <2>d, <3>1 DEF OutputTypeOK, OutputTypes, Unmade, Unjournalled
  <2>7. Seen'
    BY <1>0, <2>b, <2>d, <2>e DEF OutputTypeOK, OutputTypes, Seen, Journalled
  <2>7a. Written'
    BY <1>0, <2>b, <2>d, <2>e DEF OutputTypeOK, OutputTypes, Written, Journalled, Seen
  <2>8. Built'
    BY <1>0, <1>1, <2>a, <2>1, <2>d, <2>b, <1>c DEF OutputTypeOK, OutputTypes, Built, Unjournalled
  <2>9. exchanging => Exchanged'
    <3> SUFFICES ASSUME exchanging, Exchanged  PROVE Exchanged'
      OBVIOUS
    <3>1. TargetComplete'
      BY <1>0, <1>1, <2>a, <2>1, <2>d, <2>b DEF OutputTypeOK, OutputTypes, Exchanged, TargetComplete,
         ReadyBack, OnePlace, Paths, OutputAssumption
    <3>2. ReadyBack'
      BY <1>0, <1>1, <2>a, <2>1, <2>d, <2>b DEF OutputTypeOK, OutputTypes, JournalBecomes, Exchanged,
         ReadyBack, OnePlace, Paths, OutputAssumption
    <3>3. NoneRenames'
      BY <1>0, <1>1, <2>a, <2>1, <2>d, <2>b DEF OutputTypeOK, OutputTypes, Exchanged, NoneRenames, Renaming,
         Note, StandAt
    <3>4. SwapsBuilt'
      BY <1>0, <1>1, <2>a, <2>1, <2>d, <2>b DEF OutputTypeOK, OutputTypes, Exchanged, SwapsBuilt, ReadyBack,
         Paths, OutputAssumption
    <3>5. AwayFirst'
      BY <1>0, <1>1, <2>a, <2>1, <2>d, <2>b DEF OutputTypeOK, OutputTypes, JournalBecomes, Exchanged,
         AwayFirst, Paths, OutputAssumption
    <3>6. UsersOwn'
      BY <1>0, <1>1, <2>a, <2>1, <2>d, <2>b DEF Exchanged, UsersOwn, OutputAssumption
    <3> QED  BY <3>1, <3>2, <3>3, <3>4, <3>5, <3>6 DEF Exchanged
  <2>10. ~met' /\ edits' = 0 => Sequential'
    <3> SUFFICES ASSUME ~met', edits' = 0  PROVE Sequential'
      OBVIOUS
    <3>1. /\ Sequential /\ TargetFinal /\ OneJournal /\ OneWorks' /\ OnDisk(p)
          /\ \A o \in Publishers : o # p => place[o] = "idle" /\ place'[o] = "idle"
      BY <1>0, <2>b, AloneFacts DEF incidents, Sequential
    <3>2. /\ quar[journal[p]].record /\ quar[journal[p]].root /\ known[p] = quar[journal[p]].ver
          /\ quar[journal[p]].prior # journal[p] /\ quar[journal[p]].prior # NoDir /\ quar[journal[p]].prior \in Dirs \cup UserDirs
          /\ staging[journal[p]] \in {NoDir, journal[p], quar[journal[p]].prior}
          /\ staging[journal[p]] = journal[p] => state[journal[p]] = "final"
          /\ target # NoDir => target # staging[journal[p]] /\ target # quar[journal[p]].payload
          /\ staging[journal[p]] # NoDir => staging[journal[p]] # quar[journal[p]].payload
          /\ \A r \in Dirs : r # journal[p] => ~quar[r].record /\ quar[r].payload = NoDir
          /\ target # NoDir => target \in Dirs \cup UserDirs /\ state[target] = "final"
      BY <1>0, <3>1, JournalFacts DEF Journalled, OutputTypeOK
    <3>3a. place[p] = "exchanged" => (target = journal[p] /\ state[journal[p]] = "final" /\ quar[journal[p]].payload = NoDir /\ staging[journal[p]] = quar[journal[p]].prior /\ state[quar[journal[p]].prior] = "final")
      BY <1>0, <1>1, <2>a, <2>1, <2>d, <2>b, <3>1, <3>2 DEF OnDisk, Completing, Shelved, PriorQuarantined,
         Published, Sound, Reverting, Undoing, PriorStaged, Away, TargetMissing
    <3>3b. place[p] = "quarantined" => (target = NoDir /\ staging[journal[p]] = journal[p] /\ state[journal[p]] = "final" /\ quar[journal[p]].payload = quar[journal[p]].prior /\ state[quar[journal[p]].prior] = "final")
      BY <1>0, <1>1, <2>a, <2>1, <2>d, <2>b, <3>1, <3>2 DEF OnDisk, Completing, Shelved, PriorQuarantined,
         Published, Sound, Reverting, Undoing, PriorStaged, Away, TargetMissing
    <3>3c. place[p] \in {"note", "settle"} =>
           \/ (target = journal[p] /\ state[journal[p]] = "final" /\ quar[journal[p]].payload = quar[journal[p]].prior /\ state[quar[journal[p]].prior] = "final" /\ staging[journal[p]] = NoDir /\ doomed[p] = quar[journal[p]].prior)
           \/ (target = quar[journal[p]].prior /\ state[quar[journal[p]].prior] = "final" /\ staging[journal[p]] = NoDir /\ quar[journal[p]].payload = journal[p] /\ state[journal[p]] = "final" /\ doomed[p] = journal[p] /\ role[p] = "recover")
      BY <1>0, <1>1, <2>a, <2>1, <2>d, <2>b, <3>1, <3>2 DEF OnDisk, Completing, Shelved, PriorQuarantined,
         Published, Sound, Reverting, Undoing, PriorStaged, Away, TargetMissing
    <3>4a. place[p] = "exchanged" => exchanging
      BY <1>0, <1>1, <2>a, <2>1, <2>d, <2>b, <3>1, <3>2, <3>3a, <3>3b, <3>3c DEF OutputRoles, Swapping
    <3>4b. place'[p] = (CASE place[p] = "exchanged" -> "finish" [] place[p] = "quarantined" -> "place" [] OTHER -> "purge")
      BY <1>0, <1>1, <2>a, <2>1, <2>d, <2>b, <3>1, <3>2, <3>3a, <3>3b, <3>3c DEF Note, StandAt,
         OutputTypeOK, OutputTypes, Persist, Quarantine, Completing, Shelved, PriorQuarantined, Published,
         Sound, Reverting, Undoing, PriorStaged, Away, TargetMissing
    <3>5. TargetFinal'
      BY <1>0, <1>1, <2>a, <2>1, <2>d, <2>b, <3>1, <3>2, <3>3a, <3>3b, <3>3c, <3>4a, <3>4b DEF TargetFinal,
         JournalBecomes, OutputTypeOK, OutputTypes, Paths
    <3>6. OneJournal'
      <4>1. \A r \in Dirs : r # journal[p] => ~quar'[r].record /\ quar'[r].payload = NoDir
        BY <1>0, <2>a, <2>b, <2>d, <3>1, <3>2, <3>3a, <3>3b, <3>3c, <3>4a, <3>4b DEF JournalBecomes
      <4>2. /\ quar'[journal[p]].record /\ quar'[journal[p]].root /\ quar'[journal[p]].prior # NoDir /\ quar'[journal[p]].prior # journal[p]
            /\ staging'[journal[p]] \in {NoDir, journal[p], quar'[journal[p]].prior}
            /\ staging'[journal[p]] = journal[p] => state'[journal[p]] = "final"
        BY <1>0, <1>1, <2>a, <2>1, <2>d, <2>b, <3>1, <3>2, <3>3a, <3>3b, <3>3c, <3>4a, <3>4b DEF
           JournalBecomes, OutputTypeOK, OutputTypes, OutputAssumption
      <4> QED  BY <1>0, <4>1, <4>2, OnlyJournal
    <3>7. place'[p] # "idle" => OnDisk(p)'
      <4>1. CASE place'[p] = "finish"
        <5>1. /\ journal[p] # NoDir
              /\ journal'[p] = journal[p]
              /\ quar'[journal[p]].record
              /\ known'[p] = quar'[journal[p]].ver
              /\ quar'[journal[p]].prior # NoDir /\ quar'[journal[p]].prior # journal[p]
          BY <1>0, <1>1, <2>a, <2>1, <2>d, <2>b, <3>1, <3>2, <3>3a, <3>3b, <3>3c, <3>4a, <3>4b, <4>1 DEF
             JournalBecomes, OutputAssumption
        <5>2. \/ exchanging' /\ target' = journal[p] /\ state'[journal[p]] = "final" /\ quar'[journal[p]].payload = NoDir /\ staging'[journal[p]] = quar'[journal[p]].prior /\ state'[quar'[journal[p]].prior] = "final"
              \/ ~exchanging' /\ target' = journal[p] /\ state'[journal[p]] = "final" /\ quar'[journal[p]].payload = quar'[journal[p]].prior /\ state'[quar'[journal[p]].prior] = "final" /\ staging'[journal[p]] = NoDir
          BY <1>0, <1>1, <2>a, <2>1, <2>d, <2>b, <3>1, <3>2, <3>3a, <3>3b, <3>3c, <3>4a, <3>4b, <4>1 DEF
             JournalBecomes, OutputAssumption
        <5> QED  BY <1>0, <4>1, <5>1, <5>2, AtFinish
      <4>2. CASE place'[p] = "place"
        <5>1. /\ journal[p] # NoDir
              /\ journal'[p] = journal[p]
              /\ quar'[journal[p]].record
              /\ known'[p] = quar'[journal[p]].ver
              /\ quar'[journal[p]].prior # NoDir /\ quar'[journal[p]].prior # journal[p]
              /\ target' = NoDir
              /\ staging'[journal[p]] = journal[p]
              /\ quar'[journal[p]].payload = quar'[journal[p]].prior
              /\ state'[quar'[journal[p]].prior] = "final"
              /\ state'[journal[p]] = "final"
          BY <1>0, <1>1, <2>a, <2>1, <2>d, <2>b, <3>1, <3>2, <3>3a, <3>3b, <3>3c, <3>4a, <3>4b, <4>2 DEF
             JournalBecomes, OutputAssumption
        <5> QED  BY <1>0, <4>2, <5>1, AtPlace
      <4>3. CASE place'[p] = "purge"
        <5>1. /\ journal[p] # NoDir
              /\ journal'[p] = journal[p]
              /\ quar'[journal[p]].record
              /\ known'[p] = quar'[journal[p]].ver
              /\ quar'[journal[p]].prior # NoDir /\ quar'[journal[p]].prior # journal[p]
          BY <1>0, <1>1, <2>a, <2>1, <2>d, <2>b, <3>1, <3>2, <3>3a, <3>3b, <3>3c, <3>4a, <3>4b, <4>3 DEF
             JournalBecomes, OutputAssumption
        <5>2. \/ target' = journal[p] /\ state'[journal[p]] = "final" /\ quar'[journal[p]].payload = quar'[journal[p]].prior /\ state'[quar'[journal[p]].prior] = "final" /\ staging'[journal[p]] = NoDir /\ doomed'[p] = quar'[journal[p]].prior
              \/ target' = quar'[journal[p]].prior /\ state'[quar'[journal[p]].prior] = "final" /\ staging'[journal[p]] = NoDir /\ quar'[journal[p]].payload = journal[p] /\ state'[journal[p]] = "final" /\ doomed'[p] = journal[p] /\ role'[p] = "recover"
          BY <1>0, <1>1, <2>a, <2>1, <2>d, <2>b, <3>1, <3>2, <3>3a, <3>3b, <3>3c, <3>4a, <3>4b, <4>3 DEF
             JournalBecomes, OutputAssumption
        <5> QED  BY <1>0, <4>3, <5>1, <5>2, AtPurge
      <4> QED  BY <2>b, <4>1, <4>2, <4>3
    <3>8. place'[p] # "idle"
      BY <2>b
    <3> QED  BY <3>1, <3>2, <3>3a, <3>3b, <3>3c, <3>4a, <3>4b, <3>5, <3>6, <3>7, <3>8 DEF Sequential
  <2> QED  BY <2>2, <2>3, <2>3a, <2>4, <2>4a, <2>5, <2>6, <2>6a, <2>7, <2>7a, <2>8, <2>9, <2>10 DEF
              OutputTypeOK
<1>2. CASE ~quar[j].root
  <2>1. place' = [place EXCEPT ![p] = OnError(p)] /\ UNCHANGED <<onDisk, mine, prior, unseen, matched, journal, known, doomed, role, incidents>>
    BY <1>0, <1>2 DEF Note, StandAt, OnError, Persist, onDisk
  <2>2. OnError(p) \in {"idle", "abort"} /\ (OnError(p) = "abort" => role[p] # "recover") /\ place[p] # "idle"
    BY <1>0 DEF OutputTypeOK, OutputTypes, OnError, AfterFailedRmdir, OutputRoles, Recovering
  <2>3. strikes' \in 0..MaxStrikes /\ edits' = edits /\ deep' \in BOOLEAN
    BY <2>1 DEF OutputTypeOK, OutputTypes, incidents
  <2>4. OutputBase' /\ (exchanging => Exchanged')
    BY <2>1, <2>2, <2>3, GiveUp DEF onDisk
  <2>b. /\ place' \in [Publishers -> OutputPlaces] /\ place'[p] = OnError(p) /\ \A b \in Publishers : b # p => place'[b] = place[b]
        /\ UNCHANGED <<target, staging, quar, state, mine, prior, unseen, matched, journal, known, doomed, role, incidents>>
    BY <2>1, <2>2 DEF OutputTypeOK, OutputTypes, OutputPlaces, onDisk
  <2>10. ~met' /\ edits' = 0 => Sequential'
    <3> SUFFICES ASSUME ~met', edits' = 0  PROVE Sequential'
      OBVIOUS
    <3>1. /\ Sequential /\ TargetFinal /\ OneJournal /\ OneWorks' /\ OnDisk(p)
          /\ \A o \in Publishers : o # p => place[o] = "idle" /\ place'[o] = "idle"
      BY <1>0, <2>b, AloneFacts DEF incidents, Sequential
    <3>2. /\ quar[journal[p]].record /\ quar[journal[p]].root /\ known[p] = quar[journal[p]].ver
          /\ quar[journal[p]].prior # journal[p] /\ quar[journal[p]].prior # NoDir /\ quar[journal[p]].prior \in Dirs \cup UserDirs
          /\ staging[journal[p]] \in {NoDir, journal[p], quar[journal[p]].prior}
          /\ staging[journal[p]] = journal[p] => state[journal[p]] = "final"
          /\ target # NoDir => target # staging[journal[p]] /\ target # quar[journal[p]].payload
          /\ staging[journal[p]] # NoDir => staging[journal[p]] # quar[journal[p]].payload
          /\ \A r \in Dirs : r # journal[p] => ~quar[r].record /\ quar[r].payload = NoDir
          /\ target # NoDir => target \in Dirs \cup UserDirs /\ state[target] = "final"
      BY <1>0, <3>1, JournalFacts DEF Journalled, OutputTypeOK
    <3>3a. place[p] = "exchanged" => (target = journal[p] /\ state[journal[p]] = "final" /\ quar[journal[p]].payload = NoDir /\ staging[journal[p]] = quar[journal[p]].prior /\ state[quar[journal[p]].prior] = "final")
      BY <1>0, <1>2, <2>2, <2>b, <3>1, <3>2 DEF OnDisk, Completing, Shelved, PriorQuarantined, Published,
         Sound, Reverting, Undoing, PriorStaged, Away, TargetMissing
    <3>3b. place[p] = "quarantined" => (target = NoDir /\ staging[journal[p]] = journal[p] /\ state[journal[p]] = "final" /\ quar[journal[p]].payload = quar[journal[p]].prior /\ state[quar[journal[p]].prior] = "final")
      BY <1>0, <1>2, <2>2, <2>b, <3>1, <3>2 DEF OnDisk, Completing, Shelved, PriorQuarantined, Published,
         Sound, Reverting, Undoing, PriorStaged, Away, TargetMissing
    <3>3c. place[p] \in {"note", "settle"} =>
           \/ (target = journal[p] /\ state[journal[p]] = "final" /\ quar[journal[p]].payload = quar[journal[p]].prior /\ state[quar[journal[p]].prior] = "final" /\ staging[journal[p]] = NoDir /\ doomed[p] = quar[journal[p]].prior)
           \/ (target = quar[journal[p]].prior /\ state[quar[journal[p]].prior] = "final" /\ staging[journal[p]] = NoDir /\ quar[journal[p]].payload = journal[p] /\ state[journal[p]] = "final" /\ doomed[p] = journal[p] /\ role[p] = "recover")
      BY <1>0, <1>2, <2>2, <2>b, <3>1, <3>2 DEF OnDisk, Completing, Shelved, PriorQuarantined, Published,
         Sound, Reverting, Undoing, PriorStaged, Away, TargetMissing
    <3>4a. place[p] = "exchanged" => exchanging
      BY <1>0, <1>2, <2>2, <2>b, <3>1, <3>2, <3>3a, <3>3b, <3>3c DEF OutputRoles, Swapping
    <3>4b. place'[p] = (CASE place[p] = "exchanged" -> "finish" [] place[p] = "quarantined" -> "place" [] OTHER -> "purge")
      BY <1>0, <1>2, <2>2, <2>b, <3>1, <3>2, <3>3a, <3>3b, <3>3c DEF Note, StandAt, OnError, Persist,
         Completing, Shelved, PriorQuarantined, Published, Sound, Reverting, Undoing, PriorStaged, Away,
         TargetMissing
    <3> QED  BY <1>0, <1>2, <2>2, <2>b, <3>1, <3>2, <3>3a, <3>3b, <3>3c, <3>4a, <3>4b DEF Sound, Published,
                PriorStaged, PriorQuarantined, PriorRemoved, NotExchanged, TargetMissing, Recoverable,
                SetAside, Away, Shelved, Tearing, Undoing, Undone, Unattended, Completing, Reverting,
                OutputAssumption
  <2> QED  BY <2>4, <2>10
<1> QED  BY <1>1, <1>2 DEF Note

LEMMA PurgeStep ==
  ASSUME OutputAssumption, OutputInv, Beside, NEW p \in Publishers, Purge(p)
  PROVE  OutputInv'
<1> DEFINE j == journal[p]
<1> USE DEF OutputBase, OutputInv, Beside
<1>0. /\ place[p] = "purge"
      /\ mine[p] \in Dirs
      /\ journal[p] \in Dirs /\ quar[journal[p]].ver > 0
      /\ role[p] # "recover" => journal[p] = mine[p] /\ quar[mine[p]].prior = prior[p] /\ prior[p] # NoDir /\ doomed[p] = prior[p]
      /\ \A o \in Publishers : place[o] # "idle" => mine[o] \in Dirs
      /\ \A o \in Publishers \ {p} : place[o] # "idle" => mine[o] # mine[p]
      /\ \A o \in Publishers : place[o] \in Unjournalled => mine[o] \in Dirs /\ quar[mine[o]].ver = 0
      /\ \A o \in Publishers : place[o] = "removing" => journal[o] \in Dirs /\ quar[journal[o]].ver > 0
  BY WorkerFacts DEF Purge, Journalled
<1>c. \A o \in Publishers : place[o] \in {"commit", "prior", "publish", "journal"} =>
        /\ mine[o] \in Dirs /\ staging[mine[o]] = mine[o] /\ target # mine[o]
        /\ \A r \in Dirs : quar[r].payload # mine[o] /\ (staging[r] = mine[o] => r = mine[o])
  BY BuiltFacts
<1>1. CASE SoundPrior(quar[j].payload, doomed[p]) /\ (doomed[p] = quar[j].prior => Published(j))
  <2>d. /\ role[p] # "withdraw"
    BY <1>0 DEF OutputRoles
  <2>g. /\ quar[j].payload # NoDir
        /\ quar[j].payload \in Dirs \cup UserDirs
        /\ state[quar[j].payload] = "final"
    BY <1>0, <1>1 DEF SoundPrior, Sound, OutputTypeOK, OutputTypes, OutputTypeOK, Paths
  <2>1. /\ state' \in [(Dirs \cup UserDirs) -> States] /\ state'[quar[j].payload] = "torn" /\ \A b \in (Dirs \cup UserDirs) : b # quar[j].payload => state'[b] = state[b]
        /\ UNCHANGED <<target, staging, quar>>
    BY <1>0, <1>1, <2>d, <2>g DEF Purge, StandAt, OutputTypeOK, OutputTypes, onDisk, States, Paths
  <2>b. /\ place' \in [Publishers -> OutputPlaces] /\ place'[p] = "removing" /\ \A b \in Publishers : b # p => place'[b] = place[b]
        /\ UNCHANGED <<mine, prior, unseen, matched, journal, known, doomed, role, incidents>>
    <3>1. /\ place' \in [Publishers -> OutputPlaces] /\ place'[p] = "removing" /\ \A b \in Publishers : b # p => place'[b] = place[b]
      BY <1>0, <1>1, <2>d, <2>g DEF Purge, StandAt, OutputTypeOK, OutputTypes, OutputPlaces
    <3>2. /\ UNCHANGED <<mine, prior, unseen, matched, journal, known, doomed, role, incidents>>
      BY <1>0, <1>1, <2>d, <2>g DEF Purge, StandAt, OutputTypeOK, OutputTypes, Paths, Beside
    <3> QED  BY <3>1, <3>2
  <2>e. \A r \in Dirs : quar[r].ver > 0 => quar'[r].ver > 0 /\ quar'[r].prior = quar[r].prior
    BY <1>0, <1>1, <2>1, <2>d, <2>g, <2>b DEF OutputTypeOK, OutputTypes
  <2>2. OutputTypes'
    BY <1>0, <1>1, <2>1, <2>d, <2>g, <2>b DEF OutputTypeOK, OutputTypes, OutputPlaces, States, Paths,
       Quarantine, incidents, Beside
  <2>3. OnePlace'
    BY <1>0, <1>1, <2>1, <2>d, <2>g DEF OutputTypeOK, OutputTypes, OnePlace
  <2>3a. OnePayload'
    BY <1>0, <1>1, <2>1, <2>d, <2>g DEF OutputTypeOK, OutputTypes, OnePlace, OnePayload
  <2>4. Blank'
    BY <1>0, <1>1, <2>1, <2>d, <2>g DEF OutputTypeOK, OutputTypes, Blank, Unbuilt, OutputAssumption
  <2>4a. Owners'
    BY <1>0, <1>1, <2>1, <2>d, <2>g, <2>b DEF OutputTypeOK, OutputTypes, Owners
  <2>5. OutputRoles'
    BY <1>0, <2>b, <2>d DEF OutputTypeOK, OutputTypes, OutputRoles, Recovering, Committing, Swapping, Beside
  <2>6. MadeOnce'
    BY <1>0, <1>1, <2>1, <2>d, <2>g, <2>b DEF OutputTypeOK, OutputTypes, MadeOnce
  <2>6a. Unmade'
    BY <1>0, <1>1, <2>1, <2>d, <2>g, <2>b DEF OutputTypeOK, OutputTypes, Unmade, Unjournalled
  <2>7. Seen'
    BY <1>0, <2>b, <2>d, <2>e DEF OutputTypeOK, OutputTypes, Seen, Journalled
  <2>7a. Written'
    BY <1>0, <2>b, <2>d, <2>e DEF OutputTypeOK, OutputTypes, Written, Journalled, Seen
  <2>8. Built'
    BY <1>0, <1>1, <2>1, <2>d, <2>g, <2>b, <1>c DEF OutputTypeOK, OutputTypes, Built, Unjournalled
  <2>9. exchanging => Exchanged'
    <3> SUFFICES ASSUME exchanging, Exchanged  PROVE Exchanged'
      OBVIOUS
    <3>1. TargetComplete'
      BY <1>0, <1>1, <2>1, <2>d, <2>g, <2>b DEF OutputTypeOK, OutputTypes, Exchanged, TargetComplete,
         ReadyBack, OnePlace, Paths, OutputAssumption
    <3>2. ReadyBack'
      BY <1>0, <1>1, <2>1, <2>d, <2>g, <2>b DEF OutputTypeOK, OutputTypes, Exchanged, ReadyBack, OnePlace,
         Paths, OutputAssumption
    <3>3. NoneRenames'
      BY <1>0, <1>1, <2>1, <2>d, <2>g, <2>b DEF OutputTypeOK, OutputTypes, Exchanged, NoneRenames, Renaming
    <3>4. SwapsBuilt'
      BY <1>0, <1>1, <2>1, <2>d, <2>g, <2>b DEF OutputTypeOK, OutputTypes, Exchanged, SwapsBuilt, ReadyBack,
         OnePlace, Paths, OutputAssumption
    <3>5. AwayFirst'
      BY <1>0, <1>1, <2>1, <2>d, <2>g, <2>b DEF OutputTypeOK, OutputTypes, Exchanged, AwayFirst, ReadyBack,
         Paths, OutputAssumption
    <3>6. UsersOwn'
      BY <1>0, <1>1, <2>1, <2>d, <2>g, <2>b DEF Exchanged, UsersOwn, OutputAssumption
    <3> QED  BY <3>1, <3>2, <3>3, <3>4, <3>5, <3>6 DEF Exchanged
  <2>10. ~met' /\ edits' = 0 => Sequential'
    <3> SUFFICES ASSUME ~met', edits' = 0  PROVE Sequential'
      OBVIOUS
    <3>1. /\ Sequential /\ TargetFinal /\ OneJournal /\ OneWorks' /\ OnDisk(p)
          /\ \A o \in Publishers : o # p => place[o] = "idle" /\ place'[o] = "idle"
      BY <1>0, <2>b, AloneFacts DEF incidents, Sequential
    <3>2. /\ quar[journal[p]].record /\ quar[journal[p]].root /\ known[p] = quar[journal[p]].ver
          /\ quar[journal[p]].prior # journal[p] /\ quar[journal[p]].prior # NoDir /\ quar[journal[p]].prior \in Dirs \cup UserDirs
          /\ staging[journal[p]] \in {NoDir, journal[p], quar[journal[p]].prior}
          /\ staging[journal[p]] = journal[p] => state[journal[p]] = "final"
          /\ target # NoDir => target # staging[journal[p]] /\ target # quar[journal[p]].payload
          /\ staging[journal[p]] # NoDir => staging[journal[p]] # quar[journal[p]].payload
          /\ \A r \in Dirs : r # journal[p] => ~quar[r].record /\ quar[r].payload = NoDir
          /\ target # NoDir => target \in Dirs \cup UserDirs /\ state[target] = "final"
      BY <1>0, <3>1, JournalFacts DEF Journalled, OutputTypeOK
    <3>3a. \/ (target = journal[p] /\ state[journal[p]] = "final" /\ quar[journal[p]].payload = quar[journal[p]].prior /\ state[quar[journal[p]].prior] = "final" /\ staging[journal[p]] = NoDir /\ doomed[p] = quar[journal[p]].prior)
         \/ (target = quar[journal[p]].prior /\ state[quar[journal[p]].prior] = "final" /\ staging[journal[p]] = NoDir /\ quar[journal[p]].payload = journal[p] /\ state[journal[p]] = "final" /\ doomed[p] = journal[p] /\ role[p] = "recover")
      BY <1>0, <1>1, <2>1, <2>d, <2>g, <2>b, <3>1, <3>2 DEF OnDisk, Completing, Shelved, PriorQuarantined,
         Published, Sound, Reverting, Undoing
    <3>5. TargetFinal'
      BY <1>0, <1>1, <2>1, <2>d, <2>g, <2>b, <3>1, <3>2, <3>3a DEF TargetFinal, OutputTypeOK, OutputTypes,
         Paths
    <3>6. OneJournal'
      <4>1. \A r \in Dirs : r # journal[p] => ~quar'[r].record /\ quar'[r].payload = NoDir
        BY <1>0, <1>1, <2>1, <2>d, <2>g, <2>b, <3>1, <3>2, <3>3a
      <4>2. /\ quar'[journal[p]].record /\ quar'[journal[p]].root /\ quar'[journal[p]].prior # NoDir /\ quar'[journal[p]].prior # journal[p]
            /\ staging'[journal[p]] \in {NoDir, journal[p], quar'[journal[p]].prior}
            /\ staging'[journal[p]] = journal[p] => state'[journal[p]] = "final"
        BY <1>0, <1>1, <2>1, <2>d, <2>g, <2>b, <3>1, <3>2, <3>3a DEF OutputTypeOK, OutputTypes,
           OutputAssumption
      <4> QED  BY <1>0, <4>1, <4>2, OnlyJournal
    <3>7. place'[p] # "idle" => OnDisk(p)'
      <4>1. CASE place'[p] = "removing"
        <5>1. /\ journal[p] # NoDir
              /\ journal'[p] = journal[p]
              /\ quar'[journal[p]].record
              /\ known'[p] = quar'[journal[p]].ver
              /\ quar'[journal[p]].prior # NoDir /\ quar'[journal[p]].prior # journal[p]
          BY <1>0, <1>1, <2>1, <2>d, <2>g, <2>b, <3>1, <3>2, <3>3a, <4>1 DEF OutputAssumption
        <5>2. \/ target' = journal[p] /\ state'[journal[p]] = "final" /\ quar'[journal[p]].payload = quar'[journal[p]].prior /\ state'[quar'[journal[p]].prior] = "torn" /\ staging'[journal[p]] = NoDir
              \/ target' = quar'[journal[p]].prior /\ state'[quar'[journal[p]].prior] = "final" /\ staging'[journal[p]] = NoDir /\ quar'[journal[p]].payload = journal[p] /\ doomed'[p] = journal[p] /\ role'[p] = "recover"
          BY <1>0, <1>1, <2>1, <2>d, <2>g, <2>b, <3>1, <3>2, <3>3a, <4>1 DEF OutputAssumption
        <5> QED  BY <1>0, <4>1, <5>1, <5>2, AtRemoving
      <4> QED  BY <2>b, <4>1
    <3>8. place'[p] # "idle"
      BY <2>b
    <3> QED  BY <3>1, <3>2, <3>3a, <3>5, <3>6, <3>7, <3>8 DEF Sequential
  <2> QED  BY <2>2, <2>3, <2>3a, <2>4, <2>4a, <2>5, <2>6, <2>6a, <2>7, <2>7a, <2>8, <2>9, <2>10 DEF
              OutputTypeOK
<1>2. CASE ~(SoundPrior(quar[j].payload, doomed[p]) /\ (doomed[p] = quar[j].prior => Published(j)))
  <2>1. place' = [place EXCEPT ![p] = OnError(p)] /\ UNCHANGED <<onDisk, mine, prior, unseen, matched, journal, known, doomed, role, incidents>>
    BY <1>0, <1>2 DEF Purge, StandAt, OnError, onDisk
  <2>2. OnError(p) \in {"idle", "abort"} /\ (OnError(p) = "abort" => role[p] # "recover") /\ place[p] # "idle"
    BY <1>0 DEF OutputTypeOK, OutputTypes, OnError, AfterFailedRmdir, OutputRoles, Recovering
  <2>3. strikes' \in 0..MaxStrikes /\ edits' = edits /\ deep' \in BOOLEAN
    BY <2>1 DEF OutputTypeOK, OutputTypes, incidents
  <2>4. OutputBase' /\ (exchanging => Exchanged')
    BY <2>1, <2>2, <2>3, GiveUp DEF onDisk
  <2>b. /\ place' \in [Publishers -> OutputPlaces] /\ place'[p] = OnError(p) /\ \A b \in Publishers : b # p => place'[b] = place[b]
        /\ UNCHANGED <<target, staging, quar, state, mine, prior, unseen, matched, journal, known, doomed, role, incidents>>
    BY <2>1, <2>2 DEF OutputTypeOK, OutputTypes, OutputPlaces, onDisk
  <2>10. ~met' /\ edits' = 0 => Sequential'
    <3> SUFFICES ASSUME ~met', edits' = 0  PROVE Sequential'
      OBVIOUS
    <3>1. /\ Sequential /\ TargetFinal /\ OneJournal /\ OneWorks' /\ OnDisk(p)
          /\ \A o \in Publishers : o # p => place[o] = "idle" /\ place'[o] = "idle"
      BY <1>0, <2>b, AloneFacts DEF incidents, Sequential
    <3>2. /\ quar[journal[p]].record /\ quar[journal[p]].root /\ known[p] = quar[journal[p]].ver
          /\ quar[journal[p]].prior # journal[p] /\ quar[journal[p]].prior # NoDir /\ quar[journal[p]].prior \in Dirs \cup UserDirs
          /\ staging[journal[p]] \in {NoDir, journal[p], quar[journal[p]].prior}
          /\ staging[journal[p]] = journal[p] => state[journal[p]] = "final"
          /\ target # NoDir => target # staging[journal[p]] /\ target # quar[journal[p]].payload
          /\ staging[journal[p]] # NoDir => staging[journal[p]] # quar[journal[p]].payload
          /\ \A r \in Dirs : r # journal[p] => ~quar[r].record /\ quar[r].payload = NoDir
          /\ target # NoDir => target \in Dirs \cup UserDirs /\ state[target] = "final"
      BY <1>0, <3>1, JournalFacts DEF Journalled, OutputTypeOK
    <3>3a. \/ (target = journal[p] /\ state[journal[p]] = "final" /\ quar[journal[p]].payload = quar[journal[p]].prior /\ state[quar[journal[p]].prior] = "final" /\ staging[journal[p]] = NoDir /\ doomed[p] = quar[journal[p]].prior)
         \/ (target = quar[journal[p]].prior /\ state[quar[journal[p]].prior] = "final" /\ staging[journal[p]] = NoDir /\ quar[journal[p]].payload = journal[p] /\ state[journal[p]] = "final" /\ doomed[p] = journal[p] /\ role[p] = "recover")
      BY <1>0, <1>2, <2>2, <2>b, <3>1, <3>2 DEF OnDisk, Completing, Shelved, PriorQuarantined, Published,
         Sound, Reverting, Undoing
    <3> QED  BY <1>0, <1>2, <2>2, <2>b, <3>1, <3>2, <3>3a DEF Sound, Published, PriorStaged,
                PriorQuarantined, PriorRemoved, NotExchanged, TargetMissing, Recoverable, SetAside, Away,
                Shelved, Tearing, Undoing, Undone, Unattended, Completing, Reverting, SoundPrior,
                OutputAssumption
  <2> QED  BY <2>4, <2>10
<1> QED  BY <1>1, <1>2 DEF Purge

LEMMA RemovePayloadStep ==
  ASSUME OutputAssumption, OutputInv, Beside, NEW p \in Publishers, RemovePayload(p)
  PROVE  OutputInv'
<1> DEFINE j == journal[p]
<1> USE DEF OutputBase, OutputInv, Beside
<1>0. /\ place[p] = "removing"
      /\ mine[p] \in Dirs
      /\ journal[p] \in Dirs /\ quar[journal[p]].ver > 0
      /\ role[p] # "recover" => journal[p] = mine[p] /\ quar[mine[p]].prior = prior[p] /\ prior[p] # NoDir /\ doomed[p] = prior[p]
      /\ \A o \in Publishers : place[o] # "idle" => mine[o] \in Dirs
      /\ \A o \in Publishers \ {p} : place[o] # "idle" => mine[o] # mine[p]
      /\ \A o \in Publishers : place[o] \in Unjournalled => mine[o] \in Dirs /\ quar[mine[o]].ver = 0
      /\ \A o \in Publishers : place[o] = "removing" => journal[o] \in Dirs /\ quar[journal[o]].ver > 0
  BY WorkerFacts DEF RemovePayload, Journalled
<1>c. \A o \in Publishers : place[o] \in {"commit", "prior", "publish", "journal"} =>
        /\ mine[o] \in Dirs /\ staging[mine[o]] = mine[o] /\ target # mine[o]
        /\ \A r \in Dirs : quar[r].payload # mine[o] /\ (staging[r] = mine[o] => r = mine[o])
  BY BuiltFacts
<1>a. PayloadBecomes(j, NoDir)
  BY <1>0, PayloadFacts DEF RemovePayload, StandAt, OutputTypeOK, OutputTypes, Paths, Quarantine
<1>d. /\ role[p] # "withdraw"
  BY <1>0 DEF OutputRoles
<1>1. /\ state' \in [Dirs \cup UserDirs -> States] /\ \A b \in Dirs \cup UserDirs : state'[b] = IF b = quar[j].payload THEN "gone" ELSE state[b]
      /\ UNCHANGED <<target, staging>>
  BY <1>0, <1>d DEF RemovePayload, StandAt, OutputTypeOK, OutputTypes, onDisk, States, Paths
<1>b. /\ place' \in [Publishers -> OutputPlaces] /\ place'[p] = "unlist" /\ \A b \in Publishers : b # p => place'[b] = place[b]
      /\ UNCHANGED <<mine, prior, unseen, matched, journal, known, doomed, role, incidents>>
  <2>1. /\ place' \in [Publishers -> OutputPlaces] /\ place'[p] = "unlist" /\ \A b \in Publishers : b # p => place'[b] = place[b]
    BY <1>0, <1>d DEF RemovePayload, StandAt, OutputTypeOK, OutputTypes, Paths, Beside, OutputPlaces
  <2>2. /\ UNCHANGED <<mine, prior, unseen, matched, journal, known, doomed, role, incidents>>
    BY <1>0, <1>d DEF RemovePayload, StandAt, OutputTypeOK, OutputTypes, Paths, Beside
  <2> QED  BY <2>1, <2>2
<1>e. \A r \in Dirs : quar[r].ver > 0 => quar'[r].ver > 0 /\ quar'[r].prior = quar[r].prior
  BY <1>0, <1>a, <1>1, <1>d, <1>b DEF OutputTypeOK, OutputTypes, PayloadBecomes
<1>2. OutputTypes'
  BY <1>0, <1>a, <1>1, <1>d, <1>b DEF OutputTypeOK, OutputTypes, PayloadBecomes, OutputPlaces, States,
     Paths, Quarantine, incidents, Beside
<1>3. OnePlace'
  BY <1>0, <1>a, <1>1, <1>d DEF OutputTypeOK, OutputTypes, PayloadBecomes, OnePlace
<1>3a. OnePayload'
  BY <1>0, <1>a, <1>1, <1>d DEF OutputTypeOK, OutputTypes, PayloadBecomes, OnePlace, OnePayload
<1>4. Blank'
  <2> SUFFICES ASSUME NEW d \in Dirs, state'[d] = "free"  PROVE Unbuilt(d)'
    BY DEF Blank
  <2>1. state[d] = "free"
    BY <1>1
  <2>2. Unbuilt(d) /\ d # NoDir
    BY <2>1 DEF Blank, OutputAssumption
  <2> QED  BY <1>a, <1>1, <2>2 DEF Unbuilt, PayloadBecomes
<1>4a. Owners'
  BY <1>0, <1>a, <1>1, <1>d, <1>b DEF OutputTypeOK, OutputTypes, PayloadBecomes, Owners, Blank, Unbuilt
<1>5. OutputRoles'
  BY <1>0, <1>b, <1>d DEF OutputTypeOK, OutputTypes, OutputRoles, Recovering, Committing, Swapping, Beside
<1>6. MadeOnce'
  BY <1>0, <1>a, <1>d, <1>e DEF OutputTypeOK, OutputTypes, PayloadBecomes, MadeOnce
<1>6a. Unmade'
  BY <1>0, <1>a, <1>b, <1>d DEF OutputTypeOK, OutputTypes, PayloadBecomes, Unmade, Unjournalled
<1>7. Seen'
  BY <1>0, <1>b, <1>d, <1>e DEF OutputTypeOK, OutputTypes, Seen, Journalled
<1>7a. Written'
  BY <1>0, <1>b, <1>d, <1>e DEF OutputTypeOK, OutputTypes, Written, Journalled, Seen
<1>8. Built'
  BY <1>0, <1>a, <1>1, <1>d, <1>b, <1>c DEF OutputTypeOK, OutputTypes, Built, Unjournalled
<1>9. exchanging => Exchanged'
  <2> SUFFICES ASSUME exchanging, Exchanged  PROVE Exchanged'
    OBVIOUS
  <2>1. TargetComplete'
    BY <1>0, <1>a, <1>1, <1>d, <1>b DEF OutputTypeOK, OutputTypes, Exchanged, TargetComplete, ReadyBack,
       OnePlace, Paths, OutputAssumption
  <2>2. ReadyBack'
    BY <1>0, <1>a, <1>1, <1>d, <1>b DEF OutputTypeOK, OutputTypes, PayloadBecomes, Exchanged, ReadyBack,
       OnePlace, Paths, OutputAssumption
  <2>3. NoneRenames'
    BY <1>0, <1>a, <1>1, <1>d, <1>b DEF OutputTypeOK, OutputTypes, Exchanged, NoneRenames, Renaming
  <2>4. SwapsBuilt'
    BY <1>0, <1>a, <1>1, <1>d, <1>b DEF OutputTypeOK, OutputTypes, Exchanged, SwapsBuilt, ReadyBack,
       OnePlace, Paths, OutputAssumption
  <2>5. AwayFirst'
    BY <1>0, <1>a, <1>1, <1>d, <1>b DEF OutputTypeOK, OutputTypes, PayloadBecomes, Exchanged, AwayFirst,
       OnePayload, Paths, OutputAssumption
  <2>6. UsersOwn'
    BY <1>0, <1>a, <1>1, <1>d, <1>b DEF Exchanged, UsersOwn, OutputAssumption, AwayFirst
  <2> QED  BY <2>1, <2>2, <2>3, <2>4, <2>5, <2>6 DEF Exchanged
<1>10. ~met' /\ edits' = 0 => Sequential'
  <2> SUFFICES ASSUME ~met', edits' = 0  PROVE Sequential'
    OBVIOUS
  <2>1. /\ Sequential /\ TargetFinal /\ OneJournal /\ OneWorks' /\ OnDisk(p)
        /\ \A o \in Publishers : o # p => place[o] = "idle" /\ place'[o] = "idle"
    BY <1>0, <1>b, AloneFacts DEF incidents, Sequential
  <2>2. /\ quar[journal[p]].record /\ quar[journal[p]].root /\ known[p] = quar[journal[p]].ver
        /\ quar[journal[p]].prior # journal[p] /\ quar[journal[p]].prior # NoDir /\ quar[journal[p]].prior \in Dirs \cup UserDirs
        /\ staging[journal[p]] \in {NoDir, journal[p], quar[journal[p]].prior}
        /\ staging[journal[p]] = journal[p] => state[journal[p]] = "final"
        /\ target # NoDir => target # staging[journal[p]] /\ target # quar[journal[p]].payload
        /\ staging[journal[p]] # NoDir => staging[journal[p]] # quar[journal[p]].payload
        /\ \A r \in Dirs : r # journal[p] => ~quar[r].record /\ quar[r].payload = NoDir
        /\ target # NoDir => target \in Dirs \cup UserDirs /\ state[target] = "final"
    BY <1>0, <2>1, JournalFacts DEF Journalled, OutputTypeOK
  <2>3a. \/ (target = journal[p] /\ state[journal[p]] = "final" /\ quar[journal[p]].payload = quar[journal[p]].prior /\ staging[journal[p]] = NoDir)
         \/ (target = quar[journal[p]].prior /\ state[quar[journal[p]].prior] = "final" /\ staging[journal[p]] = NoDir /\ quar[journal[p]].payload = journal[p] /\ doomed[p] = journal[p] /\ role[p] = "recover")
    BY <1>0, <1>a, <1>1, <1>d, <1>b, <2>1, <2>2 DEF OnDisk, Tearing, Published, Sound, Reverting, Undoing
  <2>5. TargetFinal'
    BY <1>0, <1>a, <1>1, <1>d, <1>b, <2>1, <2>2, <2>3a DEF TargetFinal, PayloadBecomes, OutputTypeOK,
       OutputTypes, Paths
  <2>6. OneJournal'
    <3>1. \A r \in Dirs : r # journal[p] => ~quar'[r].record /\ quar'[r].payload = NoDir
      BY <1>0, <1>a, <1>b, <1>d, <2>1, <2>2, <2>3a DEF PayloadBecomes
    <3>2. /\ quar'[journal[p]].record /\ quar'[journal[p]].root /\ quar'[journal[p]].prior # NoDir /\ quar'[journal[p]].prior # journal[p]
          /\ staging'[journal[p]] \in {NoDir, journal[p], quar'[journal[p]].prior}
          /\ staging'[journal[p]] = journal[p] => state'[journal[p]] = "final"
      BY <1>0, <1>a, <1>1, <1>d, <1>b, <2>1, <2>2, <2>3a DEF PayloadBecomes, OutputTypeOK, OutputTypes,
         OutputAssumption
    <3> QED  BY <1>0, <3>1, <3>2, OnlyJournal
  <2>7. place'[p] # "idle" => OnDisk(p)'
    <3>1. CASE place'[p] = "unlist"
      <4>1. /\ journal[p] # NoDir
            /\ journal'[p] = journal[p]
            /\ quar'[journal[p]].record
            /\ known'[p] = quar'[journal[p]].ver
            /\ quar'[journal[p]].prior # NoDir /\ quar'[journal[p]].prior # journal[p]
        BY <1>0, <1>a, <1>1, <1>d, <1>b, <2>1, <2>2, <2>3a, <3>1 DEF PayloadBecomes, OutputAssumption
      <4>2. \/ target' = journal[p] /\ state'[journal[p]] = "final" /\ staging'[journal[p]] = NoDir /\ quar'[journal[p]].payload = NoDir /\ role'[p] # "withdraw"
            \/ target' = quar'[journal[p]].prior /\ state'[quar'[journal[p]].prior] = "final" /\ staging'[journal[p]] = NoDir /\ quar'[journal[p]].payload = NoDir /\ doomed'[p] = journal[p] /\ role'[p] = "recover"
            \/ target' = quar'[journal[p]].prior /\ state'[quar'[journal[p]].prior] = "final" /\ staging'[journal[p]] = journal[p] /\ state'[journal[p]] = "final" /\ quar'[journal[p]].payload = NoDir /\ role'[p] = "withdraw"
        BY <1>0, <1>a, <1>1, <1>d, <1>b, <2>1, <2>2, <2>3a, <3>1 DEF PayloadBecomes, OutputAssumption
      <4> QED  BY <1>0, <3>1, <4>1, <4>2, AtUnlist
    <3> QED  BY <1>b, <3>1
  <2>8. place'[p] # "idle"
    BY <1>b
  <2> QED  BY <2>1, <2>2, <2>3a, <2>5, <2>6, <2>7, <2>8 DEF Sequential
<1> QED  BY <1>2, <1>3, <1>3a, <1>4, <1>4a, <1>5, <1>6, <1>6a, <1>7, <1>7a, <1>8, <1>9, <1>10 DEF OutputTypeOK

LEMMA UnlistStep ==
  ASSUME OutputAssumption, OutputInv, Beside, NEW p \in Publishers, Unlist(p)
  PROVE  OutputInv'
<1> DEFINE j == journal[p]
<1> USE DEF OutputBase, OutputInv, Beside
<1>0. /\ place[p] = "unlist"
      /\ mine[p] \in Dirs
      /\ journal[p] \in Dirs /\ quar[journal[p]].ver > 0
      /\ role[p] # "recover" => journal[p] = mine[p] /\ quar[mine[p]].prior = prior[p] /\ prior[p] # NoDir /\ doomed[p] = prior[p]
      /\ \A o \in Publishers : place[o] # "idle" => mine[o] \in Dirs
      /\ \A o \in Publishers \ {p} : place[o] # "idle" => mine[o] # mine[p]
      /\ \A o \in Publishers : place[o] \in Unjournalled => mine[o] \in Dirs /\ quar[mine[o]].ver = 0
      /\ \A o \in Publishers : place[o] = "removing" => journal[o] \in Dirs /\ quar[journal[o]].ver > 0
  BY WorkerFacts DEF Unlist, Journalled
<1>c. \A o \in Publishers : place[o] \in {"commit", "prior", "publish", "journal"} =>
        /\ mine[o] \in Dirs /\ staging[mine[o]] = mine[o] /\ target # mine[o]
        /\ \A r \in Dirs : quar[r].payload # mine[o] /\ (staging[r] = mine[o] => r = mine[o])
  BY BuiltFacts
<1>1. CASE quar[j].root /\ quar[j].record /\ quar[j].ver = known[p]
  <2>a. JournalBecomes(j, quar[j].root, FALSE, quar[j].ver)
    BY <1>0, <1>1, UnlistFacts DEF Unlist, StandAt, OutputTypeOK, OutputTypes, Paths, Quarantine
  <2>1. /\ UNCHANGED <<target, staging, state>>
    BY <1>0, <1>1 DEF Unlist, StandAt, OutputTypeOK, OutputTypes, onDisk, States, Paths
  <2>b. /\ place' \in [Publishers -> OutputPlaces] /\ place'[p] = "rmdir" /\ \A b \in Publishers : b # p => place'[b] = place[b]
        /\ UNCHANGED <<mine, prior, unseen, matched, journal, known, doomed, role, incidents>>
    <3>1. /\ place' \in [Publishers -> OutputPlaces] /\ place'[p] = "rmdir" /\ \A b \in Publishers : b # p => place'[b] = place[b]
      BY <1>0, <1>1 DEF Unlist, StandAt, OutputTypeOK, OutputTypes, OutputPlaces
    <3>2. /\ UNCHANGED <<mine, prior, unseen, matched, journal, known, doomed, role, incidents>>
      BY <1>0, <1>1 DEF Unlist, StandAt, OutputTypeOK, OutputTypes, Paths, Beside
    <3> QED  BY <3>1, <3>2
  <2>e. \A r \in Dirs : quar[r].ver > 0 => quar'[r].ver > 0 /\ quar'[r].prior = quar[r].prior
    BY <1>0, <1>1, <2>a, <2>1, <2>b DEF OutputTypeOK, OutputTypes, JournalBecomes
  <2>2. OutputTypes'
    BY <1>0, <1>1, <2>a, <2>1, <2>b DEF OutputTypeOK, OutputTypes, JournalBecomes, OutputPlaces, States,
       Paths, Quarantine, incidents, Beside
  <2>3. OnePlace'
    BY <1>0, <1>1, <2>a, <2>1 DEF OutputTypeOK, OutputTypes, JournalBecomes, OnePlace
  <2>3a. OnePayload'
    BY <1>0, <1>1, <2>a, <2>1 DEF OutputTypeOK, OutputTypes, JournalBecomes, OnePlace, OnePayload
  <2>4. Blank'
    BY <1>0, <1>1, <2>a, <2>1 DEF OutputTypeOK, OutputTypes, JournalBecomes, Blank, Unbuilt, OutputAssumption
  <2>4a. Owners'
    BY <1>0, <1>1, <2>a, <2>1, <2>b DEF OutputTypeOK, OutputTypes, JournalBecomes, Owners
  <2>5. OutputRoles'
    BY <1>0, <2>b DEF OutputTypeOK, OutputTypes, OutputRoles, Recovering, Committing, Swapping, Beside
  <2>6. MadeOnce'
    BY <1>0, <2>a, <2>e DEF JournalBecomes, MadeOnce
  <2>6a. Unmade'
    <3>1. \A r \in Dirs : quar[r].ver = 0 => quar'[r].ver = 0
      BY <1>0, <2>a DEF JournalBecomes
    <3> QED  BY <1>0, <2>b, <3>1 DEF OutputTypeOK, OutputTypes, Unmade, Unjournalled
  <2>7. Seen'
    BY <1>0, <2>b, <2>e DEF OutputTypeOK, OutputTypes, Seen, Journalled
  <2>7a. Written'
    BY <1>0, <2>b, <2>e DEF OutputTypeOK, OutputTypes, Written, Journalled, Seen
  <2>8. Built'
    BY <1>0, <1>1, <2>a, <2>1, <2>b, <1>c DEF OutputTypeOK, OutputTypes, Built, Unjournalled
  <2>9. exchanging => Exchanged'
    <3> SUFFICES ASSUME exchanging, Exchanged  PROVE Exchanged'
      OBVIOUS
    <3>1. TargetComplete'
      BY <1>0, <1>1, <2>a, <2>1, <2>b DEF OutputTypeOK, OutputTypes, Exchanged, TargetComplete, ReadyBack,
         OnePlace, Paths, OutputAssumption
    <3>2. ReadyBack'
      BY <1>0, <1>1, <2>a, <2>1, <2>b DEF OutputTypeOK, OutputTypes, JournalBecomes, Exchanged, ReadyBack,
         OnePlace, Paths, OutputAssumption
    <3>3. NoneRenames'
      BY <1>0, <1>1, <2>a, <2>1, <2>b DEF OutputTypeOK, OutputTypes, Exchanged, NoneRenames, Renaming
    <3>4. SwapsBuilt'
      BY <1>0, <1>1, <2>a, <2>1, <2>b DEF OutputTypeOK, OutputTypes, Exchanged, SwapsBuilt, ReadyBack,
         Paths, OutputAssumption
    <3>5. AwayFirst'
      BY <1>0, <1>1, <2>a, <2>1, <2>b DEF OutputTypeOK, OutputTypes, JournalBecomes, Exchanged, AwayFirst,
         Paths, OutputAssumption
    <3>6. UsersOwn'
      BY <1>0, <1>1, <2>a, <2>1, <2>b DEF Exchanged, UsersOwn, OutputAssumption
    <3> QED  BY <3>1, <3>2, <3>3, <3>4, <3>5, <3>6 DEF Exchanged
  <2>10. ~met' /\ edits' = 0 => Sequential'
    <3> SUFFICES ASSUME ~met', edits' = 0  PROVE Sequential'
      OBVIOUS
    <3>1. /\ Sequential /\ TargetFinal /\ OneJournal /\ OneWorks' /\ OnDisk(p)
          /\ \A o \in Publishers : o # p => place[o] = "idle" /\ place'[o] = "idle"
      BY <1>0, <2>b, AloneFacts DEF incidents, Sequential
    <3>2. /\ quar[journal[p]].record /\ quar[journal[p]].root /\ known[p] = quar[journal[p]].ver
          /\ quar[journal[p]].prior # journal[p] /\ quar[journal[p]].prior # NoDir /\ quar[journal[p]].prior \in Dirs \cup UserDirs
          /\ staging[journal[p]] \in {NoDir, journal[p], quar[journal[p]].prior}
          /\ staging[journal[p]] = journal[p] => state[journal[p]] = "final"
          /\ target # NoDir => target # staging[journal[p]] /\ target # quar[journal[p]].payload
          /\ staging[journal[p]] # NoDir => staging[journal[p]] # quar[journal[p]].payload
          /\ \A r \in Dirs : r # journal[p] => ~quar[r].record /\ quar[r].payload = NoDir
          /\ target # NoDir => target \in Dirs \cup UserDirs /\ state[target] = "final"
      BY <1>0, <3>1, JournalFacts DEF Journalled, OutputTypeOK
    <3>3. /\ quar[journal[p]].payload = NoDir
      BY <1>0, <1>1, <2>a, <2>1, <2>b, <3>1, <3>2 DEF OnDisk, NotExchanged, PriorRemoved, Published, Sound,
         Reverting, Undone
    <3>5. TargetFinal'
      BY <1>0, <1>1, <2>a, <2>1, <2>b, <3>1, <3>2, <3>3 DEF TargetFinal, JournalBecomes, OutputTypeOK,
         OutputTypes, Paths
    <3>6. OneJournal'
      BY <1>0, <1>1, <2>a, <2>1, <2>b, <3>1, <3>2, <3>3 DEF OneJournal, JournalBecomes, OutputTypeOK,
         OutputTypes, Paths
    <3>7. place'[p] # "idle" => OnDisk(p)'
      <4>1. CASE place'[p] = "rmdir"
        BY <1>0, <1>1, <2>a, <2>1, <2>b, <3>1, <3>2, <3>3, <4>1 DEF OnDisk, NoJournal, Journalled,
           Unjournalled, JournalBecomes, Sound
      <4> QED  BY <2>b, <4>1
    <3>8. place'[p] # "idle"
      BY <2>b
    <3> QED  BY <3>1, <3>2, <3>3, <3>5, <3>6, <3>7, <3>8 DEF Sequential
  <2> QED  BY <2>2, <2>3, <2>3a, <2>4, <2>4a, <2>5, <2>6, <2>6a, <2>7, <2>7a, <2>8, <2>9, <2>10 DEF
              OutputTypeOK
<1>2. CASE ~(quar[j].root /\ quar[j].record /\ quar[j].ver = known[p])
  <2>1. place' = [place EXCEPT ![p] = AfterFailedRmdir(p)] /\ UNCHANGED <<onDisk, mine, prior, unseen, matched, journal, known, doomed, role, incidents>>
    BY <1>0, <1>2 DEF Unlist, StandAt, AfterFailedRmdir, onDisk
  <2>2. AfterFailedRmdir(p) \in {"idle", "abort"} /\ (AfterFailedRmdir(p) = "abort" => role[p] # "recover") /\ place[p] # "idle"
    BY <1>0 DEF OutputTypeOK, OutputTypes, OnError, AfterFailedRmdir, OutputRoles, Recovering
  <2>3. strikes' \in 0..MaxStrikes /\ edits' = edits /\ deep' \in BOOLEAN
    BY <2>1 DEF OutputTypeOK, OutputTypes, incidents
  <2>4. OutputBase' /\ (exchanging => Exchanged')
    BY <2>1, <2>2, <2>3, GiveUp DEF onDisk
  <2>b. /\ place' \in [Publishers -> OutputPlaces] /\ place'[p] = AfterFailedRmdir(p) /\ \A b \in Publishers : b # p => place'[b] = place[b]
        /\ UNCHANGED <<target, staging, quar, state, mine, prior, unseen, matched, journal, known, doomed, role, incidents>>
    BY <2>1, <2>2 DEF OutputTypeOK, OutputTypes, OutputPlaces, onDisk
  <2>10. ~met' /\ edits' = 0 => Sequential'
    <3> SUFFICES ASSUME ~met', edits' = 0  PROVE Sequential'
      OBVIOUS
    <3>1. /\ Sequential /\ TargetFinal /\ OneJournal /\ OneWorks' /\ OnDisk(p)
          /\ \A o \in Publishers : o # p => place[o] = "idle" /\ place'[o] = "idle"
      BY <1>0, <2>b, AloneFacts DEF incidents, Sequential
    <3>2. /\ quar[journal[p]].record /\ quar[journal[p]].root /\ known[p] = quar[journal[p]].ver
          /\ quar[journal[p]].prior # journal[p] /\ quar[journal[p]].prior # NoDir /\ quar[journal[p]].prior \in Dirs \cup UserDirs
          /\ staging[journal[p]] \in {NoDir, journal[p], quar[journal[p]].prior}
          /\ staging[journal[p]] = journal[p] => state[journal[p]] = "final"
          /\ target # NoDir => target # staging[journal[p]] /\ target # quar[journal[p]].payload
          /\ staging[journal[p]] # NoDir => staging[journal[p]] # quar[journal[p]].payload
          /\ \A r \in Dirs : r # journal[p] => ~quar[r].record /\ quar[r].payload = NoDir
          /\ target # NoDir => target \in Dirs \cup UserDirs /\ state[target] = "final"
      BY <1>0, <3>1, JournalFacts DEF Journalled, OutputTypeOK
    <3>3. /\ quar[journal[p]].payload = NoDir
      BY <1>0, <1>2, <2>2, <2>b, <3>1, <3>2 DEF OnDisk, NotExchanged, PriorRemoved, Published, Sound,
         Reverting, Undone
    <3> QED  BY <1>0, <1>2, <2>2, <2>b, <3>1, <3>2, <3>3 DEF Sound, Published, PriorStaged,
                PriorQuarantined, PriorRemoved, NotExchanged, TargetMissing, Recoverable, SetAside, Away,
                Shelved, Tearing, Undoing, Undone, Unattended, Completing, Reverting, OutputAssumption
  <2> QED  BY <2>4, <2>10
<1> QED  BY <1>1, <1>2 DEF Unlist

LEMMA RmdirStep ==
  ASSUME OutputAssumption, OutputInv, Beside, NEW p \in Publishers, Rmdir(p)
  PROVE  OutputInv'
<1> DEFINE j == journal[p]
<1> USE DEF OutputBase, OutputInv, Beside
<1>0. /\ place[p] = "rmdir"
      /\ mine[p] \in Dirs
      /\ journal[p] \in Dirs /\ quar[journal[p]].ver > 0
      /\ role[p] # "recover" => journal[p] = mine[p] /\ quar[mine[p]].prior = prior[p] /\ prior[p] # NoDir /\ doomed[p] = prior[p]
      /\ \A o \in Publishers : place[o] # "idle" => mine[o] \in Dirs
      /\ \A o \in Publishers \ {p} : place[o] # "idle" => mine[o] # mine[p]
      /\ \A o \in Publishers : place[o] \in Unjournalled => mine[o] \in Dirs /\ quar[mine[o]].ver = 0
      /\ \A o \in Publishers : place[o] = "removing" => journal[o] \in Dirs /\ quar[journal[o]].ver > 0
  BY WorkerFacts DEF Rmdir, Journalled
<1>c. \A o \in Publishers : place[o] \in {"commit", "prior", "publish", "journal"} =>
        /\ mine[o] \in Dirs /\ staging[mine[o]] = mine[o] /\ target # mine[o]
        /\ \A r \in Dirs : quar[r].payload # mine[o] /\ (staging[r] = mine[o] => r = mine[o])
  BY BuiltFacts
<1>1. CASE quar[j].root /\ ~quar[j].record /\ quar[j].payload = NoDir
  <2>a. JournalBecomes(j, FALSE, quar[j].record, quar[j].ver)
    BY <1>0, <1>1, RmdirFacts DEF Rmdir, StandAt, OutputTypeOK, OutputTypes, AfterRmdir, Paths, Quarantine
  <2>1. /\ UNCHANGED <<target, staging, state>>
    BY <1>0, <1>1 DEF Rmdir, StandAt, OutputTypeOK, OutputTypes, AfterRmdir, onDisk, States, Paths
  <2>b. /\ place' \in [Publishers -> OutputPlaces] /\ place'[p] \in {"scan", "idle", "abort"} /\ \A b \in Publishers : b # p => place'[b] = place[b]
        /\ (place'[p] = "scan" <=> role[p] = "recover") /\ (place'[p] = "abort" <=> role[p] = "withdraw")
        /\ UNCHANGED <<mine, prior, unseen, matched, journal, known, doomed, role, incidents>>
    <3>1. /\ place' \in [Publishers -> OutputPlaces] /\ place'[p] \in {"scan", "idle", "abort"} /\ \A b \in Publishers : b # p => place'[b] = place[b]
      BY <1>0, <1>1 DEF Rmdir, StandAt, OutputTypeOK, OutputTypes, AfterRmdir, OutputPlaces
    <3>2. /\ (place'[p] = "scan" <=> role[p] = "recover") /\ (place'[p] = "abort" <=> role[p] = "withdraw")
      BY <1>0, <1>1 DEF Rmdir, StandAt, OutputTypeOK, OutputTypes, AfterRmdir, OutputPlaces
    <3>3. /\ UNCHANGED <<mine, prior, unseen, matched, journal, known, doomed, role, incidents>>
      BY <1>0, <1>1 DEF Rmdir, StandAt, OutputTypeOK, OutputTypes, AfterRmdir, Paths, Beside
    <3> QED  BY <3>1, <3>2, <3>3
  <2>e. \A r \in Dirs : quar[r].ver > 0 => quar'[r].ver > 0 /\ quar'[r].prior = quar[r].prior
    BY <1>0, <1>1, <2>a, <2>1, <2>b DEF OutputTypeOK, OutputTypes, JournalBecomes
  <2>2. OutputTypes'
    BY <1>0, <1>1, <2>a, <2>1, <2>b DEF OutputTypeOK, OutputTypes, JournalBecomes, OutputPlaces, States,
       Paths, Quarantine, incidents, Beside
  <2>3. OnePlace'
    BY <1>0, <1>1, <2>a, <2>1 DEF OutputTypeOK, OutputTypes, JournalBecomes, OnePlace
  <2>3a. OnePayload'
    BY <1>0, <1>1, <2>a, <2>1 DEF OutputTypeOK, OutputTypes, JournalBecomes, OnePlace, OnePayload
  <2>4. Blank'
    BY <1>0, <1>1, <2>a, <2>1 DEF OutputTypeOK, OutputTypes, JournalBecomes, Blank, Unbuilt, OutputAssumption
  <2>4a. Owners'
    BY <1>0, <1>1, <2>a, <2>1, <2>b DEF OutputTypeOK, OutputTypes, JournalBecomes, Owners
  <2>5. OutputRoles'
    BY <1>0, <2>b DEF OutputTypeOK, OutputTypes, OutputRoles, Recovering, Committing, Swapping, Beside
  <2>6. MadeOnce'
    BY <1>0, <2>a, <2>e DEF JournalBecomes, MadeOnce
  <2>6a. Unmade'
    <3>1. \A r \in Dirs : quar[r].ver = 0 => quar'[r].ver = 0
      BY <1>0, <2>a DEF JournalBecomes
    <3> QED  BY <1>0, <2>b, <3>1 DEF OutputTypeOK, OutputTypes, Unmade, Unjournalled
  <2>7. Seen'
    BY <1>0, <2>b, <2>e DEF OutputTypeOK, OutputTypes, Seen, Journalled
  <2>7a. Written'
    BY <1>0, <2>b, <2>e DEF OutputTypeOK, OutputTypes, Written, Journalled, Seen
  <2>8. Built'
    BY <1>0, <1>1, <2>a, <2>1, <2>b, <1>c DEF OutputTypeOK, OutputTypes, Built, Unjournalled
  <2>9. exchanging => Exchanged'
    <3> SUFFICES ASSUME exchanging, Exchanged  PROVE Exchanged'
      OBVIOUS
    <3>1. TargetComplete'
      BY <1>0, <1>1, <2>a, <2>1, <2>b DEF OutputTypeOK, OutputTypes, Exchanged, TargetComplete, ReadyBack,
         OnePlace, Paths, OutputAssumption
    <3>2. ReadyBack'
      BY <1>0, <1>1, <2>a, <2>1, <2>b DEF OutputTypeOK, OutputTypes, JournalBecomes, Exchanged, ReadyBack,
         OnePlace, Paths, OutputAssumption
    <3>3. NoneRenames'
      BY <1>0, <1>1, <2>a, <2>1, <2>b DEF OutputTypeOK, OutputTypes, Exchanged, NoneRenames, Renaming
    <3>4. SwapsBuilt'
      BY <1>0, <1>1, <2>a, <2>1, <2>b DEF OutputTypeOK, OutputTypes, Exchanged, SwapsBuilt, ReadyBack,
         Paths, OutputAssumption
    <3>5. AwayFirst'
      BY <1>0, <1>1, <2>a, <2>1, <2>b DEF OutputTypeOK, OutputTypes, JournalBecomes, Exchanged, AwayFirst,
         Paths, OutputAssumption
    <3>6. UsersOwn'
      BY <1>0, <1>1, <2>a, <2>1, <2>b DEF Exchanged, UsersOwn, OutputAssumption
    <3> QED  BY <3>1, <3>2, <3>3, <3>4, <3>5, <3>6 DEF Exchanged
  <2>10. ~met' /\ edits' = 0 => Sequential'
    <3> SUFFICES ASSUME ~met', edits' = 0  PROVE Sequential'
      OBVIOUS
    <3>1. /\ Sequential /\ TargetFinal /\ OneJournal /\ OneWorks' /\ OnDisk(p)
          /\ \A o \in Publishers : o # p => place[o] = "idle" /\ place'[o] = "idle"
      BY <1>0, <2>b, AloneFacts DEF incidents, Sequential
    <3>2. /\ \A r \in Dirs : ~quar[r].record /\ quar[r].payload = NoDir
          /\ target # NoDir => target \in Dirs \cup UserDirs /\ state[target] = "final"
      BY <1>0, <3>1, JournalFacts DEF Unjournalled, OutputTypeOK
    <3>5. TargetFinal'
      BY <1>0, <1>1, <2>a, <2>1, <2>b, <3>1, <3>2 DEF TargetFinal, JournalBecomes, OutputTypeOK,
         OutputTypes, Paths
    <3>6. OneJournal'
      BY <1>0, <1>1, <2>a, <2>1, <2>b, <3>1, <3>2 DEF OneJournal, JournalBecomes, OutputTypeOK, OutputTypes,
         Paths
    <3>7. place'[p] # "idle" => OnDisk(p)'
      <4>1. CASE place'[p] = "scan"
        BY <1>0, <1>1, <2>a, <2>1, <2>b, <3>1, <3>2, <4>1 DEF OnDisk, NoJournal, Journalled, Unjournalled,
           JournalBecomes, Unattended, SetAside, Recoverable, PriorStaged, PriorQuarantined, PriorRemoved,
           NotExchanged, TargetMissing, Published, Sound
      <4>2. CASE place'[p] = "abort"
        BY <1>0, <1>1, <2>a, <2>1, <2>b, <3>1, <3>2, <4>2 DEF OnDisk, NoJournal, Journalled, Unjournalled,
           JournalBecomes, Unattended, SetAside, Recoverable, PriorStaged, PriorQuarantined, PriorRemoved,
           NotExchanged, TargetMissing, Published, Sound
      <4> QED  BY <2>b, <4>1, <4>2
    <3>8. place'[p] = "idle" => \A q \in Dirs : quar'[q].record => Unattended(q)'
      BY <1>0, <1>1, <2>a, <2>1, <2>b, <3>1, <3>2 DEF OnDisk, NoJournal, Journalled, Unjournalled,
         JournalBecomes, Sound, Published, PriorStaged, PriorQuarantined, PriorRemoved, NotExchanged,
         TargetMissing, Recoverable, SetAside, Away, Shelved, Tearing, Undoing, Undone, Unattended,
         Completing, Reverting, incidents
    <3> QED  BY <3>1, <3>2, <3>5, <3>6, <3>7, <3>8 DEF Sequential
  <2> QED  BY <2>2, <2>3, <2>3a, <2>4, <2>4a, <2>5, <2>6, <2>6a, <2>7, <2>7a, <2>8, <2>9, <2>10 DEF
              OutputTypeOK
<1>2. CASE ~(quar[j].root /\ ~quar[j].record /\ quar[j].payload = NoDir)
  <2>1. place' = [place EXCEPT ![p] = AfterFailedRmdir(p)] /\ UNCHANGED <<onDisk, mine, prior, unseen, matched, journal, known, doomed, role, incidents>>
    BY <1>0, <1>2 DEF Rmdir, StandAt, AfterFailedRmdir, onDisk
  <2>2. AfterFailedRmdir(p) \in {"idle", "abort"} /\ (AfterFailedRmdir(p) = "abort" => role[p] # "recover") /\ place[p] # "idle"
    BY <1>0 DEF OutputTypeOK, OutputTypes, OnError, AfterFailedRmdir, OutputRoles, Recovering
  <2>3. strikes' \in 0..MaxStrikes /\ edits' = edits /\ deep' \in BOOLEAN
    BY <2>1 DEF OutputTypeOK, OutputTypes, incidents
  <2>4. OutputBase' /\ (exchanging => Exchanged')
    BY <2>1, <2>2, <2>3, GiveUp DEF onDisk
  <2>b. /\ place' \in [Publishers -> OutputPlaces] /\ place'[p] = AfterFailedRmdir(p) /\ \A b \in Publishers : b # p => place'[b] = place[b]
        /\ UNCHANGED <<target, staging, quar, state, mine, prior, unseen, matched, journal, known, doomed, role, incidents>>
    BY <2>1, <2>2 DEF OutputTypeOK, OutputTypes, OutputPlaces, onDisk
  <2>10. ~met' /\ edits' = 0 => Sequential'
    <3> SUFFICES ASSUME ~met', edits' = 0  PROVE Sequential'
      OBVIOUS
    <3>1. /\ Sequential /\ TargetFinal /\ OneJournal /\ OneWorks' /\ OnDisk(p)
          /\ \A o \in Publishers : o # p => place[o] = "idle" /\ place'[o] = "idle"
      BY <1>0, <2>b, AloneFacts DEF incidents, Sequential
    <3>2. /\ \A r \in Dirs : ~quar[r].record /\ quar[r].payload = NoDir
          /\ target # NoDir => target \in Dirs \cup UserDirs /\ state[target] = "final"
      BY <1>0, <3>1, JournalFacts DEF Unjournalled, OutputTypeOK
    <3>5. TargetFinal'
      BY <1>0, <1>2, <2>2, <2>b, <3>1, <3>2 DEF TargetFinal, OutputTypeOK, OutputTypes, Paths
    <3>6. OneJournal'
      BY <1>0, <1>2, <2>2, <2>b, <3>1, <3>2 DEF OneJournal, OutputTypeOK, OutputTypes, Paths
    <3>7. place'[p] # "idle" => OnDisk(p)'
      <4>1. CASE place'[p] = "abort"
        BY <1>0, <1>2, <2>2, <2>b, <3>1, <3>2, <4>1 DEF OnDisk, NoJournal, Journalled, Unjournalled,
           Unattended, SetAside, Recoverable, PriorStaged, PriorQuarantined, PriorRemoved, NotExchanged,
           TargetMissing, Published, Sound
      <4> QED  BY <2>b, <4>1, <2>2
    <3>8. place'[p] = "idle" => \A q \in Dirs : quar'[q].record => Unattended(q)'
      BY <1>0, <1>2, <2>2, <2>b, <3>1, <3>2 DEF OnDisk, NoJournal, Journalled, Unjournalled, Sound,
         Published, PriorStaged, PriorQuarantined, PriorRemoved, NotExchanged, TargetMissing, Recoverable,
         SetAside, Away, Shelved, Tearing, Undoing, Undone, Unattended, Completing, Reverting, incidents
    <3> QED  BY <3>1, <3>2, <3>5, <3>6, <3>7, <3>8 DEF Sequential
  <2> QED  BY <2>4, <2>10
<1> QED  BY <1>1, <1>2 DEF Rmdir

LEMMA BuildStep ==
  ASSUME OutputAssumption, OutputInv, Beside, NEW p \in Publishers, Build(p)
  PROVE  OutputInv'
<1> DEFINE m == mine[p]
<1> USE DEF OutputBase, OutputInv, Beside
<1>0. /\ place[p] = "check"
      /\ mine[p] \in Dirs
      /\ \A o \in Publishers : place[o] # "idle" => mine[o] \in Dirs
      /\ \A o \in Publishers \ {p} : place[o] # "idle" => mine[o] # mine[p]
      /\ \A o \in Publishers : place[o] \in Unjournalled => mine[o] \in Dirs /\ quar[mine[o]].ver = 0
      /\ \A o \in Publishers : place[o] = "removing" => journal[o] \in Dirs /\ quar[journal[o]].ver > 0
  BY WorkerFacts DEF Build, Journalled
<1>c. \A o \in Publishers : place[o] \in {"commit", "prior", "publish", "journal"} =>
        /\ mine[o] \in Dirs /\ staging[mine[o]] = mine[o] /\ target # mine[o]
        /\ \A r \in Dirs : quar[r].payload # mine[o] /\ (staging[r] = mine[o] => r = mine[o])
  BY BuiltFacts
<1>1. CASE Owned
  <2>d. /\ role[p] = "recover"
    BY <1>0 DEF OutputTypeOK, OutputTypes, OutputRoles, Committing
  <2>g. /\ state[m] = "free"
        /\ staging[m] = NoDir /\ quar[m].ver = 0 /\ target # m
        /\ \A q \in Dirs : staging[q] # m /\ quar[q].payload # m
    BY <1>0, <2>d DEF Owners, Blank, Unbuilt
  <2>1. /\ staging' \in [Dirs -> Paths] /\ staging'[m] = m /\ \A b \in Dirs : b # m => staging'[b] = staging[b]
        /\ state' \in [(Dirs \cup UserDirs) -> States] /\ state'[m] = "staging" /\ \A b \in (Dirs \cup UserDirs) : b # m => state'[b] = state[b]
        /\ UNCHANGED <<target, quar>>
    <3>1. /\ staging' \in [Dirs -> Paths] /\ staging'[m] = m /\ \A b \in Dirs : b # m => staging'[b] = staging[b]
      BY <1>0, <1>1, <2>d DEF Build, StandAt, OutputTypeOK, OutputTypes, onDisk, States, Paths
    <3>2. /\ state' \in [(Dirs \cup UserDirs) -> States] /\ state'[m] = "staging" /\ \A b \in (Dirs \cup UserDirs) : b # m => state'[b] = state[b]
      BY <1>0, <1>1, <2>d DEF Build, StandAt, OutputTypeOK, OutputTypes, onDisk, States, Paths
    <3>3. /\ UNCHANGED <<target, quar>>
      BY <1>0, <1>1, <2>d DEF Build, StandAt, OutputTypeOK, OutputTypes, onDisk, States, Paths
    <3> QED  BY <3>1, <3>2, <3>3
  <2>b. /\ role' \in [Publishers -> {"recover", "commit", "withdraw"}] /\ role'[p] = "commit" /\ \A b \in Publishers : b # p => role'[b] = role[b]
        /\ place' \in [Publishers -> OutputPlaces] /\ place'[p] = "commit" /\ \A b \in Publishers : b # p => place'[b] = place[b]
        /\ UNCHANGED <<mine, prior, unseen, matched, journal, known, doomed, incidents>>
    <3>1. /\ role' \in [Publishers -> {"recover", "commit", "withdraw"}] /\ role'[p] = "commit" /\ \A b \in Publishers : b # p => role'[b] = role[b]
      BY <1>0, <1>1, <2>d DEF Build, StandAt, OutputTypeOK, OutputTypes, Paths, Beside
    <3>2. /\ place' \in [Publishers -> OutputPlaces] /\ place'[p] = "commit" /\ \A b \in Publishers : b # p => place'[b] = place[b]
      BY <1>0, <1>1, <2>d DEF Build, StandAt, OutputTypeOK, OutputTypes, Paths, Beside, OutputPlaces
    <3>3. /\ UNCHANGED <<mine, prior, unseen, matched, journal, known, doomed, incidents>>
      BY <1>0, <1>1, <2>d DEF Build, StandAt, OutputTypeOK, OutputTypes, Paths, Beside
    <3> QED  BY <3>1, <3>2, <3>3
  <2>e. \A r \in Dirs : quar[r].ver > 0 => quar'[r].ver > 0 /\ quar'[r].prior = quar[r].prior
    BY <1>0, <1>1, <2>1, <2>d, <2>g, <2>b DEF OutputTypeOK, OutputTypes
  <2>2. OutputTypes'
    BY <1>0, <1>1, <2>1, <2>d, <2>g, <2>b DEF OutputTypeOK, OutputTypes, OutputPlaces, States, Paths,
       Quarantine, incidents, Beside
  <2>3. OnePlace'
    BY <1>0, <1>1, <2>1, <2>d, <2>g DEF OutputTypeOK, OutputTypes, OnePlace
  <2>3a. OnePayload'
    BY <1>0, <1>1, <2>1, <2>d, <2>g DEF OutputTypeOK, OutputTypes, OnePlace, OnePayload
  <2>4. Blank'
    BY <1>0, <1>1, <2>1, <2>d, <2>g DEF OutputTypeOK, OutputTypes, Blank, Unbuilt, OutputAssumption
  <2>4a. Owners'
    BY <1>0, <1>1, <2>1, <2>d, <2>g, <2>b DEF OutputTypeOK, OutputTypes, Owners
  <2>5. OutputRoles'
    BY <1>0, <2>b, <2>d DEF OutputTypeOK, OutputTypes, OutputRoles, Recovering, Committing, Swapping, Beside
  <2>6. MadeOnce'
    BY <1>0, <1>1, <2>1, <2>d, <2>g, <2>b DEF OutputTypeOK, OutputTypes, MadeOnce
  <2>6a. Unmade'
    BY <1>0, <1>1, <2>1, <2>d, <2>g, <2>b DEF OutputTypeOK, OutputTypes, Unmade, Unjournalled
  <2>7. Seen'
    BY <1>0, <2>b, <2>d, <2>e DEF OutputTypeOK, OutputTypes, Seen, Journalled
  <2>7a. Written'
    BY <1>0, <2>b, <2>d, <2>e DEF OutputTypeOK, OutputTypes, Written, Journalled, Seen
  <2>8. Built'
    BY <1>0, <1>1, <2>1, <2>d, <2>g, <2>b, <1>c DEF OutputTypeOK, OutputTypes, Built, Unjournalled
  <2>9. exchanging => Exchanged'
    <3> SUFFICES ASSUME exchanging, Exchanged  PROVE Exchanged'
      OBVIOUS
    <3>1. TargetComplete'
      BY <1>0, <1>1, <2>1, <2>d, <2>g, <2>b DEF OutputTypeOK, OutputTypes, Exchanged, TargetComplete,
         ReadyBack, OnePlace, Paths, OutputAssumption
    <3>2. ReadyBack'
      BY <1>0, <1>1, <2>1, <2>d, <2>g, <2>b DEF OutputTypeOK, OutputTypes, Exchanged, ReadyBack, OnePlace,
         MadeOnce, Paths, OutputAssumption
    <3>3. NoneRenames'
      BY <1>0, <1>1, <2>1, <2>d, <2>g, <2>b DEF OutputTypeOK, OutputTypes, Exchanged, NoneRenames, Renaming
    <3>4. SwapsBuilt'
      BY <1>0, <1>1, <2>1, <2>d, <2>g, <2>b DEF OutputTypeOK, OutputTypes, Exchanged, SwapsBuilt, ReadyBack,
         Paths, OutputAssumption
    <3>5. AwayFirst'
      BY <1>0, <1>1, <2>1, <2>d, <2>g, <2>b DEF OutputTypeOK, OutputTypes, Exchanged, AwayFirst, Paths,
         OutputAssumption
    <3>6. UsersOwn'
      BY <1>0, <1>1, <2>1, <2>d, <2>g, <2>b DEF Exchanged, UsersOwn, OutputAssumption
    <3> QED  BY <3>1, <3>2, <3>3, <3>4, <3>5, <3>6 DEF Exchanged
  <2>10. ~met' /\ edits' = 0 => Sequential'
    <3> SUFFICES ASSUME ~met', edits' = 0  PROVE Sequential'
      OBVIOUS
    <3>1. /\ Sequential /\ TargetFinal /\ OneJournal /\ OneWorks' /\ OnDisk(p)
          /\ \A o \in Publishers : o # p => place[o] = "idle" /\ place'[o] = "idle"
      BY <1>0, <2>b, AloneFacts DEF incidents, Sequential
    <3>2. /\ \A r \in Dirs : ~quar[r].record /\ quar[r].payload = NoDir
          /\ target # NoDir => target \in Dirs \cup UserDirs /\ state[target] = "final"
      BY <1>0, <3>1, JournalFacts DEF Unjournalled, OutputTypeOK
    <3>5. TargetFinal'
      BY <1>0, <1>1, <2>1, <2>d, <2>g, <2>b, <3>1, <3>2 DEF TargetFinal, OutputTypeOK, OutputTypes, Paths
    <3>6. OneJournal'
      BY <1>0, <1>1, <2>1, <2>d, <2>g, <2>b, <3>1, <3>2 DEF OneJournal, OutputTypeOK, OutputTypes, Paths
    <3>7. place'[p] # "idle" => OnDisk(p)'
      <4>1. CASE place'[p] = "commit"
        BY <1>0, <1>1, <2>1, <2>d, <2>g, <2>b, <3>1, <3>2, <4>1 DEF OnDisk, NoJournal, Journalled,
           Unjournalled, Sound
      <4> QED  BY <2>b, <4>1
    <3>8. place'[p] # "idle"
      BY <2>b
    <3> QED  BY <3>1, <3>2, <3>5, <3>6, <3>7, <3>8 DEF Sequential
  <2> QED  BY <2>2, <2>3, <2>3a, <2>4, <2>4a, <2>5, <2>6, <2>6a, <2>7, <2>7a, <2>8, <2>9, <2>10 DEF
              OutputTypeOK
<1>2. CASE ~Owned
  <2>1. place' = [place EXCEPT ![p] = "idle"] /\ UNCHANGED <<onDisk, mine, prior, unseen, matched, journal, known, doomed, role, incidents>>
    BY <1>0, <1>2 DEF Build, StandAt, onDisk
  <2>2. "idle" \in {"idle", "abort"} /\ ("idle" = "abort" => role[p] # "recover") /\ place[p] # "idle"
    BY <1>0 DEF OutputTypeOK, OutputTypes, OutputRoles, Recovering, Committing
  <2>3. strikes' \in 0..MaxStrikes /\ edits' = edits /\ deep' \in BOOLEAN
    BY <2>1 DEF OutputTypeOK, OutputTypes, incidents
  <2>4. OutputBase' /\ (exchanging => Exchanged')
    BY <2>1, <2>2, <2>3, GiveUp DEF onDisk
  <2>b. /\ place' \in [Publishers -> OutputPlaces] /\ place'[p] = "idle" /\ \A b \in Publishers : b # p => place'[b] = place[b]
        /\ UNCHANGED <<target, staging, quar, state, mine, prior, unseen, matched, journal, known, doomed, role, incidents>>
    BY <2>1, <2>2 DEF OutputTypeOK, OutputTypes, OutputPlaces, onDisk
  <2>10. ~met' /\ edits' = 0 => Sequential'
    <3> SUFFICES ASSUME ~met', edits' = 0  PROVE Sequential'
      OBVIOUS
    <3>1. /\ Sequential /\ TargetFinal /\ OneJournal /\ OneWorks' /\ OnDisk(p)
          /\ \A o \in Publishers : o # p => place[o] = "idle" /\ place'[o] = "idle"
      BY <1>0, <2>b, AloneFacts DEF incidents, Sequential
    <3>2. /\ \A r \in Dirs : ~quar[r].record /\ quar[r].payload = NoDir
          /\ target # NoDir => target \in Dirs \cup UserDirs /\ state[target] = "final"
      BY <1>0, <3>1, JournalFacts DEF Unjournalled, OutputTypeOK
    <3>5. TargetFinal'
      BY <1>0, <1>2, <2>2, <2>b, <3>1, <3>2 DEF TargetFinal, OutputTypeOK, OutputTypes, Paths
    <3>6. OneJournal'
      BY <1>0, <1>2, <2>2, <2>b, <3>1, <3>2 DEF OneJournal, OutputTypeOK, OutputTypes, Paths
    <3>7. place'[p] # "idle" => OnDisk(p)'
      <4> QED  BY <2>b, <2>2
    <3>8. place'[p] = "idle" => \A q \in Dirs : quar'[q].record => Unattended(q)'
      BY <1>0, <1>2, <2>2, <2>b, <3>1, <3>2 DEF OnDisk, NoJournal, Journalled, Unjournalled, Sound,
         Published, PriorStaged, PriorQuarantined, PriorRemoved, NotExchanged, TargetMissing, Recoverable,
         SetAside, Away, Shelved, Tearing, Undoing, Undone, Unattended, Completing, Reverting, incidents
    <3> QED  BY <3>1, <3>2, <3>5, <3>6, <3>7, <3>8 DEF Sequential
  <2> QED  BY <2>4, <2>10
<1> QED  BY <1>1, <1>2 DEF Build

LEMMA FinalizeOutputStep ==
  ASSUME OutputAssumption, OutputInv, Beside, NEW p \in Publishers, FinalizeOutput(p)
  PROVE  OutputInv'
<1> DEFINE m == mine[p]
<1> USE DEF OutputBase, OutputInv, Beside
<1>0. /\ place[p] = "commit"
      /\ mine[p] \in Dirs
      /\ \A o \in Publishers : place[o] # "idle" => mine[o] \in Dirs
      /\ \A o \in Publishers \ {p} : place[o] # "idle" => mine[o] # mine[p]
      /\ \A o \in Publishers : place[o] \in Unjournalled => mine[o] \in Dirs /\ quar[mine[o]].ver = 0
      /\ \A o \in Publishers : place[o] = "removing" => journal[o] \in Dirs /\ quar[journal[o]].ver > 0
  BY WorkerFacts DEF FinalizeOutput, Journalled
<1>c. \A o \in Publishers : place[o] \in {"commit", "prior", "publish", "journal"} =>
        /\ mine[o] \in Dirs /\ staging[mine[o]] = mine[o] /\ target # mine[o]
        /\ \A r \in Dirs : quar[r].payload # mine[o] /\ (staging[r] = mine[o] => r = mine[o])
  BY BuiltFacts
<1>1. CASE Intact(p) /\ Owned
  <2>d. /\ role[p] = "commit"
    BY <1>0 DEF OutputTypeOK, OutputTypes, OutputRoles, Recovering
  <2>1. /\ state' \in [(Dirs \cup UserDirs) -> States] /\ state'[m] = "final" /\ \A b \in (Dirs \cup UserDirs) : b # m => state'[b] = state[b]
        /\ staging[m] = m
        /\ UNCHANGED <<target, staging, quar>>
        /\ state[m] = "staging"
    <3>1. /\ state' \in [(Dirs \cup UserDirs) -> States] /\ state'[m] = "final" /\ \A b \in (Dirs \cup UserDirs) : b # m => state'[b] = state[b]
      BY <1>0, <1>1, <2>d DEF FinalizeOutput, StandAt, OutputTypeOK, OutputTypes, Intact, Built, onDisk,
         States, Paths
    <3>2. /\ state[m] = "staging"
      BY <1>0, <1>1, <2>d DEF FinalizeOutput, StandAt, OutputTypeOK, OutputTypes, Intact, Built, onDisk,
         States, Paths
    <3>3. /\ staging[m] = m
          /\ UNCHANGED <<target, staging, quar>>
      BY <1>0, <1>1, <2>d DEF FinalizeOutput, StandAt, OutputTypeOK, OutputTypes, Intact, Built, onDisk,
         States, Paths
    <3> QED  BY <3>1, <3>2, <3>3
  <2>b. /\ place' \in [Publishers -> OutputPlaces] /\ place'[p] = "prior" /\ \A b \in Publishers : b # p => place'[b] = place[b]
        /\ UNCHANGED <<mine, prior, unseen, matched, journal, known, doomed, role, incidents>>
    <3>1. /\ place' \in [Publishers -> OutputPlaces] /\ place'[p] = "prior" /\ \A b \in Publishers : b # p => place'[b] = place[b]
      BY <1>0, <1>1, <2>d DEF FinalizeOutput, StandAt, OutputTypeOK, OutputTypes, Intact, Built, Paths,
         Beside, OutputPlaces
    <3>2. /\ UNCHANGED <<mine, prior, unseen, matched, journal, known, doomed, role, incidents>>
      BY <1>0, <1>1, <2>d DEF FinalizeOutput, StandAt, OutputTypeOK, OutputTypes, Intact, Built, Paths, Beside
    <3> QED  BY <3>1, <3>2
  <2>e. \A r \in Dirs : quar[r].ver > 0 => quar'[r].ver > 0 /\ quar'[r].prior = quar[r].prior
    BY <1>0, <1>1, <2>1, <2>d, <2>b DEF OutputTypeOK, OutputTypes
  <2>2. OutputTypes'
    BY <1>0, <1>1, <2>1, <2>d, <2>b DEF OutputTypeOK, OutputTypes, OutputPlaces, States, Paths, Quarantine,
       incidents, Beside
  <2>3. OnePlace'
    BY <1>0, <1>1, <2>1, <2>d DEF OutputTypeOK, OutputTypes, OnePlace
  <2>3a. OnePayload'
    BY <1>0, <1>1, <2>1, <2>d DEF OutputTypeOK, OutputTypes, OnePlace, OnePayload
  <2>4. Blank'
    BY <1>0, <1>1, <2>1, <2>d DEF OutputTypeOK, OutputTypes, Blank, Unbuilt, OutputAssumption
  <2>4a. Owners'
    BY <1>0, <1>1, <2>1, <2>d, <2>b DEF OutputTypeOK, OutputTypes, Owners
  <2>5. OutputRoles'
    BY <1>0, <2>b, <2>d DEF OutputTypeOK, OutputTypes, OutputRoles, Recovering, Committing, Swapping, Beside
  <2>6. MadeOnce'
    BY <1>0, <1>1, <2>1, <2>d, <2>b DEF OutputTypeOK, OutputTypes, MadeOnce
  <2>6a. Unmade'
    BY <1>0, <1>1, <2>1, <2>d, <2>b DEF OutputTypeOK, OutputTypes, Unmade, Unjournalled
  <2>7. Seen'
    BY <1>0, <2>b, <2>d, <2>e DEF OutputTypeOK, OutputTypes, Seen, Journalled
  <2>7a. Written'
    BY <1>0, <2>b, <2>d, <2>e DEF OutputTypeOK, OutputTypes, Written, Journalled, Seen
  <2>8. Built'
    BY <1>0, <1>1, <2>1, <2>d, <2>b, <1>c DEF OutputTypeOK, OutputTypes, Built, Unjournalled
  <2>9. exchanging => Exchanged'
    <3> SUFFICES ASSUME exchanging, Exchanged  PROVE Exchanged'
      OBVIOUS
    <3>1. TargetComplete'
      BY <1>0, <1>1, <2>1, <2>d, <2>b DEF OutputTypeOK, OutputTypes, Exchanged, TargetComplete, ReadyBack,
         OnePlace, Paths, OutputAssumption
    <3>2. ReadyBack'
      BY <1>0, <1>1, <2>1, <2>d, <2>b DEF OutputTypeOK, OutputTypes, Exchanged, ReadyBack, OnePlace, Paths,
         OutputAssumption
    <3>3. NoneRenames'
      BY <1>0, <1>1, <2>1, <2>d, <2>b DEF OutputTypeOK, OutputTypes, Exchanged, NoneRenames, Renaming
    <3>4. SwapsBuilt'
      BY <1>0, <1>1, <2>1, <2>d, <2>b DEF OutputTypeOK, OutputTypes, Exchanged, SwapsBuilt, ReadyBack,
         Paths, OutputAssumption
    <3>5. AwayFirst'
      BY <1>0, <1>1, <2>1, <2>d, <2>b DEF OutputTypeOK, OutputTypes, Exchanged, AwayFirst, Paths,
         OutputAssumption
    <3>6. UsersOwn'
      BY <1>0, <1>1, <2>1, <2>d, <2>b DEF Exchanged, UsersOwn, OutputAssumption
    <3> QED  BY <3>1, <3>2, <3>3, <3>4, <3>5, <3>6 DEF Exchanged
  <2>10. ~met' /\ edits' = 0 => Sequential'
    <3> SUFFICES ASSUME ~met', edits' = 0  PROVE Sequential'
      OBVIOUS
    <3>1. /\ Sequential /\ TargetFinal /\ OneJournal /\ OneWorks' /\ OnDisk(p)
          /\ \A o \in Publishers : o # p => place[o] = "idle" /\ place'[o] = "idle"
      BY <1>0, <2>b, AloneFacts DEF incidents, Sequential
    <3>2. /\ \A r \in Dirs : ~quar[r].record /\ quar[r].payload = NoDir
          /\ target # NoDir => target \in Dirs \cup UserDirs /\ state[target] = "final"
      BY <1>0, <3>1, JournalFacts DEF Unjournalled, OutputTypeOK
    <3>5. TargetFinal'
      BY <1>0, <1>1, <2>1, <2>d, <2>b, <3>1, <3>2 DEF TargetFinal, OutputTypeOK, OutputTypes, Paths
    <3>6. OneJournal'
      BY <1>0, <1>1, <2>1, <2>d, <2>b, <3>1, <3>2 DEF OneJournal, OutputTypeOK, OutputTypes, Paths
    <3>7. place'[p] # "idle" => OnDisk(p)'
      <4>1. CASE place'[p] = "prior"
        BY <1>0, <1>1, <2>1, <2>d, <2>b, <3>1, <3>2, <4>1 DEF OnDisk, NoJournal, Journalled, Unjournalled,
           Sound
      <4> QED  BY <2>b, <4>1
    <3>8. place'[p] # "idle"
      BY <2>b
    <3> QED  BY <3>1, <3>2, <3>5, <3>6, <3>7, <3>8 DEF Sequential
  <2> QED  BY <2>2, <2>3, <2>3a, <2>4, <2>4a, <2>5, <2>6, <2>6a, <2>7, <2>7a, <2>8, <2>9, <2>10 DEF
              OutputTypeOK
<1>2. CASE ~(Intact(p) /\ Owned)
  <2>1. place' = [place EXCEPT ![p] = "abort"] /\ UNCHANGED <<onDisk, mine, prior, unseen, matched, journal, known, doomed, role, incidents>>
    BY <1>0, <1>2 DEF FinalizeOutput, StandAt, onDisk
  <2>2. "abort" \in {"idle", "abort"} /\ ("abort" = "abort" => role[p] # "recover") /\ place[p] # "idle"
    BY <1>0 DEF OutputTypeOK, OutputTypes, OutputRoles, Recovering, Committing
  <2>3. strikes' \in 0..MaxStrikes /\ edits' = edits /\ deep' \in BOOLEAN
    BY <2>1 DEF OutputTypeOK, OutputTypes, incidents
  <2>4. OutputBase' /\ (exchanging => Exchanged')
    BY <2>1, <2>2, <2>3, GiveUp DEF onDisk
  <2>b. /\ place' \in [Publishers -> OutputPlaces] /\ place'[p] = "abort" /\ \A b \in Publishers : b # p => place'[b] = place[b]
        /\ UNCHANGED <<target, staging, quar, state, mine, prior, unseen, matched, journal, known, doomed, role, incidents>>
    BY <2>1, <2>2 DEF OutputTypeOK, OutputTypes, OutputPlaces, onDisk
  <2>10. ~met' /\ edits' = 0 => Sequential'
    <3> SUFFICES ASSUME ~met', edits' = 0  PROVE Sequential'
      OBVIOUS
    <3>1. /\ Sequential /\ TargetFinal /\ OneJournal /\ OneWorks' /\ OnDisk(p)
          /\ \A o \in Publishers : o # p => place[o] = "idle" /\ place'[o] = "idle"
      BY <1>0, <2>b, AloneFacts DEF incidents, Sequential
    <3>2. /\ \A r \in Dirs : ~quar[r].record /\ quar[r].payload = NoDir
          /\ target # NoDir => target \in Dirs \cup UserDirs /\ state[target] = "final"
      BY <1>0, <3>1, JournalFacts DEF Unjournalled, OutputTypeOK
    <3>5. TargetFinal'
      BY <1>0, <1>2, <2>2, <2>b, <3>1, <3>2 DEF TargetFinal, OutputTypeOK, OutputTypes, Paths
    <3>6. OneJournal'
      BY <1>0, <1>2, <2>2, <2>b, <3>1, <3>2 DEF OneJournal, OutputTypeOK, OutputTypes, Paths
    <3>7. place'[p] # "idle" => OnDisk(p)'
      <4>1. CASE place'[p] = "abort"
        BY <1>0, <1>2, <2>2, <2>b, <3>1, <3>2, <4>1 DEF OnDisk, NoJournal, Journalled, Unjournalled,
           Unattended, SetAside, Recoverable, PriorStaged, PriorQuarantined, PriorRemoved, NotExchanged,
           TargetMissing, Published, Sound
      <4> QED  BY <2>b, <4>1, <2>2
    <3>8. place'[p] # "idle"
      BY <2>b
    <3> QED  BY <3>1, <3>2, <3>5, <3>6, <3>7, <3>8 DEF Sequential
  <2> QED  BY <2>4, <2>10
<1> QED  BY <1>1, <1>2 DEF FinalizeOutput

LEMMA InspectPriorStep ==
  ASSUME OutputAssumption, OutputInv, Beside, NEW p \in Publishers, InspectPrior(p)
  PROVE  OutputInv'
<1> DEFINE j == journal[p]
<1> USE DEF OutputBase, OutputInv, Beside
<1>0. /\ place[p] = "prior"
      /\ mine[p] \in Dirs
      /\ \A o \in Publishers : place[o] # "idle" => mine[o] \in Dirs
      /\ \A o \in Publishers \ {p} : place[o] # "idle" => mine[o] # mine[p]
      /\ \A o \in Publishers : place[o] \in Unjournalled => mine[o] \in Dirs /\ quar[mine[o]].ver = 0
      /\ \A o \in Publishers : place[o] = "removing" => journal[o] \in Dirs /\ quar[journal[o]].ver > 0
  BY WorkerFacts DEF InspectPrior, Journalled
<1>c. \A o \in Publishers : place[o] \in {"commit", "prior", "publish", "journal"} =>
        /\ mine[o] \in Dirs /\ staging[mine[o]] = mine[o] /\ target # mine[o]
        /\ \A r \in Dirs : quar[r].payload # mine[o] /\ (staging[r] = mine[o] => r = mine[o])
  BY BuiltFacts
<1>d. /\ role[p] = "commit"
  BY <1>0 DEF OutputTypeOK, OutputTypes, OutputRoles, Recovering
<1>1. /\ UNCHANGED <<target, staging, quar, state>>
  BY <1>0, <1>d DEF InspectPrior, StandAt, onDisk, States, Paths
<1>b. /\ place' \in [Publishers -> OutputPlaces] /\ place'[p] \in {"abort", "publish", "journal"} /\ \A b \in Publishers : b # p => place'[b] = place[b]
      /\ prior' \in [Publishers -> Paths] /\ prior'[p] = target /\ \A b \in Publishers : b # p => prior'[b] = prior[b]
      /\ place'[p] = "journal" => target # NoDir
      /\ UNCHANGED <<mine, unseen, matched, journal, known, doomed, role, incidents>>
  <2>1. /\ place' \in [Publishers -> OutputPlaces] /\ place'[p] \in {"abort", "publish", "journal"} /\ \A b \in Publishers : b # p => place'[b] = place[b]
    BY <1>0, <1>d DEF InspectPrior, StandAt, OutputTypeOK, OutputTypes, Paths, Beside, OutputPlaces
  <2>2. /\ prior' \in [Publishers -> Paths] /\ prior'[p] = target /\ \A b \in Publishers : b # p => prior'[b] = prior[b]
    BY <1>0, <1>d DEF InspectPrior, StandAt, OutputTypeOK, OutputTypes, Paths, Beside
  <2>3. /\ place'[p] = "journal" => target # NoDir
        /\ UNCHANGED <<mine, unseen, matched, journal, known, doomed, role, incidents>>
    BY <1>0, <1>d DEF InspectPrior, StandAt, OutputTypeOK, OutputTypes, Paths, Beside, OutputPlaces
  <2> QED  BY <2>1, <2>2, <2>3
<1>e. \A r \in Dirs : quar[r].ver > 0 => quar'[r].ver > 0 /\ quar'[r].prior = quar[r].prior
  BY <1>0, <1>1, <1>d, <1>b DEF OutputTypeOK, OutputTypes
<1>2. OutputTypes'
  BY <1>0, <1>1, <1>d, <1>b DEF OutputTypeOK, OutputTypes, OutputPlaces, States, Paths, Quarantine,
     incidents, Beside
<1>3. OnePlace'
  BY <1>0, <1>1, <1>d DEF OutputTypeOK, OutputTypes, OnePlace
<1>3a. OnePayload'
  BY <1>0, <1>1, <1>d DEF OutputTypeOK, OutputTypes, OnePlace, OnePayload
<1>4. Blank'
  BY <1>0, <1>1, <1>d DEF OutputTypeOK, OutputTypes, Blank, Unbuilt, OutputAssumption
<1>4a. Owners'
  BY <1>0, <1>1, <1>d, <1>b DEF OutputTypeOK, OutputTypes, Owners
<1>5. OutputRoles'
  BY <1>0, <1>b, <1>d DEF OutputTypeOK, OutputTypes, OutputRoles, Recovering, Committing, Swapping, Beside
<1>6. MadeOnce'
  BY <1>0, <1>1, <1>d, <1>b DEF OutputTypeOK, OutputTypes, MadeOnce
<1>6a. Unmade'
  BY <1>0, <1>1, <1>d, <1>b DEF OutputTypeOK, OutputTypes, Unmade, Unjournalled
<1>7. Seen'
  BY <1>0, <1>b, <1>d, <1>e DEF OutputTypeOK, OutputTypes, Seen, Journalled
<1>7a. Written'
  BY <1>0, <1>b, <1>d, <1>e DEF OutputTypeOK, OutputTypes, Written, Journalled, Seen
<1>8. Built'
  BY <1>0, <1>1, <1>d, <1>b, <1>c DEF OutputTypeOK, OutputTypes, Built, Unjournalled
<1>9. exchanging => Exchanged'
  <2> SUFFICES ASSUME exchanging, Exchanged  PROVE Exchanged'
    OBVIOUS
  <2>1. TargetComplete'
    BY <1>0, <1>1, <1>d, <1>b DEF OutputTypeOK, OutputTypes, Exchanged, TargetComplete, ReadyBack, OnePlace,
       Paths, OutputAssumption
  <2>2. ReadyBack'
    BY <1>0, <1>1, <1>d, <1>b DEF OutputTypeOK, OutputTypes, Exchanged, ReadyBack, OnePlace, Paths,
       OutputAssumption
  <2>3. NoneRenames'
    BY <1>0, <1>1, <1>d, <1>b DEF OutputTypeOK, OutputTypes, Exchanged, NoneRenames, Renaming
  <2>4. SwapsBuilt'
    BY <1>0, <1>1, <1>d, <1>b DEF OutputTypeOK, OutputTypes, Exchanged, SwapsBuilt, ReadyBack, Paths,
       OutputAssumption
  <2>5. AwayFirst'
    BY <1>0, <1>1, <1>d, <1>b DEF OutputTypeOK, OutputTypes, Exchanged, AwayFirst, Paths, OutputAssumption
  <2>6. UsersOwn'
    BY <1>0, <1>1, <1>d, <1>b DEF Exchanged, UsersOwn, OutputAssumption
  <2> QED  BY <2>1, <2>2, <2>3, <2>4, <2>5, <2>6 DEF Exchanged
<1>10. ~met' /\ edits' = 0 => Sequential'
  <2> SUFFICES ASSUME ~met', edits' = 0  PROVE Sequential'
    OBVIOUS
  <2>1. /\ Sequential /\ TargetFinal /\ OneJournal /\ OneWorks' /\ OnDisk(p)
        /\ \A o \in Publishers : o # p => place[o] = "idle" /\ place'[o] = "idle"
    BY <1>0, <1>b, AloneFacts DEF incidents, Sequential
  <2>2. /\ \A r \in Dirs : ~quar[r].record /\ quar[r].payload = NoDir
        /\ target # NoDir => target \in Dirs \cup UserDirs /\ state[target] = "final"
    BY <1>0, <2>1, JournalFacts DEF Unjournalled, OutputTypeOK
  <2>4a. place'[p] = "publish" => target = NoDir
    BY <1>0, <1>1, <1>d, <1>b, <2>1, <2>2 DEF InspectPrior, StandAt, OutputTypeOK, OutputTypes, Sound
  <2>5. TargetFinal'
    BY <1>0, <1>1, <1>d, <1>b, <2>1, <2>2, <2>4a DEF TargetFinal, OutputTypeOK, OutputTypes, Paths
  <2>6. OneJournal'
    BY <1>0, <1>1, <1>d, <1>b, <2>1, <2>2, <2>4a DEF OneJournal, OutputTypeOK, OutputTypes, Paths
  <2>7. place'[p] # "idle" => OnDisk(p)'
    <3>1. CASE place'[p] = "abort"
      BY <1>0, <1>1, <1>d, <1>b, <2>1, <2>2, <2>4a, <3>1 DEF OnDisk, NoJournal, Journalled, Unjournalled,
         Unattended, SetAside, Recoverable, PriorStaged, PriorQuarantined, PriorRemoved, NotExchanged,
         TargetMissing, Published, Sound
    <3>2. CASE place'[p] = "publish"
      BY <1>0, <1>1, <1>d, <1>b, <2>1, <2>2, <2>4a, <3>2 DEF OnDisk, NoJournal, Journalled, Unjournalled,
         Sound
    <3>3. CASE place'[p] = "journal"
      BY <1>0, <1>1, <1>d, <1>b, <2>1, <2>2, <2>4a, <3>3 DEF OnDisk, NoJournal, Journalled, Unjournalled,
         Sound
    <3> QED  BY <1>b, <3>1, <3>2, <3>3
  <2>8. place'[p] # "idle"
    BY <1>b
  <2> QED  BY <2>1, <2>2, <2>4a, <2>5, <2>6, <2>7, <2>8 DEF Sequential
<1> QED  BY <1>2, <1>3, <1>3a, <1>4, <1>4a, <1>5, <1>6, <1>6a, <1>7, <1>7a, <1>8, <1>9, <1>10 DEF OutputTypeOK

LEMMA PublishNewStep ==
  ASSUME OutputAssumption, OutputInv, Beside, NEW p \in Publishers, PublishNew(p)
  PROVE  OutputInv'
<1> DEFINE m == mine[p]
<1> USE DEF OutputBase, OutputInv, Beside
<1>0. /\ place[p] = "publish"
      /\ mine[p] \in Dirs
      /\ \A o \in Publishers : place[o] # "idle" => mine[o] \in Dirs
      /\ \A o \in Publishers \ {p} : place[o] # "idle" => mine[o] # mine[p]
      /\ \A o \in Publishers : place[o] \in Unjournalled => mine[o] \in Dirs /\ quar[mine[o]].ver = 0
      /\ \A o \in Publishers : place[o] = "removing" => journal[o] \in Dirs /\ quar[journal[o]].ver > 0
  BY WorkerFacts DEF PublishNew, Journalled
<1>c. \A o \in Publishers : place[o] \in {"commit", "prior", "publish", "journal"} =>
        /\ mine[o] \in Dirs /\ staging[mine[o]] = mine[o] /\ target # mine[o]
        /\ \A r \in Dirs : quar[r].payload # mine[o] /\ (staging[r] = mine[o] => r = mine[o])
  BY BuiltFacts
<1>1. CASE target = NoDir /\ staging[m] # NoDir
  <2>d. /\ role[p] = "commit"
    BY <1>0 DEF OutputTypeOK, OutputTypes, OutputRoles, Recovering
  <2>1. /\ target' \in Paths
        /\ target' = m
        /\ target = NoDir
        /\ staging' \in [Dirs -> Paths] /\ staging'[m] = NoDir /\ \A b \in Dirs : b # m => staging'[b] = staging[b]
        /\ staging[m] = m
        /\ state[m] = "final"
        /\ UNCHANGED <<quar, state>>
    <3>1. /\ target' \in Paths
      BY <1>0, <1>1, <2>d DEF PublishNew, StandAt, OutputTypeOK, OutputTypes, Built, onDisk, States, Paths
    <3>2. /\ staging' \in [Dirs -> Paths] /\ staging'[m] = NoDir /\ \A b \in Dirs : b # m => staging'[b] = staging[b]
      BY <1>0, <1>1, <2>d DEF PublishNew, StandAt, OutputTypeOK, OutputTypes, Built, onDisk, States, Paths
    <3>3. /\ state[m] = "final"
      BY <1>0, <1>1, <2>d DEF PublishNew, StandAt, OutputTypeOK, OutputTypes, Built, onDisk, States, Paths
    <3>4. /\ target' = m
          /\ target = NoDir
          /\ staging[m] = m
          /\ UNCHANGED <<quar, state>>
      BY <1>0, <1>1, <2>d DEF PublishNew, StandAt, OutputTypeOK, OutputTypes, Built, onDisk, States, Paths
    <3> QED  BY <3>1, <3>2, <3>3, <3>4
  <2>b. /\ place' \in [Publishers -> OutputPlaces] /\ place'[p] = "verifyNew" /\ \A b \in Publishers : b # p => place'[b] = place[b]
        /\ UNCHANGED <<mine, prior, unseen, matched, journal, known, doomed, role, incidents>>
    <3>1. /\ place' \in [Publishers -> OutputPlaces] /\ place'[p] = "verifyNew" /\ \A b \in Publishers : b # p => place'[b] = place[b]
      BY <1>0, <1>1, <2>d DEF PublishNew, StandAt, OutputTypeOK, OutputTypes, OutputPlaces
    <3>2. /\ UNCHANGED <<mine, prior, unseen, matched, journal, known, doomed, role, incidents>>
      BY <1>0, <1>1, <2>d DEF PublishNew, StandAt, OutputTypeOK, OutputTypes, Built, Paths, Beside
    <3> QED  BY <3>1, <3>2
  <2>e. \A r \in Dirs : quar[r].ver > 0 => quar'[r].ver > 0 /\ quar'[r].prior = quar[r].prior
    BY <1>0, <1>1, <2>1, <2>d, <2>b DEF OutputTypeOK, OutputTypes
  <2>2. OutputTypes'
    BY <1>0, <1>1, <2>1, <2>d, <2>b DEF OutputTypeOK, OutputTypes, OutputPlaces, States, Paths, Quarantine,
       incidents, Beside
  <2>3. OnePlace'
    BY <1>0, <1>1, <2>1, <2>d DEF OutputTypeOK, OutputTypes, OnePlace
  <2>3a. OnePayload'
    BY <1>0, <1>1, <2>1, <2>d DEF OutputTypeOK, OutputTypes, OnePlace, OnePayload
  <2>4. Blank'
    BY <1>0, <1>1, <2>1, <2>d DEF OutputTypeOK, OutputTypes, Blank, Unbuilt, OutputAssumption
  <2>4a. Owners'
    BY <1>0, <1>1, <2>1, <2>d, <2>b DEF OutputTypeOK, OutputTypes, Owners
  <2>5. OutputRoles'
    BY <1>0, <2>b, <2>d DEF OutputTypeOK, OutputTypes, OutputRoles, Recovering, Committing, Swapping, Beside
  <2>6. MadeOnce'
    BY <1>0, <1>1, <2>1, <2>d, <2>b DEF OutputTypeOK, OutputTypes, MadeOnce
  <2>6a. Unmade'
    BY <1>0, <1>1, <2>1, <2>d, <2>b DEF OutputTypeOK, OutputTypes, Unmade, Unjournalled
  <2>7. Seen'
    BY <1>0, <2>b, <2>d, <2>e DEF OutputTypeOK, OutputTypes, Seen, Journalled
  <2>7a. Written'
    BY <1>0, <2>b, <2>d, <2>e DEF OutputTypeOK, OutputTypes, Written, Journalled, Seen
  <2>8. Built'
    BY <1>0, <1>1, <2>1, <2>d, <2>b, <1>c DEF OutputTypeOK, OutputTypes, Built, Unjournalled
  <2>9. exchanging => Exchanged'
    <3> SUFFICES ASSUME exchanging, Exchanged  PROVE Exchanged'
      OBVIOUS
    <3>1. TargetComplete'
      BY <1>0, <1>1, <2>1, <2>d, <2>b DEF OutputTypeOK, OutputTypes, Exchanged, TargetComplete, ReadyBack,
         OnePlace, Paths, OutputAssumption
    <3>2. ReadyBack'
      BY <1>0, <1>1, <2>1, <2>d, <2>b DEF OutputTypeOK, OutputTypes, Exchanged, ReadyBack, OnePlace, Paths,
         OutputAssumption
    <3>3. NoneRenames'
      BY <1>0, <1>1, <2>1, <2>d, <2>b DEF OutputTypeOK, OutputTypes, Exchanged, NoneRenames, Renaming
    <3>4. SwapsBuilt'
      BY <1>0, <1>1, <2>1, <2>d, <2>b DEF OutputTypeOK, OutputTypes, Exchanged, SwapsBuilt, ReadyBack,
         Paths, OutputAssumption
    <3>5. AwayFirst'
      BY <1>0, <1>1, <2>1, <2>d, <2>b DEF OutputTypeOK, OutputTypes, Exchanged, AwayFirst, Paths,
         OutputAssumption
    <3>6. UsersOwn'
      BY <1>0, <1>1, <2>1, <2>d, <2>b DEF Exchanged, UsersOwn, OutputAssumption
    <3> QED  BY <3>1, <3>2, <3>3, <3>4, <3>5, <3>6 DEF Exchanged
  <2>10. ~met' /\ edits' = 0 => Sequential'
    <3> SUFFICES ASSUME ~met', edits' = 0  PROVE Sequential'
      OBVIOUS
    <3>1. /\ Sequential /\ TargetFinal /\ OneJournal /\ OneWorks' /\ OnDisk(p)
          /\ \A o \in Publishers : o # p => place[o] = "idle" /\ place'[o] = "idle"
      BY <1>0, <2>b, AloneFacts DEF incidents, Sequential
    <3>2. /\ \A r \in Dirs : ~quar[r].record /\ quar[r].payload = NoDir
          /\ target # NoDir => target \in Dirs \cup UserDirs /\ state[target] = "final"
      BY <1>0, <3>1, JournalFacts DEF Unjournalled, OutputTypeOK
    <3>5. TargetFinal'
      BY <1>0, <1>1, <2>1, <2>d, <2>b, <3>1, <3>2 DEF TargetFinal, OutputTypeOK, OutputTypes, Paths
    <3>6. OneJournal'
      BY <1>0, <1>1, <2>1, <2>d, <2>b, <3>1, <3>2 DEF OneJournal, OutputTypeOK, OutputTypes, Paths
    <3>7. place'[p] # "idle" => OnDisk(p)'
      <4>1. CASE place'[p] = "verifyNew"
        BY <1>0, <1>1, <2>1, <2>d, <2>b, <3>1, <3>2, <4>1 DEF OnDisk, NoJournal, Journalled, Unjournalled,
           Sound
      <4> QED  BY <2>b, <4>1
    <3>8. place'[p] # "idle"
      BY <2>b
    <3> QED  BY <3>1, <3>2, <3>5, <3>6, <3>7, <3>8 DEF Sequential
  <2> QED  BY <2>2, <2>3, <2>3a, <2>4, <2>4a, <2>5, <2>6, <2>6a, <2>7, <2>7a, <2>8, <2>9, <2>10 DEF
              OutputTypeOK
<1>2. CASE ~(target = NoDir /\ staging[m] # NoDir)
  <2>1. place' = [place EXCEPT ![p] = "abort"] /\ UNCHANGED <<onDisk, mine, prior, unseen, matched, journal, known, doomed, role, incidents>>
    BY <1>0, <1>2 DEF PublishNew, StandAt, onDisk
  <2>2. "abort" \in {"idle", "abort"} /\ ("abort" = "abort" => role[p] # "recover") /\ place[p] # "idle"
    BY <1>0 DEF OutputTypeOK, OutputTypes, OutputRoles, Recovering, Committing
  <2>3. strikes' \in 0..MaxStrikes /\ edits' = edits /\ deep' \in BOOLEAN
    BY <2>1 DEF OutputTypeOK, OutputTypes, incidents
  <2>4. OutputBase' /\ (exchanging => Exchanged')
    BY <2>1, <2>2, <2>3, GiveUp DEF onDisk
  <2>b. /\ place' \in [Publishers -> OutputPlaces] /\ place'[p] = "abort" /\ \A b \in Publishers : b # p => place'[b] = place[b]
        /\ UNCHANGED <<target, staging, quar, state, mine, prior, unseen, matched, journal, known, doomed, role, incidents>>
    BY <2>1, <2>2 DEF OutputTypeOK, OutputTypes, OutputPlaces, onDisk
  <2>10. ~met' /\ edits' = 0 => Sequential'
    <3> SUFFICES ASSUME ~met', edits' = 0  PROVE Sequential'
      OBVIOUS
    <3>1. /\ Sequential /\ TargetFinal /\ OneJournal /\ OneWorks' /\ OnDisk(p)
          /\ \A o \in Publishers : o # p => place[o] = "idle" /\ place'[o] = "idle"
      BY <1>0, <2>b, AloneFacts DEF incidents, Sequential
    <3>2. /\ \A r \in Dirs : ~quar[r].record /\ quar[r].payload = NoDir
          /\ target # NoDir => target \in Dirs \cup UserDirs /\ state[target] = "final"
      BY <1>0, <3>1, JournalFacts DEF Unjournalled, OutputTypeOK
    <3>5. TargetFinal'
      BY <1>0, <1>2, <2>2, <2>b, <3>1, <3>2 DEF TargetFinal, OutputTypeOK, OutputTypes, Paths
    <3>6. OneJournal'
      BY <1>0, <1>2, <2>2, <2>b, <3>1, <3>2 DEF OneJournal, OutputTypeOK, OutputTypes, Paths
    <3>7. place'[p] # "idle" => OnDisk(p)'
      <4>1. CASE place'[p] = "abort"
        BY <1>0, <1>2, <2>2, <2>b, <3>1, <3>2, <4>1 DEF OnDisk, NoJournal, Journalled, Unjournalled,
           Unattended, SetAside, Recoverable, PriorStaged, PriorQuarantined, PriorRemoved, NotExchanged,
           TargetMissing, Published, Sound
      <4> QED  BY <2>b, <4>1, <2>2
    <3>8. place'[p] # "idle"
      BY <2>b
    <3> QED  BY <3>1, <3>2, <3>5, <3>6, <3>7, <3>8 DEF Sequential
  <2> QED  BY <2>4, <2>10
<1> QED  BY <1>1, <1>2 DEF PublishNew

LEMMA VerifyNewStep ==
  ASSUME OutputAssumption, OutputInv, Beside, NEW p \in Publishers,
         VerifyNew(p) \/ (place[p] = "verifyNew" /\ ValidationFails(p))
  PROVE  OutputInv'
<1> DEFINE m == mine[p]
<1> USE DEF OutputBase, OutputInv, Beside
<1>0. /\ place[p] = "verifyNew"
      /\ mine[p] \in Dirs
      /\ \A o \in Publishers : place[o] # "idle" => mine[o] \in Dirs
      /\ \A o \in Publishers \ {p} : place[o] # "idle" => mine[o] # mine[p]
      /\ \A o \in Publishers : place[o] \in Unjournalled => mine[o] \in Dirs /\ quar[mine[o]].ver = 0
      /\ \A o \in Publishers : place[o] = "removing" => journal[o] \in Dirs /\ quar[journal[o]].ver > 0
  BY WorkerFacts DEF VerifyNew, ValidationFails, Journalled
<1>c. \A o \in Publishers : place[o] \in {"commit", "prior", "publish", "journal"} =>
        /\ mine[o] \in Dirs /\ staging[mine[o]] = mine[o] /\ target # mine[o]
        /\ \A r \in Dirs : quar[r].payload # mine[o] /\ (staging[r] = mine[o] => r = mine[o])
  BY BuiltFacts
<1>1. CASE VerifyNew(p) /\ Sound(target, m)
  <2>1. place' = [place EXCEPT ![p] = "idle"] /\ UNCHANGED <<onDisk, mine, prior, unseen, matched, journal, known, doomed, role, incidents>>
    BY <1>0, <1>1 DEF VerifyNew, StandAt, onDisk
  <2>2. "idle" \in {"idle", "abort"} /\ ("idle" = "abort" => role[p] # "recover") /\ place[p] # "idle"
    BY <1>0 DEF OutputTypeOK, OutputTypes, OutputRoles, Recovering, Committing
  <2>3. strikes' \in 0..MaxStrikes /\ edits' = edits /\ deep' \in BOOLEAN
    BY <2>1 DEF OutputTypeOK, OutputTypes, incidents
  <2>4. OutputBase' /\ (exchanging => Exchanged')
    BY <2>1, <2>2, <2>3, GiveUp DEF onDisk
  <2>b. /\ place' \in [Publishers -> OutputPlaces] /\ place'[p] = "idle" /\ \A b \in Publishers : b # p => place'[b] = place[b]
        /\ UNCHANGED <<target, staging, quar, state, mine, prior, unseen, matched, journal, known, doomed, role, incidents>>
    BY <2>1, <2>2 DEF OutputTypeOK, OutputTypes, OutputPlaces, onDisk
  <2>10. ~met' /\ edits' = 0 => Sequential'
    <3> SUFFICES ASSUME ~met', edits' = 0  PROVE Sequential'
      OBVIOUS
    <3>1. /\ Sequential /\ TargetFinal /\ OneJournal /\ OneWorks' /\ OnDisk(p)
          /\ \A o \in Publishers : o # p => place[o] = "idle" /\ place'[o] = "idle"
      BY <1>0, <2>b, AloneFacts DEF incidents, Sequential
    <3>2. /\ \A r \in Dirs : ~quar[r].record /\ quar[r].payload = NoDir
          /\ target # NoDir => target \in Dirs \cup UserDirs /\ state[target] = "final"
      BY <1>0, <3>1, JournalFacts DEF Unjournalled, OutputTypeOK
    <3>5. TargetFinal'
      BY <1>0, <1>1, <2>2, <2>b, <3>1, <3>2 DEF TargetFinal, OutputTypeOK, OutputTypes, Paths
    <3>6. OneJournal'
      BY <1>0, <1>1, <2>2, <2>b, <3>1, <3>2 DEF OneJournal, OutputTypeOK, OutputTypes, Paths
    <3>7. place'[p] # "idle" => OnDisk(p)'
      <4> QED  BY <2>b, <2>2
    <3>8. place'[p] = "idle" => \A q \in Dirs : quar'[q].record => Unattended(q)'
      BY <1>0, <1>1, <2>2, <2>b, <3>1, <3>2 DEF OnDisk, NoJournal, Journalled, Unjournalled, Sound,
         Published, PriorStaged, PriorQuarantined, PriorRemoved, NotExchanged, TargetMissing, Recoverable,
         SetAside, Away, Shelved, Tearing, Undoing, Undone, Unattended, Completing, Reverting, incidents
    <3> QED  BY <3>1, <3>2, <3>5, <3>6, <3>7, <3>8 DEF Sequential
  <2> QED  BY <2>4, <2>10
<1>2. CASE TakenBack(m) /\ (ValidationFails(p) \/ (VerifyNew(p) /\ ~Sound(target, m)))
  <2>d. /\ role[p] = "commit"
    BY <1>0 DEF OutputTypeOK, OutputTypes, OutputRoles, Recovering
  <2>1. /\ target' \in Paths
        /\ target' = NoDir
        /\ staging' \in [Dirs -> Paths] /\ staging'[m] = m /\ \A b \in Dirs : b # m => staging'[b] = staging[b]
        /\ target = m
        /\ staging[m] = NoDir
        /\ UNCHANGED <<quar, state>>
    <3>1. /\ target' \in Paths
      BY <1>0, <1>2, <2>d DEF VerifyNew, ValidationFails, TakenBack, StandAt, OutputTypeOK, OutputTypes, onDisk, States, Paths
    <3>2. /\ staging' \in [Dirs -> Paths] /\ staging'[m] = m /\ \A b \in Dirs : b # m => staging'[b] = staging[b]
      BY <1>0, <1>2, <2>d DEF VerifyNew, ValidationFails, TakenBack, StandAt, OutputTypeOK, OutputTypes, onDisk, States, Paths
    <3>3. /\ target' = NoDir
          /\ target = m
          /\ staging[m] = NoDir
          /\ UNCHANGED <<quar, state>>
      BY <1>0, <1>2, <2>d DEF VerifyNew, ValidationFails, TakenBack, StandAt, OutputTypeOK, OutputTypes, onDisk, States, Paths
    <3> QED  BY <3>1, <3>2, <3>3
  <2>b. /\ place' \in [Publishers -> OutputPlaces] /\ place'[p] = "abort" /\ \A b \in Publishers : b # p => place'[b] = place[b]
        /\ UNCHANGED <<mine, prior, unseen, matched, journal, known, doomed, role>> /\ strikes' \in 0..MaxStrikes /\ edits' = edits /\ deep' = deep
    <3>1. /\ place' \in [Publishers -> OutputPlaces] /\ place'[p] = "abort" /\ \A b \in Publishers : b # p => place'[b] = place[b]
      BY <1>0, <1>2, <2>d DEF VerifyNew, ValidationFails, TakenBack, StandAt, OutputTypeOK, OutputTypes, Paths, Beside, OutputPlaces
    <3>2. /\ UNCHANGED <<mine, prior, unseen, matched, journal, known, doomed, role>> /\ strikes' \in 0..MaxStrikes /\ edits' = edits /\ deep' = deep
      BY <1>0, <1>2, <2>d DEF VerifyNew, ValidationFails, TakenBack, OutputTypeOK, OutputTypes, OutputAssumption, incidents
    <3> QED  BY <3>1, <3>2
  <2>e. \A r \in Dirs : quar[r].ver > 0 => quar'[r].ver > 0 /\ quar'[r].prior = quar[r].prior
    BY <1>0, <1>2, <2>1, <2>d, <2>b DEF OutputTypeOK, OutputTypes
  <2>2. OutputTypes'
    BY <1>0, <1>2, <2>1, <2>d, <2>b DEF OutputTypeOK, OutputTypes, OutputPlaces, States, Paths, Quarantine,
       incidents, Beside
  <2>3. OnePlace'
    BY <1>0, <1>2, <2>1, <2>d DEF OutputTypeOK, OutputTypes, OnePlace
  <2>3a. OnePayload'
    BY <1>0, <1>2, <2>1, <2>d DEF OutputTypeOK, OutputTypes, OnePlace, OnePayload
  <2>4. Blank'
    BY <1>0, <1>2, <2>1, <2>d DEF OutputTypeOK, OutputTypes, Blank, Unbuilt, OutputAssumption
  <2>4a. Owners'
    BY <1>0, <1>2, <2>1, <2>d, <2>b DEF OutputTypeOK, OutputTypes, Owners
  <2>5. OutputRoles'
    BY <1>0, <2>b, <2>d DEF OutputTypeOK, OutputTypes, OutputRoles, Recovering, Committing, Swapping, Beside
  <2>6. MadeOnce'
    BY <1>0, <1>2, <2>1, <2>d, <2>b DEF OutputTypeOK, OutputTypes, MadeOnce
  <2>6a. Unmade'
    BY <1>0, <1>2, <2>1, <2>d, <2>b DEF OutputTypeOK, OutputTypes, Unmade, Unjournalled
  <2>7. Seen'
    BY <1>0, <2>b, <2>d, <2>e DEF OutputTypeOK, OutputTypes, Seen, Journalled
  <2>7a. Written'
    BY <1>0, <2>b, <2>d, <2>e DEF OutputTypeOK, OutputTypes, Written, Journalled, Seen
  <2>8. Built'
    BY <1>0, <1>2, <2>1, <2>d, <2>b, <1>c DEF OutputTypeOK, OutputTypes, Built, Unjournalled
  <2>9. exchanging => Exchanged'
    <3> SUFFICES ASSUME exchanging, Exchanged  PROVE Exchanged'
      OBVIOUS
    <3>1. TargetComplete'
      BY <1>0, <1>2, <2>1, <2>d, <2>b DEF OutputTypeOK, OutputTypes, Exchanged, TargetComplete, ReadyBack,
         OnePlace, Paths, OutputAssumption
    <3>2. ReadyBack'
      BY <1>0, <1>2, <2>1, <2>d, <2>b DEF OutputTypeOK, OutputTypes, Exchanged, ReadyBack, OnePlace,
         TargetComplete, MadeOnce, Sound, Unjournalled, Paths, OutputAssumption
    <3>3. NoneRenames'
      BY <1>0, <1>2, <2>1, <2>d, <2>b DEF OutputTypeOK, OutputTypes, Exchanged, NoneRenames, Renaming
    <3>4. SwapsBuilt'
      BY <1>0, <1>2, <2>1, <2>d, <2>b DEF OutputTypeOK, OutputTypes, Exchanged, SwapsBuilt, ReadyBack,
         Paths, OutputAssumption
    <3>5. AwayFirst'
      BY <1>0, <1>2, <2>1, <2>d, <2>b DEF OutputTypeOK, OutputTypes, Exchanged, AwayFirst, Unjournalled,
         Paths, OutputAssumption
    <3>6. UsersOwn'
      BY <1>0, <1>2, <2>1, <2>d, <2>b DEF Exchanged, UsersOwn, OutputAssumption
    <3> QED  BY <3>1, <3>2, <3>3, <3>4, <3>5, <3>6 DEF Exchanged
  <2>10. ~met' /\ edits' = 0 => Sequential'
    <3> SUFFICES ASSUME ~met', edits' = 0  PROVE Sequential'
      OBVIOUS
    <3>1. /\ Sequential /\ TargetFinal /\ OneJournal /\ OneWorks' /\ OnDisk(p)
          /\ \A o \in Publishers : o # p => place[o] = "idle" /\ place'[o] = "idle"
      BY <1>0, <2>b, AloneFacts DEF incidents, Sequential
    <3>2. /\ \A r \in Dirs : ~quar[r].record /\ quar[r].payload = NoDir
          /\ target # NoDir => target \in Dirs \cup UserDirs /\ state[target] = "final"
      BY <1>0, <3>1, JournalFacts DEF Unjournalled, OutputTypeOK
    <3>5. TargetFinal'
      BY <1>0, <1>2, <2>1, <2>d, <2>b, <3>1, <3>2 DEF TargetFinal, OutputTypeOK, OutputTypes, Paths
    <3>6. OneJournal'
      BY <1>0, <1>2, <2>1, <2>d, <2>b, <3>1, <3>2 DEF OneJournal, OutputTypeOK, OutputTypes, Paths
    <3>7. place'[p] # "idle" => OnDisk(p)'
      <4>1. CASE place'[p] = "abort"
        BY <1>0, <1>2, <2>1, <2>d, <2>b, <3>1, <3>2, <4>1 DEF OnDisk, NoJournal, Journalled, Unjournalled,
           Unattended, SetAside, Recoverable, PriorStaged, PriorQuarantined, PriorRemoved, NotExchanged,
           TargetMissing, Published, Sound
      <4> QED  BY <2>b, <4>1
    <3>8. place'[p] # "idle"
      BY <2>b
    <3> QED  BY <3>1, <3>2, <3>5, <3>6, <3>7, <3>8 DEF Sequential
  <2> QED  BY <2>2, <2>3, <2>3a, <2>4, <2>4a, <2>5, <2>6, <2>6a, <2>7, <2>7a, <2>8, <2>9, <2>10 DEF
              OutputTypeOK
<1>3. CASE VerifyNew(p) /\ ~Sound(target, m) /\ (target # m \/ staging[m] # NoDir)
  <2>1. place' = [place EXCEPT ![p] = "abort"] /\ UNCHANGED <<onDisk, mine, prior, unseen, matched, journal, known, doomed, role, incidents>>
    BY <1>0, <1>3 DEF VerifyNew, TakenBack, StandAt, onDisk
  <2>2. "abort" \in {"idle", "abort"} /\ ("abort" = "abort" => role[p] # "recover") /\ place[p] # "idle"
    BY <1>0 DEF OutputTypeOK, OutputTypes, OutputRoles, Recovering, Committing
  <2>3. strikes' \in 0..MaxStrikes /\ edits' = edits /\ deep' \in BOOLEAN
    BY <2>1 DEF OutputTypeOK, OutputTypes, incidents
  <2>4. OutputBase' /\ (exchanging => Exchanged')
    BY <2>1, <2>2, <2>3, GiveUp DEF onDisk
  <2>b. /\ place' \in [Publishers -> OutputPlaces] /\ place'[p] = "abort" /\ \A b \in Publishers : b # p => place'[b] = place[b]
        /\ UNCHANGED <<target, staging, quar, state, mine, prior, unseen, matched, journal, known, doomed, role, incidents>>
    BY <2>1, <2>2 DEF OutputTypeOK, OutputTypes, OutputPlaces, onDisk
  <2>10. ~met' /\ edits' = 0 => Sequential'
    <3> SUFFICES ASSUME ~met', edits' = 0  PROVE Sequential'
      OBVIOUS
    <3>1. /\ Sequential /\ TargetFinal /\ OneJournal /\ OneWorks' /\ OnDisk(p)
          /\ \A o \in Publishers : o # p => place[o] = "idle" /\ place'[o] = "idle"
      BY <1>0, <2>b, AloneFacts DEF incidents, Sequential
    <3>2. /\ \A r \in Dirs : ~quar[r].record /\ quar[r].payload = NoDir
          /\ target # NoDir => target \in Dirs \cup UserDirs /\ state[target] = "final"
      BY <1>0, <3>1, JournalFacts DEF Unjournalled, OutputTypeOK
    <3>5. TargetFinal'
      BY <1>0, <1>3, <2>2, <2>b, <3>1, <3>2 DEF TargetFinal, OutputTypeOK, OutputTypes, Paths
    <3>6. OneJournal'
      BY <1>0, <1>3, <2>2, <2>b, <3>1, <3>2 DEF OneJournal, OutputTypeOK, OutputTypes, Paths
    <3>7. place'[p] # "idle" => OnDisk(p)'
      <4>1. CASE place'[p] = "abort"
        BY <1>0, <1>3, <2>2, <2>b, <3>1, <3>2, <4>1 DEF OnDisk, NoJournal, Journalled, Unjournalled,
           Unattended, SetAside, Recoverable, PriorStaged, PriorQuarantined, PriorRemoved, NotExchanged,
           TargetMissing, Published, Sound
      <4> QED  BY <2>b, <4>1, <2>2
    <3>8. place'[p] # "idle"
      BY <2>b
    <3> QED  BY <3>1, <3>2, <3>5, <3>6, <3>7, <3>8 DEF Sequential
  <2> QED  BY <2>4, <2>10
<1> QED  BY <1>0, <1>1, <1>2, <1>3 DEF VerifyNew, ValidationFails, TakenBack

LEMMA CreateJournalStep ==
  ASSUME OutputAssumption, OutputInv, Beside, NEW p \in Publishers, CreateJournal(p)
  PROVE  OutputInv'
<1> DEFINE m == mine[p]
<1> USE DEF OutputBase, OutputInv, Beside
<1>0. /\ place[p] = "journal"
      /\ mine[p] \in Dirs
      /\ \A o \in Publishers : place[o] # "idle" => mine[o] \in Dirs
      /\ \A o \in Publishers \ {p} : place[o] # "idle" => mine[o] # mine[p]
      /\ \A o \in Publishers : place[o] \in Unjournalled => mine[o] \in Dirs /\ quar[mine[o]].ver = 0
      /\ \A o \in Publishers : place[o] = "removing" => journal[o] \in Dirs /\ quar[journal[o]].ver > 0
  BY WorkerFacts DEF CreateJournal, Journalled
<1>c. \A o \in Publishers : place[o] \in {"commit", "prior", "publish", "journal"} =>
        /\ mine[o] \in Dirs /\ staging[mine[o]] = mine[o] /\ target # mine[o]
        /\ \A r \in Dirs : quar[r].payload # mine[o] /\ (staging[r] = mine[o] => r = mine[o])
  BY BuiltFacts
<1>1. CASE target = prior[p] /\ staging[m] # NoDir
  <2>a. JournalMade(m, prior[p])
    BY <1>0, <1>1, MadeFacts DEF CreateJournal, StandAt, OutputTypeOK, OutputTypes, FirstMove, Built,
       Written, Unjournalled, Quarantine, Paths, MadeOnce, OnePlace, OutputAssumption, Paths, Quarantine
  <2>d. /\ role[p] = "commit"
    BY <1>0 DEF OutputTypeOK, OutputTypes, OutputRoles, Recovering
  <2>g. /\ staging[m] = m
        /\ \A r \in Dirs : quar[r].payload # m
        /\ quar[m].payload = NoDir
        /\ state[m] = "final"
        /\ quar[m].ver = 0
    BY <1>0, <2>d, <1>c DEF MadeOnce, Built, Unjournalled
  <2>1. /\ UNCHANGED <<target, staging, state>>
    BY <1>0, <1>1, <2>d DEF CreateJournal, StandAt, OutputTypeOK, OutputTypes, FirstMove, Quarantine, Paths,
       onDisk, States, Paths
  <2>b. /\ place' \in [Publishers -> OutputPlaces] /\ place'[p] = (IF exchanging THEN "exchange" ELSE "quarantine") /\ \A b \in Publishers : b # p => place'[b] = place[b]
        /\ journal' \in [Publishers -> Paths] /\ journal'[p] = m /\ \A b \in Publishers : b # p => journal'[b] = journal[b]
        /\ known' \in [Publishers -> Nat] /\ known'[p] = 1 /\ \A b \in Publishers : b # p => known'[b] = known[b]
        /\ doomed' \in [Publishers -> Paths] /\ doomed'[p] = prior[p] /\ \A b \in Publishers : b # p => doomed'[b] = doomed[b]
        /\ UNCHANGED <<mine, prior, unseen, matched, role, incidents>>
    <3>1. /\ place' \in [Publishers -> OutputPlaces] /\ place'[p] = (IF exchanging THEN "exchange" ELSE "quarantine") /\ \A b \in Publishers : b # p => place'[b] = place[b]
      BY <1>0, <1>1, <2>d DEF CreateJournal, StandAt, OutputTypeOK, OutputTypes, FirstMove, Quarantine,
         Paths, Paths, Beside, OutputPlaces
    <3>2. /\ journal' \in [Publishers -> Paths] /\ journal'[p] = m /\ \A b \in Publishers : b # p => journal'[b] = journal[b]
      BY <1>0, <1>1, <2>d DEF CreateJournal, StandAt, OutputTypeOK, OutputTypes, FirstMove, Quarantine,
         Paths, Paths, Beside
    <3>3. /\ known' \in [Publishers -> Nat] /\ known'[p] = 1 /\ \A b \in Publishers : b # p => known'[b] = known[b]
      BY <1>0, <1>1, <2>d DEF CreateJournal, StandAt, OutputTypeOK, OutputTypes, FirstMove, Quarantine,
         Paths, Paths, Beside
    <3>4. /\ doomed' \in [Publishers -> Paths] /\ doomed'[p] = prior[p] /\ \A b \in Publishers : b # p => doomed'[b] = doomed[b]
      BY <1>0, <1>1, <2>d DEF CreateJournal, StandAt, OutputTypeOK, OutputTypes, FirstMove, Quarantine,
         Paths, Paths, Beside
    <3>5. /\ UNCHANGED <<mine, prior, unseen, matched, role, incidents>>
      BY <1>0, <1>1, <2>d DEF CreateJournal, StandAt, OutputTypeOK, OutputTypes, FirstMove, Quarantine,
         Paths, Paths, Beside
    <3> QED  BY <3>1, <3>2, <3>3, <3>4, <3>5
  <2>e. \A r \in Dirs : quar[r].ver > 0 => quar'[r].ver > 0 /\ quar'[r].prior = quar[r].prior
    BY <1>0, <2>a, <2>g DEF JournalMade
  <2>f. \A r \in Dirs : quar'[r].payload = quar[r].payload
    BY <1>0, <1>1, <2>a, <2>1, <2>d, <2>g, <2>b DEF JournalMade
  <2>2. OutputTypes'
    BY <1>0, <1>1, <2>a, <2>1, <2>d, <2>g, <2>b DEF OutputTypeOK, OutputTypes, JournalMade, OutputPlaces,
       States, Paths, Quarantine, incidents, Beside
  <2>3. OnePlace'
    BY <1>0, <1>1, <2>a, <2>1, <2>d, <2>g, <2>f DEF OutputTypeOK, OutputTypes, JournalMade, OnePlace
  <2>3a. OnePayload'
    BY <1>0, <1>1, <2>a, <2>1, <2>d, <2>g, <2>f DEF OutputTypeOK, OutputTypes, JournalMade, OnePlace,
       OnePayload
  <2>4. Blank'
    BY <1>0, <1>1, <2>a, <2>1, <2>d, <2>g, <2>f DEF OutputTypeOK, OutputTypes, JournalMade, Blank, Unbuilt,
       OutputAssumption
  <2>4a. Owners'
    BY <1>0, <1>1, <2>a, <2>1, <2>d, <2>g, <2>b DEF OutputTypeOK, OutputTypes, JournalMade, Owners
  <2>5. OutputRoles'
    BY <1>0, <2>b, <2>d DEF OutputTypeOK, OutputTypes, OutputRoles, Recovering, Committing, Swapping, Beside
  <2>6. MadeOnce'
    BY <1>0, <1>1, <2>a, <2>1, <2>d, <2>g, <2>b DEF OutputTypeOK, OutputTypes, JournalMade, MadeOnce
  <2>6a. Unmade'
    BY <1>0, <2>a, <2>b, <2>d, <2>g DEF OutputTypeOK, OutputTypes, JournalMade, Unmade, Unjournalled
  <2>7. Seen'
    BY <1>0, <2>b, <2>d, <2>a, <2>e DEF OutputTypeOK, OutputTypes, Seen, Journalled, JournalMade
  <2>7a. Written'
    BY <1>0, <2>b, <2>d, <2>a, <2>e DEF OutputTypeOK, OutputTypes, Written, Journalled, Seen, JournalMade
  <2>8. Built'
    BY <1>0, <1>1, <2>a, <2>1, <2>d, <2>g, <2>b, <1>c DEF OutputTypeOK, OutputTypes, Built, Unjournalled
  <2>9. exchanging => Exchanged'
    <3> SUFFICES ASSUME exchanging, Exchanged  PROVE Exchanged'
      OBVIOUS
    <3>1. TargetComplete'
      BY <1>0, <1>1, <2>a, <2>1, <2>d, <2>g, <2>b DEF OutputTypeOK, OutputTypes, Exchanged, TargetComplete,
         ReadyBack, OnePlace, Paths, OutputAssumption
    <3>2. ReadyBack'
      BY <1>0, <1>1, <2>a, <2>1, <2>d, <2>g, <2>b DEF OutputTypeOK, OutputTypes, JournalMade, Exchanged,
         ReadyBack, OnePlace, Paths, OutputAssumption
    <3>3. NoneRenames'
      BY <1>0, <1>1, <2>a, <2>1, <2>d, <2>g, <2>b DEF OutputTypeOK, OutputTypes, Exchanged, NoneRenames,
         Renaming
    <3>4. SwapsBuilt'
      BY <1>0, <1>1, <2>a, <2>1, <2>d, <2>g, <2>b DEF OutputTypeOK, OutputTypes, Exchanged, SwapsBuilt,
         ReadyBack, Paths, OutputAssumption
    <3>5. AwayFirst'
      BY <1>0, <1>1, <2>a, <2>1, <2>d, <2>g, <2>b, <2>f DEF OutputTypeOK, OutputTypes, JournalMade,
         Exchanged, AwayFirst, Paths, OutputAssumption
    <3>6. UsersOwn'
      BY <1>0, <1>1, <2>a, <2>1, <2>d, <2>g, <2>b DEF Exchanged, UsersOwn, OutputAssumption
    <3> QED  BY <3>1, <3>2, <3>3, <3>4, <3>5, <3>6 DEF Exchanged
  <2>10. ~met' /\ edits' = 0 => Sequential'
    <3> SUFFICES ASSUME ~met', edits' = 0  PROVE Sequential'
      OBVIOUS
    <3>1. /\ Sequential /\ TargetFinal /\ OneJournal /\ OneWorks' /\ OnDisk(p)
          /\ \A o \in Publishers : o # p => place[o] = "idle" /\ place'[o] = "idle"
      BY <1>0, <2>b, AloneFacts DEF incidents, Sequential
    <3>2. /\ \A r \in Dirs : ~quar[r].record /\ quar[r].payload = NoDir
          /\ target # NoDir => target \in Dirs \cup UserDirs /\ state[target] = "final"
      BY <1>0, <3>1, JournalFacts DEF Unjournalled, OutputTypeOK
    <3>3. /\ prior[p] # NoDir
      BY <1>0, <1>1, <2>a, <2>1, <2>d, <2>g, <2>b, <3>1, <3>2 DEF OnDisk, Written
    <3>5. TargetFinal'
      BY <1>0, <1>1, <2>a, <2>1, <2>d, <2>g, <2>b, <3>1, <3>2, <3>3 DEF TargetFinal, JournalMade,
         OutputTypeOK, OutputTypes, Paths
    <3>6. OneJournal'
      <4>1. \A r \in Dirs : r # mine[p] => ~quar'[r].record /\ quar'[r].payload = NoDir
        BY <1>0, <2>a, <2>b, <2>d, <3>1, <3>2, <3>3 DEF JournalMade
      <4>2. /\ quar'[mine[p]].record /\ quar'[mine[p]].root /\ quar'[mine[p]].prior # NoDir /\ quar'[mine[p]].prior # mine[p]
            /\ staging'[mine[p]] \in {NoDir, mine[p], quar'[mine[p]].prior}
            /\ staging'[mine[p]] = mine[p] => state'[mine[p]] = "final"
        BY <1>0, <1>1, <2>a, <2>1, <2>d, <2>g, <2>b, <3>1, <3>2, <3>3 DEF JournalMade, OutputTypeOK,
           OutputTypes, OutputAssumption, OnePlace, Written
      <4> QED  BY <1>0, <4>1, <4>2, OnlyJournal
    <3>7. place'[p] # "idle" => OnDisk(p)'
      <4>1. CASE place'[p] = "exchange"
        <5>1. /\ mine[p] # NoDir
              /\ journal'[p] = mine[p]
              /\ quar'[mine[p]].record
              /\ known'[p] = quar'[mine[p]].ver
              /\ quar'[mine[p]].prior # NoDir /\ quar'[mine[p]].prior # mine[p]
              /\ target' = quar'[mine[p]].prior
              /\ state'[quar'[mine[p]].prior] = "final"
              /\ staging'[mine[p]] = mine[p]
              /\ state'[mine[p]] = "final"
              /\ quar'[mine[p]].payload = NoDir
          BY <1>0, <1>1, <2>a, <2>1, <2>d, <2>g, <2>b, <3>1, <3>2, <3>3, <4>1, <1>c DEF JournalMade,
             OutputAssumption
        <5> QED  BY <1>0, <4>1, <5>1, AtSwap
      <4>2. CASE place'[p] = "quarantine"
        <5>1. /\ mine[p] # NoDir
              /\ journal'[p] = mine[p]
              /\ quar'[mine[p]].record
              /\ known'[p] = quar'[mine[p]].ver
              /\ quar'[mine[p]].prior # NoDir /\ quar'[mine[p]].prior # mine[p]
              /\ target' = quar'[mine[p]].prior
              /\ state'[quar'[mine[p]].prior] = "final"
              /\ staging'[mine[p]] = mine[p]
              /\ state'[mine[p]] = "final"
              /\ quar'[mine[p]].payload = NoDir
          BY <1>0, <1>1, <2>a, <2>1, <2>d, <2>g, <2>b, <3>1, <3>2, <3>3, <4>2, <1>c DEF JournalMade,
             OutputAssumption
        <5> QED  BY <1>0, <4>2, <5>1, AtSwap
      <4> QED  BY <2>b, <4>1, <4>2
    <3>8. place'[p] # "idle"
      BY <2>b
    <3> QED  BY <3>1, <3>2, <3>3, <3>5, <3>6, <3>7, <3>8 DEF Sequential
  <2> QED  BY <2>2, <2>3, <2>3a, <2>4, <2>4a, <2>5, <2>6, <2>6a, <2>7, <2>7a, <2>8, <2>9, <2>10 DEF
              OutputTypeOK
<1>2. CASE ~(target = prior[p] /\ staging[m] # NoDir)
  <2>d. /\ role[p] = "commit"
    BY <1>0 DEF OutputTypeOK, OutputTypes, OutputRoles, Recovering
  <2>1. /\ UNCHANGED <<target, staging, quar, state>>
        /\ quar[m].ver = 0
    BY <1>0, <1>2, <2>d DEF CreateJournal, StandAt, OutputTypeOK, OutputTypes, Written, Unjournalled,
       onDisk, States, Paths
  <2>b. /\ place' \in [Publishers -> OutputPlaces] /\ place'[p] = "abort" /\ \A b \in Publishers : b # p => place'[b] = place[b]
        /\ journal' \in [Publishers -> Paths] /\ journal'[p] = m /\ \A b \in Publishers : b # p => journal'[b] = journal[b]
        /\ known' \in [Publishers -> Nat] /\ known'[p] = 1 /\ \A b \in Publishers : b # p => known'[b] = known[b]
        /\ doomed' \in [Publishers -> Paths] /\ doomed'[p] = prior[p] /\ \A b \in Publishers : b # p => doomed'[b] = doomed[b]
        /\ UNCHANGED <<mine, prior, unseen, matched, role, incidents>>
    <3>1. /\ place' \in [Publishers -> OutputPlaces] /\ place'[p] = "abort" /\ \A b \in Publishers : b # p => place'[b] = place[b]
      BY <1>0, <1>2, <2>d DEF CreateJournal, StandAt, OutputTypeOK, OutputTypes, Written, Unjournalled,
         Paths, Beside, OutputPlaces
    <3>2. /\ journal' \in [Publishers -> Paths] /\ journal'[p] = m /\ \A b \in Publishers : b # p => journal'[b] = journal[b]
      BY <1>0, <1>2, <2>d DEF CreateJournal, StandAt, OutputTypeOK, OutputTypes, Written, Unjournalled,
         Paths, Beside
    <3>3. /\ known' \in [Publishers -> Nat] /\ known'[p] = 1 /\ \A b \in Publishers : b # p => known'[b] = known[b]
      BY <1>0, <1>2, <2>d DEF CreateJournal, StandAt, OutputTypeOK, OutputTypes, Written, Unjournalled,
         Paths, Beside
    <3>4. /\ doomed' \in [Publishers -> Paths] /\ doomed'[p] = prior[p] /\ \A b \in Publishers : b # p => doomed'[b] = doomed[b]
      BY <1>0, <1>2, <2>d DEF CreateJournal, StandAt, OutputTypeOK, OutputTypes, Written, Unjournalled,
         Paths, Beside
    <3>5. /\ UNCHANGED <<mine, prior, unseen, matched, role, incidents>>
      BY <1>0, <1>2, <2>d DEF CreateJournal, StandAt, OutputTypeOK, OutputTypes, Written, Unjournalled,
         Paths, Beside
    <3> QED  BY <3>1, <3>2, <3>3, <3>4, <3>5
  <2>e. \A r \in Dirs : quar[r].ver > 0 => quar'[r].ver > 0 /\ quar'[r].prior = quar[r].prior
    BY <1>0, <1>2, <2>1, <2>d, <2>b DEF OutputTypeOK, OutputTypes
  <2>2. OutputTypes'
    BY <1>0, <1>2, <2>1, <2>d, <2>b DEF OutputTypeOK, OutputTypes, OutputPlaces, States, Paths, Quarantine,
       incidents, Beside
  <2>3. OnePlace'
    BY <1>0, <1>2, <2>1, <2>d DEF OutputTypeOK, OutputTypes, OnePlace
  <2>3a. OnePayload'
    BY <1>0, <1>2, <2>1, <2>d DEF OutputTypeOK, OutputTypes, OnePlace, OnePayload
  <2>4. Blank'
    BY <1>0, <1>2, <2>1, <2>d DEF OutputTypeOK, OutputTypes, Blank, Unbuilt, OutputAssumption
  <2>4a. Owners'
    BY <1>0, <1>2, <2>1, <2>d, <2>b DEF OutputTypeOK, OutputTypes, Owners
  <2>5. OutputRoles'
    BY <1>0, <2>b, <2>d DEF OutputTypeOK, OutputTypes, OutputRoles, Recovering, Committing, Swapping, Beside
  <2>6. MadeOnce'
    BY <1>0, <1>2, <2>1, <2>d, <2>b DEF OutputTypeOK, OutputTypes, MadeOnce
  <2>6a. Unmade'
    BY <1>0, <1>2, <2>1, <2>d, <2>b DEF OutputTypeOK, OutputTypes, Unmade, Unjournalled
  <2>7. Seen'
    <3>1. \A o \in Publishers : place'[o] \in Journalled => o # p /\ place[o] = place'[o]
      BY <2>b DEF Journalled
    <3>2. \A o \in Publishers : place'[o] # "idle" => place[o] # "idle" /\ unseen[o] \subseteq Dirs
      BY <1>0, <2>b DEF OutputTypeOK, OutputTypes
    <3> QED  BY <2>b, <2>e, <3>1, <3>2 DEF Seen
  <2>7a. Written'
    BY <1>0, <2>b, <2>d, <2>e DEF OutputTypeOK, OutputTypes, Written, Journalled, Seen
  <2>8. Built'
    BY <1>0, <1>2, <2>1, <2>d, <2>b, <1>c DEF OutputTypeOK, OutputTypes, Built, Unjournalled
  <2>9. exchanging => Exchanged'
    <3> SUFFICES ASSUME exchanging, Exchanged  PROVE Exchanged'
      OBVIOUS
    <3>1. TargetComplete'
      BY <1>0, <1>2, <2>1, <2>d, <2>b DEF OutputTypeOK, OutputTypes, Exchanged, TargetComplete, ReadyBack,
         OnePlace, Paths, OutputAssumption
    <3>2. ReadyBack'
      BY <1>0, <1>2, <2>1, <2>d, <2>b DEF OutputTypeOK, OutputTypes, Exchanged, ReadyBack, OnePlace, Paths,
         OutputAssumption
    <3>3. NoneRenames'
      BY <1>0, <1>2, <2>1, <2>d, <2>b DEF OutputTypeOK, OutputTypes, Exchanged, NoneRenames, Renaming
    <3>4. SwapsBuilt'
      BY <1>0, <1>2, <2>1, <2>d, <2>b DEF OutputTypeOK, OutputTypes, Exchanged, SwapsBuilt, ReadyBack,
         Paths, OutputAssumption
    <3>5. AwayFirst'
      BY <1>0, <1>2, <2>1, <2>d, <2>b DEF OutputTypeOK, OutputTypes, Exchanged, AwayFirst, Paths,
         OutputAssumption
    <3>6. UsersOwn'
      BY <1>0, <1>2, <2>1, <2>d, <2>b DEF Exchanged, UsersOwn, OutputAssumption
    <3> QED  BY <3>1, <3>2, <3>3, <3>4, <3>5, <3>6 DEF Exchanged
  <2>10. ~met' /\ edits' = 0 => Sequential'
    <3> SUFFICES ASSUME ~met', edits' = 0  PROVE Sequential'
      OBVIOUS
    <3>1. /\ Sequential /\ TargetFinal /\ OneJournal /\ OneWorks' /\ OnDisk(p)
          /\ \A o \in Publishers : o # p => place[o] = "idle" /\ place'[o] = "idle"
      BY <1>0, <2>b, AloneFacts DEF incidents, Sequential
    <3>2. /\ \A r \in Dirs : ~quar[r].record /\ quar[r].payload = NoDir
          /\ target # NoDir => target \in Dirs \cup UserDirs /\ state[target] = "final"
      BY <1>0, <3>1, JournalFacts DEF Unjournalled, OutputTypeOK
    <3>3. /\ prior[p] # NoDir
      BY <1>0, <1>2, <2>1, <2>d, <2>b, <3>1, <3>2 DEF OnDisk, Written
    <3>5. TargetFinal'
      BY <1>0, <1>2, <2>1, <2>d, <2>b, <3>1, <3>2, <3>3 DEF TargetFinal, OutputTypeOK, OutputTypes, Paths
    <3>6. OneJournal'
      BY <1>0, <1>2, <2>1, <2>d, <2>b, <3>1, <3>2, <3>3 DEF OneJournal, OutputTypeOK, OutputTypes, Paths
    <3>7. place'[p] # "idle" => OnDisk(p)'
      <4>1. CASE place'[p] = "abort"
        BY <1>0, <1>2, <2>1, <2>d, <2>b, <3>1, <3>2, <3>3, <4>1 DEF OnDisk, NoJournal, Journalled,
           Unjournalled, Unattended, SetAside, Recoverable, PriorStaged, PriorQuarantined, PriorRemoved,
           NotExchanged, TargetMissing, Published, Sound
      <4> QED  BY <2>b, <4>1
    <3>8. place'[p] # "idle"
      BY <2>b
    <3> QED  BY <3>1, <3>2, <3>3, <3>5, <3>6, <3>7, <3>8 DEF Sequential
  <2> QED  BY <2>2, <2>3, <2>3a, <2>4, <2>4a, <2>5, <2>6, <2>6a, <2>7, <2>7a, <2>8, <2>9, <2>10 DEF
              OutputTypeOK
<1> QED  BY <1>1, <1>2 DEF CreateJournal

LEMMA ExchangePathsStep ==
  ASSUME OutputAssumption, OutputInv, Beside, NEW p \in Publishers, ExchangePaths(p)
  PROVE  OutputInv'
<1> DEFINE m == mine[p]
<1> USE DEF OutputBase, OutputInv, Beside
<1>0. /\ place[p] = "exchange"
      /\ mine[p] \in Dirs
      /\ journal[p] \in Dirs /\ quar[journal[p]].ver > 0
      /\ role[p] # "recover" => journal[p] = mine[p] /\ quar[mine[p]].prior = prior[p] /\ prior[p] # NoDir /\ doomed[p] = prior[p]
      /\ \A o \in Publishers : place[o] # "idle" => mine[o] \in Dirs
      /\ \A o \in Publishers \ {p} : place[o] # "idle" => mine[o] # mine[p]
      /\ \A o \in Publishers : place[o] \in Unjournalled => mine[o] \in Dirs /\ quar[mine[o]].ver = 0
      /\ \A o \in Publishers : place[o] = "removing" => journal[o] \in Dirs /\ quar[journal[o]].ver > 0
  BY WorkerFacts DEF ExchangePaths, Journalled
<1>c. \A o \in Publishers : place[o] \in {"commit", "prior", "publish", "journal"} =>
        /\ mine[o] \in Dirs /\ staging[mine[o]] = mine[o] /\ target # mine[o]
        /\ \A r \in Dirs : quar[r].payload # mine[o] /\ (staging[r] = mine[o] => r = mine[o])
  BY BuiltFacts
<1>1. CASE staging[m] # NoDir /\ target # NoDir
  <2>d. /\ role[p] = "commit"
        /\ journal[p] = m
    BY <1>0 DEF OutputTypeOK, OutputTypes, OutputRoles, Recovering
  <2>1. /\ target' \in Paths
        /\ target' = staging[m]
        /\ staging' \in [Dirs -> Paths] /\ staging'[m] = target /\ \A b \in Dirs : b # m => staging'[b] = staging[b]
        /\ target # NoDir
        /\ staging[m] # NoDir
        /\ UNCHANGED <<quar, state>>
    <3>1. /\ target' \in Paths
      BY <1>0, <1>1, <2>d DEF ExchangePaths, StandAt, OutputTypeOK, OutputTypes, SwapPaths, onDisk, States,
         Paths
    <3>2. /\ staging' \in [Dirs -> Paths] /\ staging'[m] = target /\ \A b \in Dirs : b # m => staging'[b] = staging[b]
      BY <1>0, <1>1, <2>d DEF ExchangePaths, StandAt, OutputTypeOK, OutputTypes, SwapPaths, onDisk, States,
         Paths
    <3>3. /\ target' = staging[m]
          /\ target # NoDir
          /\ staging[m] # NoDir
          /\ UNCHANGED <<quar, state>>
      BY <1>0, <1>1, <2>d DEF ExchangePaths, StandAt, OutputTypeOK, OutputTypes, SwapPaths, onDisk, States,
         Paths
    <3> QED  BY <3>1, <3>2, <3>3
  <2>b. /\ place' \in [Publishers -> OutputPlaces] /\ place'[p] = "verify" /\ \A b \in Publishers : b # p => place'[b] = place[b]
        /\ UNCHANGED <<mine, prior, unseen, matched, journal, known, doomed, role, incidents>>
    <3>1. /\ place' \in [Publishers -> OutputPlaces] /\ place'[p] = "verify" /\ \A b \in Publishers : b # p => place'[b] = place[b]
      BY <1>0, <1>1, <2>d DEF ExchangePaths, StandAt, OutputTypeOK, OutputTypes, SwapPaths, Paths, Beside,
         OutputPlaces
    <3>2. /\ UNCHANGED <<mine, prior, unseen, matched, journal, known, doomed, role, incidents>>
      BY <1>0, <1>1, <2>d DEF ExchangePaths, StandAt, OutputTypeOK, OutputTypes, SwapPaths, Paths, Beside
    <3> QED  BY <3>1, <3>2
  <2>e. \A r \in Dirs : quar[r].ver > 0 => quar'[r].ver > 0 /\ quar'[r].prior = quar[r].prior
    BY <1>0, <1>1, <2>1, <2>d, <2>b DEF OutputTypeOK, OutputTypes
  <2>2. OutputTypes'
    BY <1>0, <1>1, <2>1, <2>d, <2>b DEF OutputTypeOK, OutputTypes, OutputPlaces, States, Paths, Quarantine,
       incidents, Beside
  <2>3. OnePlace'
    BY <1>0, <1>1, <2>1, <2>d DEF OutputTypeOK, OutputTypes, OnePlace
  <2>3a. OnePayload'
    BY <1>0, <1>1, <2>1, <2>d DEF OutputTypeOK, OutputTypes, OnePlace, OnePayload
  <2>4. Blank'
    BY <1>0, <1>1, <2>1, <2>d DEF OutputTypeOK, OutputTypes, Blank, Unbuilt, OutputAssumption
  <2>4a. Owners'
    BY <1>0, <1>1, <2>1, <2>d, <2>b DEF OutputTypeOK, OutputTypes, Owners
  <2>5. OutputRoles'
    BY <1>0, <2>b, <2>d DEF OutputTypeOK, OutputTypes, OutputRoles, Recovering, Committing, Swapping, Beside
  <2>6. MadeOnce'
    BY <1>0, <1>1, <2>1, <2>d, <2>b DEF OutputTypeOK, OutputTypes, MadeOnce
  <2>6a. Unmade'
    BY <1>0, <1>1, <2>1, <2>d, <2>b DEF OutputTypeOK, OutputTypes, Unmade, Unjournalled
  <2>7. Seen'
    BY <1>0, <2>b, <2>d, <2>e DEF OutputTypeOK, OutputTypes, Seen, Journalled
  <2>7a. Written'
    BY <1>0, <2>b, <2>d, <2>e DEF OutputTypeOK, OutputTypes, Written, Journalled, Seen
  <2>8. Built'
    BY <1>0, <1>1, <2>1, <2>d, <2>b, <1>c DEF OutputTypeOK, OutputTypes, Built, Unjournalled
  <2>9. exchanging => Exchanged'
    <3> SUFFICES ASSUME exchanging, Exchanged  PROVE Exchanged'
      OBVIOUS
    <3>1. TargetComplete'
      BY <1>0, <1>1, <2>1, <2>d, <2>b DEF OutputTypeOK, OutputTypes, Exchanged, TargetComplete, ReadyBack,
         OnePlace, SwapsBuilt, Paths, OutputAssumption
    <3>2. ReadyBack'
      BY <1>0, <1>1, <2>1, <2>d, <2>b DEF OutputTypeOK, OutputTypes, Exchanged, ReadyBack, OnePlace,
         TargetComplete, Paths, OutputAssumption
    <3>3. NoneRenames'
      BY <1>0, <1>1, <2>1, <2>d, <2>b DEF OutputTypeOK, OutputTypes, Exchanged, NoneRenames, Renaming
    <3>4. SwapsBuilt'
      BY <1>0, <1>1, <2>1, <2>d, <2>b DEF OutputTypeOK, OutputTypes, Exchanged, SwapsBuilt, ReadyBack,
         Paths, OutputAssumption
    <3>5. AwayFirst'
      BY <1>0, <1>1, <2>1, <2>d, <2>b DEF OutputTypeOK, OutputTypes, Exchanged, AwayFirst, Paths,
         OutputAssumption
    <3>6. UsersOwn'
      BY <1>0, <1>1, <2>1, <2>d, <2>b DEF Exchanged, UsersOwn, OutputAssumption
    <3> QED  BY <3>1, <3>2, <3>3, <3>4, <3>5, <3>6 DEF Exchanged
  <2>10. ~met' /\ edits' = 0 => Sequential'
    <3> SUFFICES ASSUME ~met', edits' = 0  PROVE Sequential'
      OBVIOUS
    <3>1. /\ Sequential /\ TargetFinal /\ OneJournal /\ OneWorks' /\ OnDisk(p)
          /\ \A o \in Publishers : o # p => place[o] = "idle" /\ place'[o] = "idle"
      BY <1>0, <2>b, AloneFacts DEF incidents, Sequential
    <3>2. /\ quar[journal[p]].record /\ quar[journal[p]].root /\ known[p] = quar[journal[p]].ver
          /\ quar[journal[p]].prior # journal[p] /\ quar[journal[p]].prior # NoDir /\ quar[journal[p]].prior \in Dirs \cup UserDirs
          /\ staging[journal[p]] \in {NoDir, journal[p], quar[journal[p]].prior}
          /\ staging[journal[p]] = journal[p] => state[journal[p]] = "final"
          /\ target # NoDir => target # staging[journal[p]] /\ target # quar[journal[p]].payload
          /\ staging[journal[p]] # NoDir => staging[journal[p]] # quar[journal[p]].payload
          /\ \A r \in Dirs : r # journal[p] => ~quar[r].record /\ quar[r].payload = NoDir
          /\ target # NoDir => target \in Dirs \cup UserDirs /\ state[target] = "final"
      BY <1>0, <3>1, JournalFacts DEF Journalled, OutputTypeOK
    <3>3. /\ target = quar[journal[p]].prior
          /\ state[quar[journal[p]].prior] = "final"
          /\ staging[journal[p]] = journal[p]
          /\ state[journal[p]] = "final"
          /\ quar[journal[p]].payload = NoDir
      BY <1>0, <1>1, <2>1, <2>d, <2>b, <3>1, <3>2 DEF OnDisk, NotExchanged, Sound
    <3>5. TargetFinal'
      BY <1>0, <1>1, <2>1, <2>d, <2>b, <3>1, <3>2, <3>3 DEF TargetFinal, OutputTypeOK, OutputTypes, Paths
    <3>6. OneJournal'
      <4>1. \A r \in Dirs : r # journal[p] => ~quar'[r].record /\ quar'[r].payload = NoDir
        BY <1>0, <1>1, <2>1, <2>d, <2>b, <3>1, <3>2, <3>3
      <4>2. /\ quar'[journal[p]].record /\ quar'[journal[p]].root /\ quar'[journal[p]].prior # NoDir /\ quar'[journal[p]].prior # journal[p]
            /\ staging'[journal[p]] \in {NoDir, journal[p], quar'[journal[p]].prior}
            /\ staging'[journal[p]] = journal[p] => state'[journal[p]] = "final"
        BY <1>0, <1>1, <2>1, <2>d, <2>b, <3>1, <3>2, <3>3 DEF OutputTypeOK, OutputTypes, OutputAssumption
      <4> QED  BY <1>0, <4>1, <4>2, OnlyJournal
    <3>7. place'[p] # "idle" => OnDisk(p)'
      <4>1. CASE place'[p] = "verify"
        <5>1. /\ journal[p] # NoDir
              /\ journal'[p] = journal[p]
              /\ quar'[journal[p]].record
              /\ known'[p] = quar'[journal[p]].ver
              /\ quar'[journal[p]].prior # NoDir /\ quar'[journal[p]].prior # journal[p]
              /\ target' = journal[p]
              /\ state'[journal[p]] = "final"
              /\ quar'[journal[p]].payload = NoDir
              /\ staging'[journal[p]] = quar'[journal[p]].prior
              /\ state'[quar'[journal[p]].prior] = "final"
          BY <1>0, <1>1, <2>1, <2>d, <2>b, <3>1, <3>2, <3>3, <4>1 DEF OutputAssumption
        <5> QED  BY <1>0, <4>1, <5>1, AtSwapped
      <4> QED  BY <2>b, <4>1
    <3>8. place'[p] # "idle"
      BY <2>b
    <3> QED  BY <3>1, <3>2, <3>3, <3>5, <3>6, <3>7, <3>8 DEF Sequential
  <2> QED  BY <2>2, <2>3, <2>3a, <2>4, <2>4a, <2>5, <2>6, <2>6a, <2>7, <2>7a, <2>8, <2>9, <2>10 DEF
              OutputTypeOK
<1>2. CASE ~(staging[m] # NoDir /\ target # NoDir)
  <2>d. /\ role[p] = "commit"
        /\ journal[p] = m
    BY <1>0 DEF OutputTypeOK, OutputTypes, OutputRoles, Recovering
  <2>1. /\ UNCHANGED <<target, staging, quar, state>>
    BY <1>0, <1>2, <2>d DEF ExchangePaths, StandAt, Withdraw, onDisk, States, Paths
  <2>b. /\ place' \in [Publishers -> OutputPlaces] /\ place'[p] = "unlist" /\ \A b \in Publishers : b # p => place'[b] = place[b]
        /\ role' \in [Publishers -> {"recover", "commit", "withdraw"}] /\ role'[p] = "withdraw" /\ \A b \in Publishers : b # p => role'[b] = role[b]
        /\ UNCHANGED <<mine, prior, unseen, matched, journal, known, doomed, incidents>>
    <3>1. /\ place' \in [Publishers -> OutputPlaces] /\ place'[p] = "unlist" /\ \A b \in Publishers : b # p => place'[b] = place[b]
      BY <1>0, <1>2, <2>d DEF ExchangePaths, StandAt, OutputTypeOK, OutputTypes, Withdraw, Paths, Beside,
         OutputPlaces
    <3>2. /\ role' \in [Publishers -> {"recover", "commit", "withdraw"}] /\ role'[p] = "withdraw" /\ \A b \in Publishers : b # p => role'[b] = role[b]
      BY <1>0, <1>2, <2>d DEF ExchangePaths, StandAt, OutputTypeOK, OutputTypes, Withdraw, Paths, Beside
    <3>3. /\ UNCHANGED <<mine, prior, unseen, matched, journal, known, doomed, incidents>>
      BY <1>0, <1>2, <2>d DEF ExchangePaths, StandAt, OutputTypeOK, OutputTypes, Withdraw, Paths, Beside
    <3> QED  BY <3>1, <3>2, <3>3
  <2>e. \A r \in Dirs : quar[r].ver > 0 => quar'[r].ver > 0 /\ quar'[r].prior = quar[r].prior
    BY <1>0, <1>2, <2>1, <2>d, <2>b DEF OutputTypeOK, OutputTypes
  <2>2. OutputTypes'
    BY <1>0, <1>2, <2>1, <2>d, <2>b DEF OutputTypeOK, OutputTypes, OutputPlaces, States, Paths, Quarantine,
       incidents, Beside
  <2>3. OnePlace'
    BY <1>0, <1>2, <2>1, <2>d DEF OutputTypeOK, OutputTypes, OnePlace
  <2>3a. OnePayload'
    BY <1>0, <1>2, <2>1, <2>d DEF OutputTypeOK, OutputTypes, OnePlace, OnePayload
  <2>4. Blank'
    BY <1>0, <1>2, <2>1, <2>d DEF OutputTypeOK, OutputTypes, Blank, Unbuilt, OutputAssumption
  <2>4a. Owners'
    BY <1>0, <1>2, <2>1, <2>d, <2>b DEF OutputTypeOK, OutputTypes, Owners
  <2>5. OutputRoles'
    BY <1>0, <2>b, <2>d DEF OutputTypeOK, OutputTypes, OutputRoles, Recovering, Committing, Swapping, Beside
  <2>6. MadeOnce'
    BY <1>0, <1>2, <2>1, <2>d, <2>b DEF OutputTypeOK, OutputTypes, MadeOnce
  <2>6a. Unmade'
    BY <1>0, <1>2, <2>1, <2>d, <2>b DEF OutputTypeOK, OutputTypes, Unmade, Unjournalled
  <2>7. Seen'
    BY <1>0, <2>b, <2>d, <2>e DEF OutputTypeOK, OutputTypes, Seen, Journalled
  <2>7a. Written'
    BY <1>0, <2>b, <2>d, <2>e DEF OutputTypeOK, OutputTypes, Written, Journalled, Seen
  <2>8. Built'
    BY <1>0, <1>2, <2>1, <2>d, <2>b, <1>c DEF OutputTypeOK, OutputTypes, Built, Unjournalled
  <2>9. exchanging => Exchanged'
    <3> SUFFICES ASSUME exchanging, Exchanged  PROVE Exchanged'
      OBVIOUS
    <3>1. TargetComplete'
      BY <1>0, <1>2, <2>1, <2>d, <2>b DEF OutputTypeOK, OutputTypes, Exchanged, TargetComplete, ReadyBack,
         OnePlace, SwapsBuilt, Paths, OutputAssumption
    <3>2. ReadyBack'
      BY <1>0, <1>2, <2>1, <2>d, <2>b DEF OutputTypeOK, OutputTypes, Exchanged, ReadyBack, OnePlace,
         TargetComplete, Paths, OutputAssumption
    <3>3. NoneRenames'
      BY <1>0, <1>2, <2>1, <2>d, <2>b DEF OutputTypeOK, OutputTypes, Exchanged, NoneRenames, Renaming
    <3>4. SwapsBuilt'
      BY <1>0, <1>2, <2>1, <2>d, <2>b DEF OutputTypeOK, OutputTypes, Exchanged, SwapsBuilt, ReadyBack,
         Paths, OutputAssumption
    <3>5. AwayFirst'
      BY <1>0, <1>2, <2>1, <2>d, <2>b DEF OutputTypeOK, OutputTypes, Exchanged, AwayFirst, Paths,
         OutputAssumption
    <3>6. UsersOwn'
      BY <1>0, <1>2, <2>1, <2>d, <2>b DEF Exchanged, UsersOwn, OutputAssumption
    <3> QED  BY <3>1, <3>2, <3>3, <3>4, <3>5, <3>6 DEF Exchanged
  <2>10. ~met' /\ edits' = 0 => Sequential'
    <3> SUFFICES ASSUME ~met', edits' = 0  PROVE Sequential'
      OBVIOUS
    <3>1. /\ Sequential /\ TargetFinal /\ OneJournal /\ OneWorks' /\ OnDisk(p)
          /\ \A o \in Publishers : o # p => place[o] = "idle" /\ place'[o] = "idle"
      BY <1>0, <2>b, AloneFacts DEF incidents, Sequential
    <3>2. /\ quar[journal[p]].record /\ quar[journal[p]].root /\ known[p] = quar[journal[p]].ver
          /\ quar[journal[p]].prior # journal[p] /\ quar[journal[p]].prior # NoDir /\ quar[journal[p]].prior \in Dirs \cup UserDirs
          /\ staging[journal[p]] \in {NoDir, journal[p], quar[journal[p]].prior}
          /\ staging[journal[p]] = journal[p] => state[journal[p]] = "final"
          /\ target # NoDir => target # staging[journal[p]] /\ target # quar[journal[p]].payload
          /\ staging[journal[p]] # NoDir => staging[journal[p]] # quar[journal[p]].payload
          /\ \A r \in Dirs : r # journal[p] => ~quar[r].record /\ quar[r].payload = NoDir
          /\ target # NoDir => target \in Dirs \cup UserDirs /\ state[target] = "final"
      BY <1>0, <3>1, JournalFacts DEF Journalled, OutputTypeOK
    <3>3. /\ target = quar[journal[p]].prior
          /\ state[quar[journal[p]].prior] = "final"
          /\ staging[journal[p]] = journal[p]
          /\ state[journal[p]] = "final"
          /\ quar[journal[p]].payload = NoDir
      BY <1>0, <1>2, <2>1, <2>d, <2>b, <3>1, <3>2 DEF OnDisk, NotExchanged, Sound
    <3> QED  BY <1>0, <1>2, <2>1, <2>d, <2>b, <3>1, <3>2, <3>3 DEF CanQuarantine, OutputAssumption
  <2> QED  BY <2>2, <2>3, <2>3a, <2>4, <2>4a, <2>5, <2>6, <2>6a, <2>7, <2>7a, <2>8, <2>9, <2>10 DEF
              OutputTypeOK
<1> QED  BY <1>1, <1>2 DEF ExchangePaths

LEMMA VerifyExchangeStep ==
  ASSUME OutputAssumption, OutputInv, Beside, NEW p \in Publishers,
         VerifyExchange(p) \/ (place[p] = "verify" /\ ValidationFails(p))
  PROVE  OutputInv'
<1> DEFINE m == mine[p]
<1> USE DEF OutputBase, OutputInv, Beside
<1>0. /\ place[p] = "verify"
      /\ mine[p] \in Dirs
      /\ journal[p] \in Dirs /\ quar[journal[p]].ver > 0
      /\ role[p] # "recover" => journal[p] = mine[p] /\ quar[mine[p]].prior = prior[p] /\ prior[p] # NoDir /\ doomed[p] = prior[p]
      /\ \A o \in Publishers : place[o] # "idle" => mine[o] \in Dirs
      /\ \A o \in Publishers \ {p} : place[o] # "idle" => mine[o] # mine[p]
      /\ \A o \in Publishers : place[o] \in Unjournalled => mine[o] \in Dirs /\ quar[mine[o]].ver = 0
      /\ \A o \in Publishers : place[o] = "removing" => journal[o] \in Dirs /\ quar[journal[o]].ver > 0
  BY WorkerFacts DEF VerifyExchange, ValidationFails, Journalled
<1>c. \A o \in Publishers : place[o] \in {"commit", "prior", "publish", "journal"} =>
        /\ mine[o] \in Dirs /\ staging[mine[o]] = mine[o] /\ target # mine[o]
        /\ \A r \in Dirs : quar[r].payload # mine[o] /\ (staging[r] = mine[o] => r = mine[o])
  BY BuiltFacts
<1>d. /\ role[p] = "commit"
      /\ exchanging
      /\ journal[p] = m
  BY <1>0 DEF OutputTypeOK, OutputTypes, OutputRoles, Recovering, Swapping
<1>1. /\ UNCHANGED <<target, staging, quar, state>>
  BY <1>0, <1>d DEF VerifyExchange, ValidationFails, StandAt, onDisk, States, Paths
<1>b. /\ place' \in [Publishers -> OutputPlaces] /\ place'[p] \in {"exchanged", "rollback"} /\ \A b \in Publishers : b # p => place'[b] = place[b]
      /\ UNCHANGED <<mine, prior, unseen, matched, journal, known, doomed, role>> /\ strikes' \in 0..MaxStrikes /\ edits' = edits /\ deep' = deep
  <2>1. /\ place' \in [Publishers -> OutputPlaces] /\ place'[p] \in {"exchanged", "rollback"} /\ \A b \in Publishers : b # p => place'[b] = place[b]
    BY <1>0, <1>d DEF VerifyExchange, ValidationFails, StandAt, OutputTypeOK, OutputTypes, Paths, Beside, OutputPlaces
  <2>2. /\ UNCHANGED <<mine, prior, unseen, matched, journal, known, doomed, role>> /\ strikes' \in 0..MaxStrikes /\ edits' = edits /\ deep' = deep
    BY <1>0, <1>d DEF VerifyExchange, ValidationFails, OutputTypeOK, OutputTypes, OutputAssumption, incidents
  <2> QED  BY <2>1, <2>2
<1>e. \A r \in Dirs : quar[r].ver > 0 => quar'[r].ver > 0 /\ quar'[r].prior = quar[r].prior
  BY <1>0, <1>1, <1>d, <1>b DEF OutputTypeOK, OutputTypes
<1>2. OutputTypes'
  BY <1>0, <1>1, <1>d, <1>b DEF OutputTypeOK, OutputTypes, OutputPlaces, States, Paths, Quarantine,
     incidents, Beside
<1>3. OnePlace'
  BY <1>0, <1>1, <1>d DEF OutputTypeOK, OutputTypes, OnePlace
<1>3a. OnePayload'
  BY <1>0, <1>1, <1>d DEF OutputTypeOK, OutputTypes, OnePlace, OnePayload
<1>4. Blank'
  BY <1>0, <1>1, <1>d DEF OutputTypeOK, OutputTypes, Blank, Unbuilt, OutputAssumption
<1>4a. Owners'
  BY <1>0, <1>1, <1>d, <1>b DEF OutputTypeOK, OutputTypes, Owners
<1>5. OutputRoles'
  BY <1>0, <1>b, <1>d DEF OutputTypeOK, OutputTypes, OutputRoles, Recovering, Committing, Swapping, Beside
<1>6. MadeOnce'
  BY <1>0, <1>1, <1>d, <1>b DEF OutputTypeOK, OutputTypes, MadeOnce
<1>6a. Unmade'
  BY <1>0, <1>1, <1>d, <1>b DEF OutputTypeOK, OutputTypes, Unmade, Unjournalled
<1>7. Seen'
  BY <1>0, <1>b, <1>d, <1>e DEF OutputTypeOK, OutputTypes, Seen, Journalled
<1>7a. Written'
  BY <1>0, <1>b, <1>d, <1>e DEF OutputTypeOK, OutputTypes, Written, Journalled, Seen
<1>8. Built'
  BY <1>0, <1>1, <1>d, <1>b, <1>c DEF OutputTypeOK, OutputTypes, Built, Unjournalled
<1>9. exchanging => Exchanged'
  <2> SUFFICES ASSUME exchanging, Exchanged  PROVE Exchanged'
    OBVIOUS
  <2>1. TargetComplete'
    BY <1>0, <1>1, <1>d, <1>b DEF OutputTypeOK, OutputTypes, Exchanged, TargetComplete, ReadyBack, OnePlace,
       Paths, OutputAssumption
  <2>2. ReadyBack'
    BY <1>0, <1>1, <1>d, <1>b DEF OutputTypeOK, OutputTypes, Exchanged, ReadyBack, OnePlace, Paths,
       OutputAssumption
  <2>3. NoneRenames'
    BY <1>0, <1>1, <1>d, <1>b DEF OutputTypeOK, OutputTypes, Exchanged, NoneRenames, Renaming
  <2>4. SwapsBuilt'
    BY <1>0, <1>1, <1>d, <1>b DEF OutputTypeOK, OutputTypes, Exchanged, SwapsBuilt, ReadyBack, Paths,
       OutputAssumption
  <2>5. AwayFirst'
    BY <1>0, <1>1, <1>d, <1>b DEF OutputTypeOK, OutputTypes, Exchanged, AwayFirst, Paths, OutputAssumption
  <2>6. UsersOwn'
    BY <1>0, <1>1, <1>d, <1>b DEF Exchanged, UsersOwn, OutputAssumption
  <2> QED  BY <2>1, <2>2, <2>3, <2>4, <2>5, <2>6 DEF Exchanged
<1>10. ~met' /\ edits' = 0 => Sequential'
  <2> SUFFICES ASSUME ~met', edits' = 0  PROVE Sequential'
    OBVIOUS
  <2>1. /\ Sequential /\ TargetFinal /\ OneJournal /\ OneWorks' /\ OnDisk(p)
        /\ \A o \in Publishers : o # p => place[o] = "idle" /\ place'[o] = "idle"
    BY <1>0, <1>b, AloneFacts DEF incidents, Sequential
  <2>2. /\ quar[journal[p]].record /\ quar[journal[p]].root /\ known[p] = quar[journal[p]].ver
        /\ quar[journal[p]].prior # journal[p] /\ quar[journal[p]].prior # NoDir /\ quar[journal[p]].prior \in Dirs \cup UserDirs
        /\ staging[journal[p]] \in {NoDir, journal[p], quar[journal[p]].prior}
        /\ staging[journal[p]] = journal[p] => state[journal[p]] = "final"
        /\ target # NoDir => target # staging[journal[p]] /\ target # quar[journal[p]].payload
        /\ staging[journal[p]] # NoDir => staging[journal[p]] # quar[journal[p]].payload
        /\ \A r \in Dirs : r # journal[p] => ~quar[r].record /\ quar[r].payload = NoDir
        /\ target # NoDir => target \in Dirs \cup UserDirs /\ state[target] = "final"
    BY <1>0, <2>1, JournalFacts DEF Journalled, OutputTypeOK
  <2>3. /\ target = journal[p]
        /\ state[journal[p]] = "final"
        /\ quar[journal[p]].payload = NoDir
        /\ staging[journal[p]] = quar[journal[p]].prior
        /\ state[quar[journal[p]].prior] = "final"
    BY <1>0, <1>1, <1>d, <1>b, <2>1, <2>2 DEF OnDisk, PriorStaged, Published, Sound, OutputAssumption
  <2>5. TargetFinal'
    BY <1>0, <1>1, <1>d, <1>b, <2>1, <2>2, <2>3 DEF TargetFinal, OutputTypeOK, OutputTypes, Paths
  <2>6. OneJournal'
    <3>1. \A r \in Dirs : r # journal[p] => ~quar'[r].record /\ quar'[r].payload = NoDir
      BY <1>0, <1>1, <1>d, <1>b, <2>1, <2>2, <2>3
    <3>2. /\ quar'[journal[p]].record /\ quar'[journal[p]].root /\ quar'[journal[p]].prior # NoDir /\ quar'[journal[p]].prior # journal[p]
          /\ staging'[journal[p]] \in {NoDir, journal[p], quar'[journal[p]].prior}
          /\ staging'[journal[p]] = journal[p] => state'[journal[p]] = "final"
      BY <1>0, <1>1, <1>d, <1>b, <2>1, <2>2, <2>3 DEF OutputTypeOK, OutputTypes, OutputAssumption
    <3> QED  BY <1>0, <3>1, <3>2, OnlyJournal
  <2>7. place'[p] # "idle" => OnDisk(p)'
    <3>1. /\ journal[p] # NoDir
          /\ journal'[p] = journal[p]
          /\ quar'[journal[p]].record
          /\ known'[p] = quar'[journal[p]].ver
          /\ quar'[journal[p]].prior # NoDir /\ quar'[journal[p]].prior # journal[p]
          /\ target' = journal[p]
          /\ state'[journal[p]] = "final"
          /\ quar'[journal[p]].payload = NoDir
          /\ staging'[journal[p]] = quar'[journal[p]].prior
          /\ state'[quar'[journal[p]].prior] = "final"
      BY <1>0, <1>1, <1>d, <1>b, <2>1, <2>2, <2>3 DEF OutputAssumption
    <3> QED  BY <1>0, <1>b, <3>1, AtSwapped
  <2>8. place'[p] # "idle"
    BY <1>b
  <2> QED  BY <2>1, <2>2, <2>3, <2>5, <2>6, <2>7, <2>8 DEF Sequential
<1> QED  BY <1>2, <1>3, <1>3a, <1>4, <1>4a, <1>5, <1>6, <1>6a, <1>7, <1>7a, <1>8, <1>9, <1>10 DEF OutputTypeOK

LEMMA RollbackStep ==
  ASSUME OutputAssumption, OutputInv, Beside, NEW p \in Publishers, Rollback(p)
  PROVE  OutputInv'
<1> DEFINE m == mine[p]
<1> USE DEF OutputBase, OutputInv, Beside
<1>0. /\ place[p] = "rollback"
      /\ mine[p] \in Dirs
      /\ journal[p] \in Dirs /\ quar[journal[p]].ver > 0
      /\ role[p] # "recover" => journal[p] = mine[p] /\ quar[mine[p]].prior = prior[p] /\ prior[p] # NoDir /\ doomed[p] = prior[p]
      /\ \A o \in Publishers : place[o] # "idle" => mine[o] \in Dirs
      /\ \A o \in Publishers \ {p} : place[o] # "idle" => mine[o] # mine[p]
      /\ \A o \in Publishers : place[o] \in Unjournalled => mine[o] \in Dirs /\ quar[mine[o]].ver = 0
      /\ \A o \in Publishers : place[o] = "removing" => journal[o] \in Dirs /\ quar[journal[o]].ver > 0
  BY WorkerFacts DEF Rollback, Journalled
<1>c. \A o \in Publishers : place[o] \in {"commit", "prior", "publish", "journal"} =>
        /\ mine[o] \in Dirs /\ staging[mine[o]] = mine[o] /\ target # mine[o]
        /\ \A r \in Dirs : quar[r].payload # mine[o] /\ (staging[r] = mine[o] => r = mine[o])
  BY BuiltFacts
<1>1. CASE target = m /\ staging[m] = prior[p]
  <2>d. /\ role[p] = "commit"
        /\ exchanging
        /\ journal[p] = m
    BY <1>0 DEF OutputTypeOK, OutputTypes, OutputRoles, Recovering, Swapping
  <2>1. /\ target' \in Paths
        /\ target' = staging[m]
        /\ staging' \in [Dirs -> Paths] /\ staging'[m] = target /\ \A b \in Dirs : b # m => staging'[b] = staging[b]
        /\ target # NoDir
        /\ staging[m] # NoDir
        /\ UNCHANGED <<quar, state>>
    <3>1. /\ target' \in Paths
      BY <1>0, <1>1, <2>d DEF Rollback, StandAt, OutputTypeOK, OutputTypes, SwapPaths, Paths,
         OutputAssumption, onDisk, States, Paths
    <3>2. /\ staging' \in [Dirs -> Paths] /\ staging'[m] = target /\ \A b \in Dirs : b # m => staging'[b] = staging[b]
      BY <1>0, <1>1, <2>d DEF Rollback, StandAt, OutputTypeOK, OutputTypes, SwapPaths, Paths,
         OutputAssumption, onDisk, States, Paths
    <3>3. /\ target' = staging[m]
          /\ target # NoDir
          /\ staging[m] # NoDir
          /\ UNCHANGED <<quar, state>>
      BY <1>0, <1>1, <2>d DEF Rollback, StandAt, OutputTypeOK, OutputTypes, SwapPaths, Paths,
         OutputAssumption, onDisk, States, Paths
    <3> QED  BY <3>1, <3>2, <3>3
  <2>b. /\ place' \in [Publishers -> OutputPlaces] /\ place'[p] = "unwind" /\ \A b \in Publishers : b # p => place'[b] = place[b]
        /\ UNCHANGED <<mine, prior, unseen, matched, journal, known, doomed, role, incidents>>
    <3>1. /\ place' \in [Publishers -> OutputPlaces] /\ place'[p] = "unwind" /\ \A b \in Publishers : b # p => place'[b] = place[b]
      BY <1>0, <1>1, <2>d DEF Rollback, StandAt, OutputTypeOK, OutputTypes, SwapPaths, Paths,
         OutputAssumption, Paths, Beside, OutputPlaces
    <3>2. /\ UNCHANGED <<mine, prior, unseen, matched, journal, known, doomed, role, incidents>>
      BY <1>0, <1>1, <2>d DEF Rollback, StandAt, OutputTypeOK, OutputTypes, SwapPaths, Paths,
         OutputAssumption, Paths, Beside
    <3> QED  BY <3>1, <3>2
  <2>e. \A r \in Dirs : quar[r].ver > 0 => quar'[r].ver > 0 /\ quar'[r].prior = quar[r].prior
    BY <1>0, <1>1, <2>1, <2>d, <2>b DEF OutputTypeOK, OutputTypes
  <2>2. OutputTypes'
    BY <1>0, <1>1, <2>1, <2>d, <2>b DEF OutputTypeOK, OutputTypes, OutputPlaces, States, Paths, Quarantine,
       incidents, Beside
  <2>3. OnePlace'
    BY <1>0, <1>1, <2>1, <2>d DEF OutputTypeOK, OutputTypes, OnePlace
  <2>3a. OnePayload'
    BY <1>0, <1>1, <2>1, <2>d DEF OutputTypeOK, OutputTypes, OnePlace, OnePayload
  <2>4. Blank'
    BY <1>0, <1>1, <2>1, <2>d DEF OutputTypeOK, OutputTypes, Blank, Unbuilt, OutputAssumption
  <2>4a. Owners'
    BY <1>0, <1>1, <2>1, <2>d, <2>b DEF OutputTypeOK, OutputTypes, Owners
  <2>5. OutputRoles'
    BY <1>0, <2>b, <2>d DEF OutputTypeOK, OutputTypes, OutputRoles, Recovering, Committing, Swapping, Beside
  <2>6. MadeOnce'
    BY <1>0, <1>1, <2>1, <2>d, <2>b DEF OutputTypeOK, OutputTypes, MadeOnce
  <2>6a. Unmade'
    BY <1>0, <1>1, <2>1, <2>d, <2>b DEF OutputTypeOK, OutputTypes, Unmade, Unjournalled
  <2>7. Seen'
    BY <1>0, <2>b, <2>d, <2>e DEF OutputTypeOK, OutputTypes, Seen, Journalled
  <2>7a. Written'
    BY <1>0, <2>b, <2>d, <2>e DEF OutputTypeOK, OutputTypes, Written, Journalled, Seen
  <2>8. Built'
    BY <1>0, <1>1, <2>1, <2>d, <2>b, <1>c DEF OutputTypeOK, OutputTypes, Built, Unjournalled
  <2>9. exchanging => Exchanged'
    <3> SUFFICES ASSUME exchanging, Exchanged  PROVE Exchanged'
      OBVIOUS
    <3>1. TargetComplete'
      BY <1>0, <1>1, <2>1, <2>d, <2>b DEF OutputTypeOK, OutputTypes, Exchanged, TargetComplete, ReadyBack,
         OnePlace, Paths, OutputAssumption
    <3>2. ReadyBack'
      BY <1>0, <1>1, <2>1, <2>d, <2>b DEF OutputTypeOK, OutputTypes, Exchanged, ReadyBack, OnePlace,
         TargetComplete, Paths, OutputAssumption
    <3>3. NoneRenames'
      BY <1>0, <1>1, <2>1, <2>d, <2>b DEF OutputTypeOK, OutputTypes, Exchanged, NoneRenames, Renaming
    <3>4. SwapsBuilt'
      BY <1>0, <1>1, <2>1, <2>d, <2>b DEF OutputTypeOK, OutputTypes, Exchanged, SwapsBuilt, ReadyBack,
         Paths, OutputAssumption
    <3>5. AwayFirst'
      BY <1>0, <1>1, <2>1, <2>d, <2>b DEF OutputTypeOK, OutputTypes, Exchanged, AwayFirst, Paths,
         OutputAssumption
    <3>6. UsersOwn'
      BY <1>0, <1>1, <2>1, <2>d, <2>b DEF Exchanged, UsersOwn, OutputAssumption
    <3> QED  BY <3>1, <3>2, <3>3, <3>4, <3>5, <3>6 DEF Exchanged
  <2>10. ~met' /\ edits' = 0 => Sequential'
    <3> SUFFICES ASSUME ~met', edits' = 0  PROVE Sequential'
      OBVIOUS
    <3>1. /\ Sequential /\ TargetFinal /\ OneJournal /\ OneWorks' /\ OnDisk(p)
          /\ \A o \in Publishers : o # p => place[o] = "idle" /\ place'[o] = "idle"
      BY <1>0, <2>b, AloneFacts DEF incidents, Sequential
    <3>2. /\ quar[m].record /\ known[p] = quar[m].ver /\ quar[m].prior \notin {NoDir, m} /\ m # NoDir
          /\ target = m /\ state[m] = "final" /\ quar[m].payload = NoDir
          /\ staging[m] = quar[m].prior /\ state[quar[m].prior] = "final"
          /\ \A r \in Dirs : r # m => ~quar[r].record /\ quar[r].payload = NoDir
      BY <1>0, <2>d, <3>1, JournalFacts DEF OnDisk, Journalled, PriorStaged, Published, Sound, OutputAssumption
    <3>3. TargetFinal'
      BY <1>0, <2>1, <3>1, <3>2 DEF TargetFinal
    <3>4. OneJournal'
      BY <1>0, <2>1, <3>1, <3>2, OnlyJournal DEF OneJournal
    <3>5. OnDisk(p)'
      BY <1>0, <2>1, <2>b, <2>d, <3>2, AtSwap
    <3> QED  BY <2>b, <3>1, <3>3, <3>4, <3>5 DEF Sequential
  <2> QED  BY <2>2, <2>3, <2>3a, <2>4, <2>4a, <2>5, <2>6, <2>6a, <2>7, <2>7a, <2>8, <2>9, <2>10 DEF
              OutputTypeOK
<1>2. CASE ~(target = m /\ staging[m] = prior[p])
  <2>1. place' = [place EXCEPT ![p] = "abort"] /\ UNCHANGED <<onDisk, mine, prior, unseen, matched, journal, known, doomed, role, incidents>>
    BY <1>0, <1>2 DEF Rollback, StandAt, onDisk
  <2>2. "abort" \in {"idle", "abort"} /\ ("abort" = "abort" => role[p] # "recover") /\ place[p] # "idle"
    BY <1>0 DEF OutputTypeOK, OutputTypes, OutputRoles, Recovering, Committing
  <2>3. strikes' \in 0..MaxStrikes /\ edits' = edits /\ deep' \in BOOLEAN
    BY <2>1 DEF OutputTypeOK, OutputTypes, incidents
  <2>4. OutputBase' /\ (exchanging => Exchanged')
    BY <2>1, <2>2, <2>3, GiveUp DEF onDisk
  <2>b. /\ place' \in [Publishers -> OutputPlaces] /\ place'[p] = "abort" /\ \A b \in Publishers : b # p => place'[b] = place[b]
        /\ UNCHANGED <<target, staging, quar, state, mine, prior, unseen, matched, journal, known, doomed, role, incidents>>
    BY <2>1, <2>2 DEF OutputTypeOK, OutputTypes, OutputPlaces, onDisk
  <2>10. ~met' /\ edits' = 0 => Sequential'
    <3> SUFFICES ASSUME ~met', edits' = 0  PROVE Sequential'
      OBVIOUS
    <3>1. /\ Sequential /\ TargetFinal /\ OneJournal /\ OneWorks' /\ OnDisk(p)
          /\ \A o \in Publishers : o # p => place[o] = "idle" /\ place'[o] = "idle"
      BY <1>0, <2>b, AloneFacts DEF incidents, Sequential
    <3>2. FALSE
      BY <1>0, <1>2, <3>1 DEF OnDisk, PriorStaged, Published, Sound, OutputTypeOK, OutputTypes, OutputRoles, Recovering
    <3> QED  BY <3>2
  <2> QED  BY <2>4, <2>10
<1> QED  BY <1>1, <1>2 DEF Rollback

LEMMA UnwindStep ==
  ASSUME OutputAssumption, OutputInv, Beside, NEW p \in Publishers, Unwind(p)
  PROVE  OutputInv'
<1> DEFINE m == mine[p]
<1> USE DEF OutputBase, OutputInv, Beside
<1>0. /\ place[p] = "unwind"
      /\ mine[p] \in Dirs
      /\ journal[p] \in Dirs /\ quar[journal[p]].ver > 0
      /\ role[p] # "recover" => journal[p] = mine[p] /\ quar[mine[p]].prior = prior[p] /\ prior[p] # NoDir /\ doomed[p] = prior[p]
      /\ \A o \in Publishers : place[o] # "idle" => mine[o] \in Dirs
      /\ \A o \in Publishers \ {p} : place[o] # "idle" => mine[o] # mine[p]
      /\ \A o \in Publishers : place[o] \in Unjournalled => mine[o] \in Dirs /\ quar[mine[o]].ver = 0
      /\ \A o \in Publishers : place[o] = "removing" => journal[o] \in Dirs /\ quar[journal[o]].ver > 0
  BY WorkerFacts DEF Unwind, Journalled
<1>c. \A o \in Publishers : place[o] \in {"commit", "prior", "publish", "journal"} =>
        /\ mine[o] \in Dirs /\ staging[mine[o]] = mine[o] /\ target # mine[o]
        /\ \A r \in Dirs : quar[r].payload # mine[o] /\ (staging[r] = mine[o] => r = mine[o])
  BY BuiltFacts
<1>1. CASE Sound(target, prior[p])
  <2>d. /\ role[p] = "commit"
        /\ journal[p] = m
    BY <1>0 DEF OutputTypeOK, OutputTypes, OutputRoles, Recovering
  <2>1. /\ UNCHANGED <<target, staging, quar, state>>
    BY <1>0, <1>1, <2>d DEF Unwind, StandAt, Withdraw, onDisk, States, Paths
  <2>b. /\ place' \in [Publishers -> OutputPlaces] /\ place'[p] = "unlist" /\ \A b \in Publishers : b # p => place'[b] = place[b]
        /\ role' \in [Publishers -> {"recover", "commit", "withdraw"}] /\ role'[p] = "withdraw" /\ \A b \in Publishers : b # p => role'[b] = role[b]
        /\ UNCHANGED <<mine, prior, unseen, matched, journal, known, doomed, incidents>>
    <3>1. /\ place' \in [Publishers -> OutputPlaces] /\ place'[p] = "unlist" /\ \A b \in Publishers : b # p => place'[b] = place[b]
      BY <1>0, <1>1, <2>d DEF Unwind, StandAt, OutputTypeOK, OutputTypes, Withdraw, Paths, Beside,
         OutputPlaces
    <3>2. /\ role' \in [Publishers -> {"recover", "commit", "withdraw"}] /\ role'[p] = "withdraw" /\ \A b \in Publishers : b # p => role'[b] = role[b]
      BY <1>0, <1>1, <2>d DEF Unwind, StandAt, OutputTypeOK, OutputTypes, Withdraw, Paths, Beside
    <3>3. /\ UNCHANGED <<mine, prior, unseen, matched, journal, known, doomed, incidents>>
      BY <1>0, <1>1, <2>d DEF Unwind, StandAt, OutputTypeOK, OutputTypes, Withdraw, Paths, Beside
    <3> QED  BY <3>1, <3>2, <3>3
  <2>e. \A r \in Dirs : quar[r].ver > 0 => quar'[r].ver > 0 /\ quar'[r].prior = quar[r].prior
    BY <1>0, <1>1, <2>1, <2>d, <2>b DEF OutputTypeOK, OutputTypes
  <2>2. OutputTypes'
    BY <1>0, <1>1, <2>1, <2>d, <2>b DEF OutputTypeOK, OutputTypes, OutputPlaces, States, Paths, Quarantine,
       incidents, Beside
  <2>3. OnePlace'
    BY <1>0, <1>1, <2>1, <2>d DEF OutputTypeOK, OutputTypes, OnePlace
  <2>3a. OnePayload'
    BY <1>0, <1>1, <2>1, <2>d DEF OutputTypeOK, OutputTypes, OnePlace, OnePayload
  <2>4. Blank'
    BY <1>0, <1>1, <2>1, <2>d DEF OutputTypeOK, OutputTypes, Blank, Unbuilt, OutputAssumption
  <2>4a. Owners'
    BY <1>0, <1>1, <2>1, <2>d, <2>b DEF OutputTypeOK, OutputTypes, Owners
  <2>5. OutputRoles'
    BY <1>0, <2>b, <2>d DEF OutputTypeOK, OutputTypes, OutputRoles, Recovering, Committing, Swapping, Beside
  <2>6. MadeOnce'
    BY <1>0, <1>1, <2>1, <2>d, <2>b DEF OutputTypeOK, OutputTypes, MadeOnce
  <2>6a. Unmade'
    BY <1>0, <1>1, <2>1, <2>d, <2>b DEF OutputTypeOK, OutputTypes, Unmade, Unjournalled
  <2>7. Seen'
    BY <1>0, <2>b, <2>d, <2>e DEF OutputTypeOK, OutputTypes, Seen, Journalled
  <2>7a. Written'
    BY <1>0, <2>b, <2>d, <2>e DEF OutputTypeOK, OutputTypes, Written, Journalled, Seen
  <2>8. Built'
    BY <1>0, <1>1, <2>1, <2>d, <2>b, <1>c DEF OutputTypeOK, OutputTypes, Built, Unjournalled
  <2>9. exchanging => Exchanged'
    <3> SUFFICES ASSUME exchanging, Exchanged  PROVE Exchanged'
      OBVIOUS
    <3>1. TargetComplete'
      BY <1>0, <1>1, <2>1, <2>d, <2>b DEF OutputTypeOK, OutputTypes, Exchanged, TargetComplete, ReadyBack,
         OnePlace, Paths, OutputAssumption
    <3>2. ReadyBack'
      BY <1>0, <1>1, <2>1, <2>d, <2>b DEF OutputTypeOK, OutputTypes, Exchanged, ReadyBack, OnePlace, Paths,
         OutputAssumption
    <3>3. NoneRenames'
      BY <1>0, <1>1, <2>1, <2>d, <2>b DEF OutputTypeOK, OutputTypes, Exchanged, NoneRenames, Renaming
    <3>4. SwapsBuilt'
      BY <1>0, <1>1, <2>1, <2>d, <2>b DEF OutputTypeOK, OutputTypes, Exchanged, SwapsBuilt, ReadyBack,
         Paths, OutputAssumption
    <3>5. AwayFirst'
      BY <1>0, <1>1, <2>1, <2>d, <2>b DEF OutputTypeOK, OutputTypes, Exchanged, AwayFirst, Paths,
         OutputAssumption
    <3>6. UsersOwn'
      BY <1>0, <1>1, <2>1, <2>d, <2>b DEF Exchanged, UsersOwn, OutputAssumption
    <3> QED  BY <3>1, <3>2, <3>3, <3>4, <3>5, <3>6 DEF Exchanged
  <2>10. ~met' /\ edits' = 0 => Sequential'
    <3> SUFFICES ASSUME ~met', edits' = 0  PROVE Sequential'
      OBVIOUS
    <3>1. /\ Sequential /\ TargetFinal /\ OneJournal /\ OneWorks' /\ OnDisk(p)
          /\ \A o \in Publishers : o # p => place[o] = "idle" /\ place'[o] = "idle"
      BY <1>0, <2>b, AloneFacts DEF incidents, Sequential
    <3>2. /\ quar[m].record /\ known[p] = quar[m].ver /\ quar[m].prior \notin {NoDir, m} /\ m # NoDir
          /\ target = quar[m].prior /\ state[quar[m].prior] = "final" /\ quar[m].payload = NoDir
          /\ staging[m] = m /\ state[m] = "final"
      BY <1>0, <2>d, <3>1, JournalFacts DEF OnDisk, Journalled, NotExchanged, Sound, OutputAssumption
    <3>3. TargetFinal' /\ OneJournal'
      BY <2>1, <3>1 DEF TargetFinal, OneJournal
    <3>5. OnDisk(p)'
      BY <1>0, <2>1, <2>b, <2>d, <3>2, AtUnlist
    <3> QED  BY <2>b, <3>1, <3>3, <3>5 DEF Sequential
  <2> QED  BY <2>2, <2>3, <2>3a, <2>4, <2>4a, <2>5, <2>6, <2>6a, <2>7, <2>7a, <2>8, <2>9, <2>10 DEF
              OutputTypeOK
<1>2. CASE ~Sound(target, prior[p])
  <2>1. place' = [place EXCEPT ![p] = "abort"] /\ UNCHANGED <<onDisk, mine, prior, unseen, matched, journal, known, doomed, role, incidents>>
    BY <1>0, <1>2 DEF Unwind, StandAt, onDisk
  <2>2. "abort" \in {"idle", "abort"} /\ ("abort" = "abort" => role[p] # "recover") /\ place[p] # "idle"
    BY <1>0 DEF OutputTypeOK, OutputTypes, OutputRoles, Recovering, Committing
  <2>3. strikes' \in 0..MaxStrikes /\ edits' = edits /\ deep' \in BOOLEAN
    BY <2>1 DEF OutputTypeOK, OutputTypes, incidents
  <2>4. OutputBase' /\ (exchanging => Exchanged')
    BY <2>1, <2>2, <2>3, GiveUp DEF onDisk
  <2>b. /\ place' \in [Publishers -> OutputPlaces] /\ place'[p] = "abort" /\ \A b \in Publishers : b # p => place'[b] = place[b]
        /\ UNCHANGED <<target, staging, quar, state, mine, prior, unseen, matched, journal, known, doomed, role, incidents>>
    BY <2>1, <2>2 DEF OutputTypeOK, OutputTypes, OutputPlaces, onDisk
  <2>10. ~met' /\ edits' = 0 => Sequential'
    <3> SUFFICES ASSUME ~met', edits' = 0  PROVE Sequential'
      OBVIOUS
    <3>1. /\ Sequential /\ TargetFinal /\ OneJournal /\ OneWorks' /\ OnDisk(p)
          /\ \A o \in Publishers : o # p => place[o] = "idle" /\ place'[o] = "idle"
      BY <1>0, <2>b, AloneFacts DEF incidents, Sequential
    <3>2. FALSE
      BY <1>0, <1>2, <3>1 DEF OnDisk, NotExchanged, Sound, OutputTypeOK, OutputTypes, OutputRoles, Recovering
    <3> QED  BY <3>2
  <2> QED  BY <2>4, <2>10
<1> QED  BY <1>1, <1>2 DEF Unwind

LEMMA QuarantinePriorStep ==
  ASSUME OutputAssumption, OutputInv, Beside, NEW p \in Publishers, QuarantinePrior(p)
  PROVE  OutputInv'
<1> DEFINE m == mine[p]
<1> USE DEF OutputBase, OutputInv, Beside
<1>0. /\ place[p] = "quarantine"
      /\ mine[p] \in Dirs
      /\ journal[p] \in Dirs /\ quar[journal[p]].ver > 0
      /\ role[p] # "recover" => journal[p] = mine[p] /\ quar[mine[p]].prior = prior[p] /\ prior[p] # NoDir /\ doomed[p] = prior[p]
      /\ \A o \in Publishers : place[o] # "idle" => mine[o] \in Dirs
      /\ \A o \in Publishers \ {p} : place[o] # "idle" => mine[o] # mine[p]
      /\ \A o \in Publishers : place[o] \in Unjournalled => mine[o] \in Dirs /\ quar[mine[o]].ver = 0
      /\ \A o \in Publishers : place[o] = "removing" => journal[o] \in Dirs /\ quar[journal[o]].ver > 0
  BY WorkerFacts DEF QuarantinePrior, Journalled
<1>c. \A o \in Publishers : place[o] \in {"commit", "prior", "publish", "journal"} =>
        /\ mine[o] \in Dirs /\ staging[mine[o]] = mine[o] /\ target # mine[o]
        /\ \A r \in Dirs : quar[r].payload # mine[o] /\ (staging[r] = mine[o] => r = mine[o])
  BY BuiltFacts
<1>1. CASE CanQuarantine(m, target)
  <2>a. PayloadBecomes(m, target)
    BY <1>0, <1>1, PayloadFacts DEF QuarantinePrior, StandAt, OutputTypeOK, OutputTypes, CanQuarantine,
       Paths, Quarantine
  <2>d. /\ role[p] = "commit"
        /\ journal[p] = m
    BY <1>0 DEF OutputTypeOK, OutputTypes, OutputRoles, Recovering
  <2>1. /\ target' \in Paths
        /\ target' = NoDir
        /\ target # NoDir
        /\ UNCHANGED <<staging, state>>
    <3>1. /\ target' \in Paths
      BY <1>0, <1>1, <2>d DEF QuarantinePrior, StandAt, OutputTypeOK, OutputTypes, CanQuarantine, onDisk,
         States, Paths
    <3>2. /\ target' = NoDir
          /\ target # NoDir
          /\ UNCHANGED <<staging, state>>
      BY <1>0, <1>1, <2>d DEF QuarantinePrior, StandAt, OutputTypeOK, OutputTypes, CanQuarantine, onDisk,
         States, Paths
    <3> QED  BY <3>1, <3>2
  <2>b. /\ place' \in [Publishers -> OutputPlaces] /\ place'[p] = "quarantined" /\ \A b \in Publishers : b # p => place'[b] = place[b]
        /\ UNCHANGED <<mine, prior, unseen, matched, journal, known, doomed, role, incidents>>
    <3>1. /\ place' \in [Publishers -> OutputPlaces] /\ place'[p] = "quarantined" /\ \A b \in Publishers : b # p => place'[b] = place[b]
      BY <1>0, <1>1, <2>d DEF QuarantinePrior, StandAt, OutputTypeOK, OutputTypes, OutputPlaces
    <3>2. /\ UNCHANGED <<mine, prior, unseen, matched, journal, known, doomed, role, incidents>>
      BY <1>0, <1>1, <2>d DEF QuarantinePrior, StandAt, OutputTypeOK, OutputTypes, CanQuarantine, Paths,
         Beside
    <3> QED  BY <3>1, <3>2
  <2>e. \A r \in Dirs : quar[r].ver > 0 => quar'[r].ver > 0 /\ quar'[r].prior = quar[r].prior
    BY <1>0, <1>1, <2>a, <2>1, <2>d, <2>b DEF OutputTypeOK, OutputTypes, PayloadBecomes
  <2>2. OutputTypes'
    BY <1>0, <1>1, <2>a, <2>1, <2>d, <2>b DEF OutputTypeOK, OutputTypes, PayloadBecomes, OutputPlaces,
       States, Paths, Quarantine, incidents, Beside
  <2>3. OnePlace'
    BY <1>0, <1>1, <2>a, <2>1, <2>d DEF OutputTypeOK, OutputTypes, PayloadBecomes, OnePlace
  <2>3a. OnePayload'
    BY <1>0, <1>1, <2>a, <2>1, <2>d DEF OutputTypeOK, OutputTypes, PayloadBecomes, OnePlace, OnePayload
  <2>4. Blank'
    BY <1>0, <1>1, <2>a, <2>1, <2>d DEF OutputTypeOK, OutputTypes, PayloadBecomes, Blank, Unbuilt,
       OutputAssumption
  <2>4a. Owners'
    BY <1>0, <1>1, <2>a, <2>1, <2>d, <2>b DEF OutputTypeOK, OutputTypes, PayloadBecomes, Owners
  <2>5. OutputRoles'
    BY <1>0, <2>b, <2>d DEF OutputTypeOK, OutputTypes, OutputRoles, Recovering, Committing, Swapping, Beside
  <2>6. MadeOnce'
    BY <1>0, <2>a, <2>d, <2>e DEF OutputTypeOK, OutputTypes, PayloadBecomes, MadeOnce
  <2>6a. Unmade'
    BY <1>0, <2>a, <2>b, <2>d DEF OutputTypeOK, OutputTypes, PayloadBecomes, Unmade, Unjournalled
  <2>7. Seen'
    BY <1>0, <2>b, <2>d, <2>e DEF OutputTypeOK, OutputTypes, Seen, Journalled
  <2>7a. Written'
    BY <1>0, <2>b, <2>d, <2>e DEF OutputTypeOK, OutputTypes, Written, Journalled, Seen
  <2>8. Built'
    BY <1>0, <1>1, <2>a, <2>1, <2>d, <2>b, <1>c DEF OutputTypeOK, OutputTypes, Built, Unjournalled
  <2>9. exchanging => Exchanged'
    BY <1>0 DEF Exchanged, NoneRenames, Renaming
  <2>10. ~met' /\ edits' = 0 => Sequential'
    <3> SUFFICES ASSUME ~met', edits' = 0  PROVE Sequential'
      OBVIOUS
    <3>1. /\ Sequential /\ TargetFinal /\ OneJournal /\ OneWorks' /\ OnDisk(p)
          /\ \A o \in Publishers : o # p => place[o] = "idle" /\ place'[o] = "idle"
      BY <1>0, <2>b, AloneFacts DEF incidents, Sequential
    <3>2. /\ quar[journal[p]].record /\ quar[journal[p]].root /\ known[p] = quar[journal[p]].ver
          /\ quar[journal[p]].prior # journal[p] /\ quar[journal[p]].prior # NoDir /\ quar[journal[p]].prior \in Dirs \cup UserDirs
          /\ staging[journal[p]] \in {NoDir, journal[p], quar[journal[p]].prior}
          /\ staging[journal[p]] = journal[p] => state[journal[p]] = "final"
          /\ target # NoDir => target # staging[journal[p]] /\ target # quar[journal[p]].payload
          /\ staging[journal[p]] # NoDir => staging[journal[p]] # quar[journal[p]].payload
          /\ \A r \in Dirs : r # journal[p] => ~quar[r].record /\ quar[r].payload = NoDir
          /\ target # NoDir => target \in Dirs \cup UserDirs /\ state[target] = "final"
      BY <1>0, <3>1, JournalFacts DEF Journalled, OutputTypeOK
    <3>3. /\ target = quar[journal[p]].prior
          /\ state[quar[journal[p]].prior] = "final"
          /\ staging[journal[p]] = journal[p]
          /\ state[journal[p]] = "final"
          /\ quar[journal[p]].payload = NoDir
      BY <1>0, <1>1, <2>a, <2>1, <2>d, <2>b, <3>1, <3>2 DEF OnDisk, NotExchanged, Sound
    <3>5. TargetFinal'
      BY <1>0, <1>1, <2>a, <2>1, <2>d, <2>b, <3>1, <3>2, <3>3 DEF TargetFinal, PayloadBecomes, OutputTypeOK,
         OutputTypes, Paths
    <3>6. OneJournal'
      <4>1. \A r \in Dirs : r # journal[p] => ~quar'[r].record /\ quar'[r].payload = NoDir
        BY <1>0, <2>a, <2>b, <2>d, <3>1, <3>2, <3>3 DEF PayloadBecomes
      <4>2. /\ quar'[journal[p]].record /\ quar'[journal[p]].root /\ quar'[journal[p]].prior # NoDir /\ quar'[journal[p]].prior # journal[p]
            /\ staging'[journal[p]] \in {NoDir, journal[p], quar'[journal[p]].prior}
            /\ staging'[journal[p]] = journal[p] => state'[journal[p]] = "final"
        BY <1>0, <1>1, <2>a, <2>1, <2>d, <2>b, <3>1, <3>2, <3>3 DEF PayloadBecomes, OutputTypeOK,
           OutputTypes, OutputAssumption
      <4> QED  BY <1>0, <4>1, <4>2, OnlyJournal
    <3>7. place'[p] # "idle" => OnDisk(p)'
      <4>1. CASE place'[p] = "quarantined"
        <5>1. /\ journal[p] # NoDir
              /\ journal'[p] = journal[p]
              /\ quar'[journal[p]].record
              /\ known'[p] = quar'[journal[p]].ver
              /\ quar'[journal[p]].prior # NoDir /\ quar'[journal[p]].prior # journal[p]
              /\ target' = NoDir
              /\ staging'[journal[p]] = journal[p]
              /\ quar'[journal[p]].payload = quar'[journal[p]].prior
              /\ state'[quar'[journal[p]].prior] = "final"
              /\ state'[journal[p]] = "final"
          BY <1>0, <1>1, <2>a, <2>1, <2>d, <2>b, <3>1, <3>2, <3>3, <4>1 DEF PayloadBecomes, OutputAssumption
        <5> QED  BY <1>0, <4>1, <5>1, AtPlace
      <4> QED  BY <2>b, <4>1
    <3>8. place'[p] # "idle"
      BY <2>b
    <3> QED  BY <3>1, <3>2, <3>3, <3>5, <3>6, <3>7, <3>8 DEF Sequential
  <2> QED  BY <2>2, <2>3, <2>3a, <2>4, <2>4a, <2>5, <2>6, <2>6a, <2>7, <2>7a, <2>8, <2>9, <2>10 DEF
              OutputTypeOK
<1>2. CASE ~CanQuarantine(m, target)
  <2>d. /\ role[p] = "commit"
        /\ journal[p] = m
    BY <1>0 DEF OutputTypeOK, OutputTypes, OutputRoles, Recovering
  <2>1. /\ UNCHANGED <<target, staging, quar, state>>
    BY <1>0, <1>2, <2>d DEF QuarantinePrior, StandAt, Withdraw, onDisk, States, Paths
  <2>b. /\ place' \in [Publishers -> OutputPlaces] /\ place'[p] = "unlist" /\ \A b \in Publishers : b # p => place'[b] = place[b]
        /\ role' \in [Publishers -> {"recover", "commit", "withdraw"}] /\ role'[p] = "withdraw" /\ \A b \in Publishers : b # p => role'[b] = role[b]
        /\ UNCHANGED <<mine, prior, unseen, matched, journal, known, doomed, incidents>>
    <3>1. /\ place' \in [Publishers -> OutputPlaces] /\ place'[p] = "unlist" /\ \A b \in Publishers : b # p => place'[b] = place[b]
      BY <1>0, <1>2, <2>d DEF QuarantinePrior, StandAt, OutputTypeOK, OutputTypes, Withdraw, OutputPlaces
    <3>2. /\ role' \in [Publishers -> {"recover", "commit", "withdraw"}] /\ role'[p] = "withdraw" /\ \A b \in Publishers : b # p => role'[b] = role[b]
      BY <1>0, <1>2, <2>d DEF QuarantinePrior, StandAt, OutputTypeOK, OutputTypes, Withdraw, Paths, Beside
    <3>3. /\ UNCHANGED <<mine, prior, unseen, matched, journal, known, doomed, incidents>>
      BY <1>0, <1>2, <2>d DEF QuarantinePrior, StandAt, OutputTypeOK, OutputTypes, Withdraw, Paths, Beside
    <3> QED  BY <3>1, <3>2, <3>3
  <2>e. \A r \in Dirs : quar[r].ver > 0 => quar'[r].ver > 0 /\ quar'[r].prior = quar[r].prior
    BY <1>0, <1>2, <2>1, <2>d, <2>b DEF OutputTypeOK, OutputTypes
  <2>2. OutputTypes'
    BY <1>0, <1>2, <2>1, <2>d, <2>b DEF OutputTypeOK, OutputTypes, OutputPlaces, States, Paths, Quarantine,
       incidents, Beside
  <2>3. OnePlace'
    BY <1>0, <1>2, <2>1, <2>d DEF OutputTypeOK, OutputTypes, OnePlace
  <2>3a. OnePayload'
    BY <1>0, <1>2, <2>1, <2>d DEF OutputTypeOK, OutputTypes, OnePlace, OnePayload
  <2>4. Blank'
    BY <1>0, <1>2, <2>1, <2>d DEF OutputTypeOK, OutputTypes, Blank, Unbuilt, OutputAssumption
  <2>4a. Owners'
    BY <1>0, <1>2, <2>1, <2>d, <2>b DEF OutputTypeOK, OutputTypes, Owners
  <2>5. OutputRoles'
    BY <1>0, <2>b, <2>d DEF OutputTypeOK, OutputTypes, OutputRoles, Recovering, Committing, Swapping, Beside
  <2>6. MadeOnce'
    BY <1>0, <1>2, <2>1, <2>d, <2>b DEF OutputTypeOK, OutputTypes, MadeOnce
  <2>6a. Unmade'
    BY <1>0, <1>2, <2>1, <2>d, <2>b DEF OutputTypeOK, OutputTypes, Unmade, Unjournalled
  <2>7. Seen'
    BY <1>0, <2>b, <2>d, <2>e DEF OutputTypeOK, OutputTypes, Seen, Journalled
  <2>7a. Written'
    BY <1>0, <2>b, <2>d, <2>e DEF OutputTypeOK, OutputTypes, Written, Journalled, Seen
  <2>8. Built'
    BY <1>0, <1>2, <2>1, <2>d, <2>b, <1>c DEF OutputTypeOK, OutputTypes, Built, Unjournalled
  <2>9. exchanging => Exchanged'
    BY <1>0 DEF Exchanged, NoneRenames, Renaming
  <2>10. ~met' /\ edits' = 0 => Sequential'
    <3> SUFFICES ASSUME ~met', edits' = 0  PROVE Sequential'
      OBVIOUS
    <3>1. /\ Sequential /\ TargetFinal /\ OneJournal /\ OneWorks' /\ OnDisk(p)
          /\ \A o \in Publishers : o # p => place[o] = "idle" /\ place'[o] = "idle"
      BY <1>0, <2>b, AloneFacts DEF incidents, Sequential
    <3>2. /\ quar[journal[p]].record /\ quar[journal[p]].root /\ known[p] = quar[journal[p]].ver
          /\ quar[journal[p]].prior # journal[p] /\ quar[journal[p]].prior # NoDir /\ quar[journal[p]].prior \in Dirs \cup UserDirs
          /\ staging[journal[p]] \in {NoDir, journal[p], quar[journal[p]].prior}
          /\ staging[journal[p]] = journal[p] => state[journal[p]] = "final"
          /\ target # NoDir => target # staging[journal[p]] /\ target # quar[journal[p]].payload
          /\ staging[journal[p]] # NoDir => staging[journal[p]] # quar[journal[p]].payload
          /\ \A r \in Dirs : r # journal[p] => ~quar[r].record /\ quar[r].payload = NoDir
          /\ target # NoDir => target \in Dirs \cup UserDirs /\ state[target] = "final"
      BY <1>0, <3>1, JournalFacts DEF Journalled, OutputTypeOK
    <3>3. /\ target = quar[journal[p]].prior
          /\ state[quar[journal[p]].prior] = "final"
          /\ staging[journal[p]] = journal[p]
          /\ state[journal[p]] = "final"
          /\ quar[journal[p]].payload = NoDir
      BY <1>0, <1>2, <2>1, <2>d, <2>b, <3>1, <3>2 DEF OnDisk, NotExchanged, Sound
    <3> QED  BY <1>0, <1>2, <2>1, <2>d, <2>b, <3>1, <3>2, <3>3 DEF CanQuarantine, OutputAssumption
  <2> QED  BY <2>2, <2>3, <2>3a, <2>4, <2>4a, <2>5, <2>6, <2>6a, <2>7, <2>7a, <2>8, <2>9, <2>10 DEF
              OutputTypeOK
<1> QED  BY <1>1, <1>2 DEF QuarantinePrior

LEMMA PlaceStep ==
  ASSUME OutputAssumption, OutputInv, Beside, NEW p \in Publishers, Place(p)
  PROVE  OutputInv'
<1> DEFINE m == mine[p]
<1> USE DEF OutputBase, OutputInv, Beside
<1>0. /\ place[p] = "place"
      /\ mine[p] \in Dirs
      /\ journal[p] \in Dirs /\ quar[journal[p]].ver > 0
      /\ role[p] # "recover" => journal[p] = mine[p] /\ quar[mine[p]].prior = prior[p] /\ prior[p] # NoDir /\ doomed[p] = prior[p]
      /\ \A o \in Publishers : place[o] # "idle" => mine[o] \in Dirs
      /\ \A o \in Publishers \ {p} : place[o] # "idle" => mine[o] # mine[p]
      /\ \A o \in Publishers : place[o] \in Unjournalled => mine[o] \in Dirs /\ quar[mine[o]].ver = 0
      /\ \A o \in Publishers : place[o] = "removing" => journal[o] \in Dirs /\ quar[journal[o]].ver > 0
  BY WorkerFacts DEF Place, Journalled
<1>c. \A o \in Publishers : place[o] \in {"commit", "prior", "publish", "journal"} =>
        /\ mine[o] \in Dirs /\ staging[mine[o]] = mine[o] /\ target # mine[o]
        /\ \A r \in Dirs : quar[r].payload # mine[o] /\ (staging[r] = mine[o] => r = mine[o])
  BY BuiltFacts
<1>1. CASE target = NoDir /\ staging[m] # NoDir
  <2>d. /\ role[p] = "commit"
        /\ journal[p] = m
    BY <1>0 DEF OutputTypeOK, OutputTypes, OutputRoles, Recovering
  <2>1. /\ target' \in Paths
        /\ target' = staging[m]
        /\ target = NoDir
        /\ staging[m] # NoDir
        /\ staging' \in [Dirs -> Paths] /\ staging'[m] = NoDir /\ \A b \in Dirs : b # m => staging'[b] = staging[b]
        /\ UNCHANGED <<quar, state>>
    <3>1. /\ target' \in Paths
      BY <1>0, <1>1, <2>d DEF Place, StandAt, OutputTypeOK, OutputTypes, onDisk, States, Paths
    <3>2. /\ staging' \in [Dirs -> Paths] /\ staging'[m] = NoDir /\ \A b \in Dirs : b # m => staging'[b] = staging[b]
      BY <1>0, <1>1, <2>d DEF Place, StandAt, OutputTypeOK, OutputTypes, onDisk, States, Paths
    <3>3. /\ target' = staging[m]
          /\ target = NoDir
          /\ staging[m] # NoDir
          /\ UNCHANGED <<quar, state>>
      BY <1>0, <1>1, <2>d DEF Place, StandAt, OutputTypeOK, OutputTypes, onDisk, States, Paths
    <3> QED  BY <3>1, <3>2, <3>3
  <2>b. /\ place' \in [Publishers -> OutputPlaces] /\ place'[p] = "finish" /\ \A b \in Publishers : b # p => place'[b] = place[b]
        /\ UNCHANGED <<mine, prior, unseen, matched, journal, known, doomed, role, incidents>>
    <3>1. /\ place' \in [Publishers -> OutputPlaces] /\ place'[p] = "finish" /\ \A b \in Publishers : b # p => place'[b] = place[b]
      BY <1>0, <1>1, <2>d DEF Place, StandAt, OutputTypeOK, OutputTypes, OutputPlaces
    <3>2. /\ UNCHANGED <<mine, prior, unseen, matched, journal, known, doomed, role, incidents>>
      BY <1>0, <1>1, <2>d DEF Place, StandAt, OutputTypeOK, OutputTypes, Paths, Beside
    <3> QED  BY <3>1, <3>2
  <2>e. \A r \in Dirs : quar[r].ver > 0 => quar'[r].ver > 0 /\ quar'[r].prior = quar[r].prior
    BY <1>0, <1>1, <2>1, <2>d, <2>b DEF OutputTypeOK, OutputTypes
  <2>2. OutputTypes'
    BY <1>0, <1>1, <2>1, <2>d, <2>b DEF OutputTypeOK, OutputTypes, OutputPlaces, States, Paths, Quarantine,
       incidents, Beside
  <2>3. OnePlace'
    BY <1>0, <1>1, <2>1, <2>d DEF OutputTypeOK, OutputTypes, OnePlace
  <2>3a. OnePayload'
    BY <1>0, <1>1, <2>1, <2>d DEF OutputTypeOK, OutputTypes, OnePlace, OnePayload
  <2>4. Blank'
    BY <1>0, <1>1, <2>1, <2>d DEF OutputTypeOK, OutputTypes, Blank, Unbuilt, OutputAssumption
  <2>4a. Owners'
    BY <1>0, <1>1, <2>1, <2>d, <2>b DEF OutputTypeOK, OutputTypes, Owners
  <2>5. OutputRoles'
    BY <1>0, <2>b, <2>d DEF OutputTypeOK, OutputTypes, OutputRoles, Recovering, Committing, Swapping, Beside
  <2>6. MadeOnce'
    BY <1>0, <1>1, <2>1, <2>d, <2>b DEF OutputTypeOK, OutputTypes, MadeOnce
  <2>6a. Unmade'
    BY <1>0, <1>1, <2>1, <2>d, <2>b DEF OutputTypeOK, OutputTypes, Unmade, Unjournalled
  <2>7. Seen'
    BY <1>0, <2>b, <2>d, <2>e DEF OutputTypeOK, OutputTypes, Seen, Journalled
  <2>7a. Written'
    BY <1>0, <2>b, <2>d, <2>e DEF OutputTypeOK, OutputTypes, Written, Journalled, Seen
  <2>8. Built'
    BY <1>0, <1>1, <2>1, <2>d, <2>b, <1>c DEF OutputTypeOK, OutputTypes, Built, Unjournalled
  <2>9. exchanging => Exchanged'
    BY <1>0 DEF Exchanged, NoneRenames, Renaming
  <2>10. ~met' /\ edits' = 0 => Sequential'
    <3> SUFFICES ASSUME ~met', edits' = 0  PROVE Sequential'
      OBVIOUS
    <3>1. /\ Sequential /\ TargetFinal /\ OneJournal /\ OneWorks' /\ OnDisk(p)
          /\ \A o \in Publishers : o # p => place[o] = "idle" /\ place'[o] = "idle"
      BY <1>0, <2>b, AloneFacts DEF incidents, Sequential
    <3>2. /\ quar[journal[p]].record /\ quar[journal[p]].root /\ known[p] = quar[journal[p]].ver
          /\ quar[journal[p]].prior # journal[p] /\ quar[journal[p]].prior # NoDir /\ quar[journal[p]].prior \in Dirs \cup UserDirs
          /\ staging[journal[p]] \in {NoDir, journal[p], quar[journal[p]].prior}
          /\ staging[journal[p]] = journal[p] => state[journal[p]] = "final"
          /\ target # NoDir => target # staging[journal[p]] /\ target # quar[journal[p]].payload
          /\ staging[journal[p]] # NoDir => staging[journal[p]] # quar[journal[p]].payload
          /\ \A r \in Dirs : r # journal[p] => ~quar[r].record /\ quar[r].payload = NoDir
          /\ target # NoDir => target \in Dirs \cup UserDirs /\ state[target] = "final"
      BY <1>0, <3>1, JournalFacts DEF Journalled, OutputTypeOK
    <3>3. /\ target = NoDir
          /\ staging[journal[p]] = journal[p]
          /\ state[journal[p]] = "final"
          /\ quar[journal[p]].payload = quar[journal[p]].prior
          /\ state[quar[journal[p]].prior] = "final"
          /\ ~exchanging
      BY <1>0, <1>1, <2>1, <2>d, <2>b, <3>1, <3>2 DEF OnDisk, Away, TargetMissing, Sound, Exchanged,
         NoneRenames, Renaming
    <3>5. TargetFinal'
      BY <1>0, <1>1, <2>1, <2>d, <2>b, <3>1, <3>2, <3>3 DEF TargetFinal, OutputTypeOK, OutputTypes, Paths
    <3>6. OneJournal'
      <4>1. \A r \in Dirs : r # journal[p] => ~quar'[r].record /\ quar'[r].payload = NoDir
        BY <1>0, <1>1, <2>1, <2>d, <2>b, <3>1, <3>2, <3>3
      <4>2. /\ quar'[journal[p]].record /\ quar'[journal[p]].root /\ quar'[journal[p]].prior # NoDir /\ quar'[journal[p]].prior # journal[p]
            /\ staging'[journal[p]] \in {NoDir, journal[p], quar'[journal[p]].prior}
            /\ staging'[journal[p]] = journal[p] => state'[journal[p]] = "final"
        BY <1>0, <1>1, <2>1, <2>d, <2>b, <3>1, <3>2, <3>3 DEF OutputTypeOK, OutputTypes, OutputAssumption
      <4> QED  BY <1>0, <4>1, <4>2, OnlyJournal
    <3>7. place'[p] # "idle" => OnDisk(p)'
      <4>1. CASE place'[p] = "finish"
        <5>1. /\ journal[p] # NoDir
              /\ journal'[p] = journal[p]
              /\ quar'[journal[p]].record
              /\ known'[p] = quar'[journal[p]].ver
              /\ quar'[journal[p]].prior # NoDir /\ quar'[journal[p]].prior # journal[p]
          BY <1>0, <1>1, <2>1, <2>d, <2>b, <3>1, <3>2, <3>3, <4>1 DEF OutputAssumption
        <5>2. \/ exchanging' /\ target' = journal[p] /\ state'[journal[p]] = "final" /\ quar'[journal[p]].payload = NoDir /\ staging'[journal[p]] = quar'[journal[p]].prior /\ state'[quar'[journal[p]].prior] = "final"
              \/ ~exchanging' /\ target' = journal[p] /\ state'[journal[p]] = "final" /\ quar'[journal[p]].payload = quar'[journal[p]].prior /\ state'[quar'[journal[p]].prior] = "final" /\ staging'[journal[p]] = NoDir
          BY <1>0, <1>1, <2>1, <2>d, <2>b, <3>1, <3>2, <3>3, <4>1 DEF OutputAssumption
        <5> QED  BY <1>0, <4>1, <5>1, <5>2, AtFinish
      <4> QED  BY <2>b, <4>1
    <3>8. place'[p] # "idle"
      BY <2>b
    <3> QED  BY <3>1, <3>2, <3>3, <3>5, <3>6, <3>7, <3>8 DEF Sequential
  <2> QED  BY <2>2, <2>3, <2>3a, <2>4, <2>4a, <2>5, <2>6, <2>6a, <2>7, <2>7a, <2>8, <2>9, <2>10 DEF
              OutputTypeOK
<1>2. CASE ~(target = NoDir /\ staging[m] # NoDir)
  <2>d. /\ role[p] = "commit"
        /\ journal[p] = m
    BY <1>0 DEF OutputTypeOK, OutputTypes, OutputRoles, Recovering
  <2>1. /\ UNCHANGED <<target, staging, quar, state>>
    BY <1>0, <1>2, <2>d DEF Place, StandAt, onDisk, States, Paths
  <2>b. /\ place' \in [Publishers -> OutputPlaces] /\ place'[p] = "putBack" /\ \A b \in Publishers : b # p => place'[b] = place[b]
        /\ UNCHANGED <<mine, prior, unseen, matched, journal, known, doomed, role, incidents>>
    <3>1. /\ place' \in [Publishers -> OutputPlaces] /\ place'[p] = "putBack" /\ \A b \in Publishers : b # p => place'[b] = place[b]
      BY <1>0, <1>2, <2>d DEF Place, StandAt, OutputTypeOK, OutputTypes, OutputPlaces
    <3>2. /\ UNCHANGED <<mine, prior, unseen, matched, journal, known, doomed, role, incidents>>
      BY <1>0, <1>2, <2>d DEF Place, StandAt, OutputTypeOK, OutputTypes, Paths, Beside
    <3> QED  BY <3>1, <3>2
  <2>e. \A r \in Dirs : quar[r].ver > 0 => quar'[r].ver > 0 /\ quar'[r].prior = quar[r].prior
    BY <1>0, <1>2, <2>1, <2>d, <2>b DEF OutputTypeOK, OutputTypes
  <2>2. OutputTypes'
    BY <1>0, <1>2, <2>1, <2>d, <2>b DEF OutputTypeOK, OutputTypes, OutputPlaces, States, Paths, Quarantine,
       incidents, Beside
  <2>3. OnePlace'
    BY <1>0, <1>2, <2>1, <2>d DEF OutputTypeOK, OutputTypes, OnePlace
  <2>3a. OnePayload'
    BY <1>0, <1>2, <2>1, <2>d DEF OutputTypeOK, OutputTypes, OnePlace, OnePayload
  <2>4. Blank'
    BY <1>0, <1>2, <2>1, <2>d DEF OutputTypeOK, OutputTypes, Blank, Unbuilt, OutputAssumption
  <2>4a. Owners'
    BY <1>0, <1>2, <2>1, <2>d, <2>b DEF OutputTypeOK, OutputTypes, Owners
  <2>5. OutputRoles'
    BY <1>0, <2>b, <2>d DEF OutputTypeOK, OutputTypes, OutputRoles, Recovering, Committing, Swapping, Beside
  <2>6. MadeOnce'
    BY <1>0, <1>2, <2>1, <2>d, <2>b DEF OutputTypeOK, OutputTypes, MadeOnce
  <2>6a. Unmade'
    BY <1>0, <1>2, <2>1, <2>d, <2>b DEF OutputTypeOK, OutputTypes, Unmade, Unjournalled
  <2>7. Seen'
    BY <1>0, <2>b, <2>d, <2>e DEF OutputTypeOK, OutputTypes, Seen, Journalled
  <2>7a. Written'
    BY <1>0, <2>b, <2>d, <2>e DEF OutputTypeOK, OutputTypes, Written, Journalled, Seen
  <2>8. Built'
    BY <1>0, <1>2, <2>1, <2>d, <2>b, <1>c DEF OutputTypeOK, OutputTypes, Built, Unjournalled
  <2>9. exchanging => Exchanged'
    BY <1>0 DEF Exchanged, NoneRenames, Renaming
  <2>10. ~met' /\ edits' = 0 => Sequential'
    <3> SUFFICES ASSUME ~met', edits' = 0  PROVE Sequential'
      OBVIOUS
    <3>1. /\ Sequential /\ TargetFinal /\ OneJournal /\ OneWorks' /\ OnDisk(p)
          /\ \A o \in Publishers : o # p => place[o] = "idle" /\ place'[o] = "idle"
      BY <1>0, <2>b, AloneFacts DEF incidents, Sequential
    <3>2. /\ quar[journal[p]].record /\ quar[journal[p]].root /\ known[p] = quar[journal[p]].ver
          /\ quar[journal[p]].prior # journal[p] /\ quar[journal[p]].prior # NoDir /\ quar[journal[p]].prior \in Dirs \cup UserDirs
          /\ staging[journal[p]] \in {NoDir, journal[p], quar[journal[p]].prior}
          /\ staging[journal[p]] = journal[p] => state[journal[p]] = "final"
          /\ target # NoDir => target # staging[journal[p]] /\ target # quar[journal[p]].payload
          /\ staging[journal[p]] # NoDir => staging[journal[p]] # quar[journal[p]].payload
          /\ \A r \in Dirs : r # journal[p] => ~quar[r].record /\ quar[r].payload = NoDir
          /\ target # NoDir => target \in Dirs \cup UserDirs /\ state[target] = "final"
      BY <1>0, <3>1, JournalFacts DEF Journalled, OutputTypeOK
    <3>3. /\ target = NoDir
          /\ staging[journal[p]] = journal[p]
          /\ state[journal[p]] = "final"
          /\ quar[journal[p]].payload = quar[journal[p]].prior
          /\ state[quar[journal[p]].prior] = "final"
          /\ ~exchanging
      BY <1>0, <1>2, <2>1, <2>d, <2>b, <3>1, <3>2 DEF OnDisk, Away, TargetMissing, Sound, Exchanged,
         NoneRenames, Renaming
    <3> QED  BY <1>0, <1>2, <2>1, <2>d, <2>b, <3>1, <3>2, <3>3 DEF CanQuarantine, OutputAssumption
  <2> QED  BY <2>2, <2>3, <2>3a, <2>4, <2>4a, <2>5, <2>6, <2>6a, <2>7, <2>7a, <2>8, <2>9, <2>10 DEF
              OutputTypeOK
<1> QED  BY <1>1, <1>2 DEF Place

LEMMA PutBackStep ==
  ASSUME OutputAssumption, OutputInv, Beside, NEW p \in Publishers, PutBack(p)
  PROVE  OutputInv'
<1> DEFINE m == mine[p]
<1> USE DEF OutputBase, OutputInv, Beside
<1>0. /\ place[p] = "putBack"
      /\ mine[p] \in Dirs
      /\ journal[p] \in Dirs /\ quar[journal[p]].ver > 0
      /\ role[p] # "recover" => journal[p] = mine[p] /\ quar[mine[p]].prior = prior[p] /\ prior[p] # NoDir /\ doomed[p] = prior[p]
      /\ \A o \in Publishers : place[o] # "idle" => mine[o] \in Dirs
      /\ \A o \in Publishers \ {p} : place[o] # "idle" => mine[o] # mine[p]
      /\ \A o \in Publishers : place[o] \in Unjournalled => mine[o] \in Dirs /\ quar[mine[o]].ver = 0
      /\ \A o \in Publishers : place[o] = "removing" => journal[o] \in Dirs /\ quar[journal[o]].ver > 0
  BY WorkerFacts DEF PutBack, Journalled
<1>c. \A o \in Publishers : place[o] \in {"commit", "prior", "publish", "journal"} =>
        /\ mine[o] \in Dirs /\ staging[mine[o]] = mine[o] /\ target # mine[o]
        /\ \A r \in Dirs : quar[r].payload # mine[o] /\ (staging[r] = mine[o] => r = mine[o])
  BY BuiltFacts
<1>1. CASE target = NoDir /\ quar[m].payload # NoDir
  <2>a. PayloadBecomes(m, NoDir)
    BY <1>0, <1>1, PayloadFacts DEF PutBack, StandAt, OutputTypeOK, OutputTypes, Withdraw, Paths, Quarantine
  <2>d. /\ role[p] = "commit"
        /\ journal[p] = m
    BY <1>0 DEF OutputTypeOK, OutputTypes, OutputRoles, Recovering
  <2>1. /\ target' \in Paths
        /\ target' = quar[m].payload
        /\ target = NoDir
        /\ UNCHANGED <<staging, state>>
    <3>1. /\ target' \in Paths
      BY <1>0, <1>1, <2>d DEF PutBack, StandAt, OutputTypeOK, OutputTypes, Withdraw, onDisk, States, Paths
    <3>2. /\ target' = quar[m].payload
          /\ target = NoDir
          /\ UNCHANGED <<staging, state>>
      BY <1>0, <1>1, <2>d DEF PutBack, StandAt, OutputTypeOK, OutputTypes, Withdraw, onDisk, States, Paths
    <3> QED  BY <3>1, <3>2
  <2>b. /\ place' \in [Publishers -> OutputPlaces] /\ place'[p] = "unlist" /\ \A b \in Publishers : b # p => place'[b] = place[b]
        /\ role' \in [Publishers -> {"recover", "commit", "withdraw"}] /\ role'[p] = "withdraw" /\ \A b \in Publishers : b # p => role'[b] = role[b]
        /\ UNCHANGED <<mine, prior, unseen, matched, journal, known, doomed, incidents>>
    <3>1. /\ place' \in [Publishers -> OutputPlaces] /\ place'[p] = "unlist" /\ \A b \in Publishers : b # p => place'[b] = place[b]
      BY <1>0, <1>1, <2>d DEF PutBack, StandAt, OutputTypeOK, OutputTypes, Withdraw, OutputPlaces
    <3>2. /\ role' \in [Publishers -> {"recover", "commit", "withdraw"}] /\ role'[p] = "withdraw" /\ \A b \in Publishers : b # p => role'[b] = role[b]
      BY <1>0, <1>1, <2>d DEF PutBack, StandAt, OutputTypeOK, OutputTypes, Withdraw, Paths, Beside
    <3>3. /\ UNCHANGED <<mine, prior, unseen, matched, journal, known, doomed, incidents>>
      BY <1>0, <1>1, <2>d DEF PutBack, StandAt, OutputTypeOK, OutputTypes, Withdraw, Paths, Beside
    <3> QED  BY <3>1, <3>2, <3>3
  <2>e. \A r \in Dirs : quar[r].ver > 0 => quar'[r].ver > 0 /\ quar'[r].prior = quar[r].prior
    BY <1>0, <1>1, <2>a, <2>1, <2>d, <2>b DEF OutputTypeOK, OutputTypes, PayloadBecomes
  <2>2. OutputTypes'
    BY <1>0, <1>1, <2>a, <2>1, <2>d, <2>b DEF OutputTypeOK, OutputTypes, PayloadBecomes, OutputPlaces,
       States, Paths, Quarantine, incidents, Beside
  <2>3. OnePlace'
    BY <1>0, <1>1, <2>a, <2>1, <2>d DEF OutputTypeOK, OutputTypes, PayloadBecomes, OnePlace, OnePayload
  <2>3a. OnePayload'
    BY <1>0, <1>1, <2>a, <2>1, <2>d DEF OutputTypeOK, OutputTypes, PayloadBecomes, OnePlace, OnePayload
  <2>4. Blank'
    BY <1>0, <1>1, <2>a, <2>1, <2>d DEF OutputTypeOK, OutputTypes, PayloadBecomes, Blank, Unbuilt,
       OutputAssumption
  <2>4a. Owners'
    BY <1>0, <1>1, <2>a, <2>1, <2>d, <2>b DEF OutputTypeOK, OutputTypes, PayloadBecomes, Owners
  <2>5. OutputRoles'
    BY <1>0, <2>b, <2>d DEF OutputTypeOK, OutputTypes, OutputRoles, Recovering, Committing, Swapping, Beside
  <2>6. MadeOnce'
    BY <1>0, <2>a, <2>d, <2>e DEF OutputTypeOK, OutputTypes, PayloadBecomes, MadeOnce
  <2>6a. Unmade'
    BY <1>0, <2>a, <2>b, <2>d DEF OutputTypeOK, OutputTypes, PayloadBecomes, Unmade, Unjournalled
  <2>7. Seen'
    BY <1>0, <2>b, <2>d, <2>e DEF OutputTypeOK, OutputTypes, Seen, Journalled
  <2>7a. Written'
    BY <1>0, <2>b, <2>d, <2>e DEF OutputTypeOK, OutputTypes, Written, Journalled, Seen
  <2>8. Built'
    BY <1>0, <1>1, <2>a, <2>1, <2>d, <2>b, <1>c DEF OutputTypeOK, OutputTypes, Built, Unjournalled
  <2>9. exchanging => Exchanged'
    BY <1>0 DEF Exchanged, NoneRenames, Renaming
  <2>10. ~met' /\ edits' = 0 => Sequential'
    <3> SUFFICES ASSUME ~met', edits' = 0  PROVE Sequential'
      OBVIOUS
    <3>1. /\ Sequential /\ TargetFinal /\ OneJournal /\ OneWorks' /\ OnDisk(p)
          /\ \A o \in Publishers : o # p => place[o] = "idle" /\ place'[o] = "idle"
      BY <1>0, <2>b, AloneFacts DEF incidents, Sequential
    <3>2. /\ quar[journal[p]].record /\ quar[journal[p]].root /\ known[p] = quar[journal[p]].ver
          /\ quar[journal[p]].prior # journal[p] /\ quar[journal[p]].prior # NoDir /\ quar[journal[p]].prior \in Dirs \cup UserDirs
          /\ staging[journal[p]] \in {NoDir, journal[p], quar[journal[p]].prior}
          /\ staging[journal[p]] = journal[p] => state[journal[p]] = "final"
          /\ target # NoDir => target # staging[journal[p]] /\ target # quar[journal[p]].payload
          /\ staging[journal[p]] # NoDir => staging[journal[p]] # quar[journal[p]].payload
          /\ \A r \in Dirs : r # journal[p] => ~quar[r].record /\ quar[r].payload = NoDir
          /\ target # NoDir => target \in Dirs \cup UserDirs /\ state[target] = "final"
      BY <1>0, <3>1, JournalFacts DEF Journalled, OutputTypeOK
    <3>3. /\ target = NoDir
          /\ staging[journal[p]] = journal[p]
          /\ state[journal[p]] = "final"
          /\ quar[journal[p]].payload = quar[journal[p]].prior
          /\ state[quar[journal[p]].prior] = "final"
      BY <1>0, <1>1, <2>a, <2>1, <2>d, <2>b, <3>1, <3>2 DEF OnDisk, Away, TargetMissing, Sound
    <3>5. TargetFinal'
      BY <1>0, <1>1, <2>a, <2>1, <2>d, <2>b, <3>1, <3>2, <3>3 DEF TargetFinal, PayloadBecomes, OutputTypeOK,
         OutputTypes, Paths
    <3>6. OneJournal'
      <4>1. \A r \in Dirs : r # journal[p] => ~quar'[r].record /\ quar'[r].payload = NoDir
        BY <1>0, <2>a, <2>b, <2>d, <3>1, <3>2, <3>3 DEF PayloadBecomes
      <4>2. /\ quar'[journal[p]].record /\ quar'[journal[p]].root /\ quar'[journal[p]].prior # NoDir /\ quar'[journal[p]].prior # journal[p]
            /\ staging'[journal[p]] \in {NoDir, journal[p], quar'[journal[p]].prior}
            /\ staging'[journal[p]] = journal[p] => state'[journal[p]] = "final"
        BY <1>0, <1>1, <2>a, <2>1, <2>d, <2>b, <3>1, <3>2, <3>3 DEF PayloadBecomes, OutputTypeOK,
           OutputTypes, OutputAssumption
      <4> QED  BY <1>0, <4>1, <4>2, OnlyJournal
    <3>7. place'[p] # "idle" => OnDisk(p)'
      <4>1. CASE place'[p] = "unlist"
        <5>1. /\ journal[p] # NoDir
              /\ journal'[p] = journal[p]
              /\ quar'[journal[p]].record
              /\ known'[p] = quar'[journal[p]].ver
              /\ quar'[journal[p]].prior # NoDir /\ quar'[journal[p]].prior # journal[p]
          BY <1>0, <1>1, <2>a, <2>1, <2>d, <2>b, <3>1, <3>2, <3>3, <4>1 DEF PayloadBecomes, OutputAssumption
        <5>2. \/ target' = journal[p] /\ state'[journal[p]] = "final" /\ staging'[journal[p]] = NoDir /\ quar'[journal[p]].payload = NoDir /\ role'[p] # "withdraw"
              \/ target' = quar'[journal[p]].prior /\ state'[quar'[journal[p]].prior] = "final" /\ staging'[journal[p]] = NoDir /\ quar'[journal[p]].payload = NoDir /\ doomed'[p] = journal[p] /\ role'[p] = "recover"
              \/ target' = quar'[journal[p]].prior /\ state'[quar'[journal[p]].prior] = "final" /\ staging'[journal[p]] = journal[p] /\ state'[journal[p]] = "final" /\ quar'[journal[p]].payload = NoDir /\ role'[p] = "withdraw"
          BY <1>0, <1>1, <2>a, <2>1, <2>d, <2>b, <3>1, <3>2, <3>3, <4>1 DEF PayloadBecomes, OutputAssumption
        <5> QED  BY <1>0, <4>1, <5>1, <5>2, AtUnlist
      <4> QED  BY <2>b, <4>1
    <3>8. place'[p] # "idle"
      BY <2>b
    <3> QED  BY <3>1, <3>2, <3>3, <3>5, <3>6, <3>7, <3>8 DEF Sequential
  <2> QED  BY <2>2, <2>3, <2>3a, <2>4, <2>4a, <2>5, <2>6, <2>6a, <2>7, <2>7a, <2>8, <2>9, <2>10 DEF
              OutputTypeOK
<1>2. CASE ~(target = NoDir /\ quar[m].payload # NoDir)
  <2>1. place' = [place EXCEPT ![p] = "abort"] /\ UNCHANGED <<onDisk, mine, prior, unseen, matched, journal, known, doomed, role, incidents>>
    BY <1>0, <1>2 DEF PutBack, StandAt, onDisk
  <2>2. "abort" \in {"idle", "abort"} /\ ("abort" = "abort" => role[p] # "recover") /\ place[p] # "idle"
    BY <1>0 DEF OutputTypeOK, OutputTypes, OutputRoles, Recovering, Committing
  <2>3. strikes' \in 0..MaxStrikes /\ edits' = edits /\ deep' \in BOOLEAN
    BY <2>1 DEF OutputTypeOK, OutputTypes, incidents
  <2>4. OutputBase' /\ (exchanging => Exchanged')
    BY <2>1, <2>2, <2>3, GiveUp DEF onDisk
  <2>b. /\ place' \in [Publishers -> OutputPlaces] /\ place'[p] = "abort" /\ \A b \in Publishers : b # p => place'[b] = place[b]
        /\ UNCHANGED <<target, staging, quar, state, mine, prior, unseen, matched, journal, known, doomed, role, incidents>>
    BY <2>1, <2>2 DEF OutputTypeOK, OutputTypes, OutputPlaces, onDisk
  <2>10. ~met' /\ edits' = 0 => Sequential'
    <3> SUFFICES ASSUME ~met', edits' = 0  PROVE Sequential'
      OBVIOUS
    <3>1. /\ Sequential /\ TargetFinal /\ OneJournal /\ OneWorks' /\ OnDisk(p)
          /\ \A o \in Publishers : o # p => place[o] = "idle" /\ place'[o] = "idle"
      BY <1>0, <2>b, AloneFacts DEF incidents, Sequential
    <3>2. /\ quar[journal[p]].record /\ quar[journal[p]].root /\ known[p] = quar[journal[p]].ver
          /\ quar[journal[p]].prior # journal[p] /\ quar[journal[p]].prior # NoDir /\ quar[journal[p]].prior \in Dirs \cup UserDirs
          /\ staging[journal[p]] \in {NoDir, journal[p], quar[journal[p]].prior}
          /\ staging[journal[p]] = journal[p] => state[journal[p]] = "final"
          /\ target # NoDir => target # staging[journal[p]] /\ target # quar[journal[p]].payload
          /\ staging[journal[p]] # NoDir => staging[journal[p]] # quar[journal[p]].payload
          /\ \A r \in Dirs : r # journal[p] => ~quar[r].record /\ quar[r].payload = NoDir
          /\ target # NoDir => target \in Dirs \cup UserDirs /\ state[target] = "final"
      BY <1>0, <3>1, JournalFacts DEF Journalled, OutputTypeOK
    <3>3. /\ target = NoDir
          /\ staging[journal[p]] = journal[p]
          /\ state[journal[p]] = "final"
          /\ quar[journal[p]].payload = quar[journal[p]].prior
          /\ state[quar[journal[p]].prior] = "final"
      BY <1>0, <1>2, <2>2, <2>b, <3>1, <3>2 DEF OnDisk, Away, TargetMissing, Sound
    <3> QED  BY <1>0, <1>2, <2>2, <2>b, <3>1, <3>2, <3>3 DEF Sound, Published, PriorStaged,
                PriorQuarantined, PriorRemoved, NotExchanged, TargetMissing, Recoverable, SetAside, Away,
                Shelved, Tearing, Undoing, Undone, Unattended, Completing, Reverting, OutputAssumption
  <2> QED  BY <2>4, <2>10
<1> QED  BY <1>1, <1>2 DEF PutBack

LEMMA FinishStep ==
  ASSUME OutputAssumption, OutputInv, Beside, NEW p \in Publishers, Finish(p)
  PROVE  OutputInv'
<1> DEFINE m == mine[p]
<1> USE DEF OutputBase, OutputInv, Beside
<1>0. /\ place[p] = "finish"
      /\ mine[p] \in Dirs
      /\ journal[p] \in Dirs /\ quar[journal[p]].ver > 0
      /\ role[p] # "recover" => journal[p] = mine[p] /\ quar[mine[p]].prior = prior[p] /\ prior[p] # NoDir /\ doomed[p] = prior[p]
      /\ \A o \in Publishers : place[o] # "idle" => mine[o] \in Dirs
      /\ \A o \in Publishers \ {p} : place[o] # "idle" => mine[o] # mine[p]
      /\ \A o \in Publishers : place[o] \in Unjournalled => mine[o] \in Dirs /\ quar[mine[o]].ver = 0
      /\ \A o \in Publishers : place[o] = "removing" => journal[o] \in Dirs /\ quar[journal[o]].ver > 0
  BY WorkerFacts DEF Finish, Journalled
<1>c. \A o \in Publishers : place[o] \in {"commit", "prior", "publish", "journal"} =>
        /\ mine[o] \in Dirs /\ staging[mine[o]] = mine[o] /\ target # mine[o]
        /\ \A r \in Dirs : quar[r].payload # mine[o] /\ (staging[r] = mine[o] => r = mine[o])
  BY BuiltFacts
<1>1. CASE Sound(target, m) /\ SoundPrior(IF exchanging THEN staging[m] ELSE quar[m].payload, prior[p]) /\ (exchanging => CanQuarantine(m, staging[m])) /\ exchanging
  <2>a. PayloadBecomes(m, staging[m])
    BY <1>0, <1>1, PayloadFacts DEF Finish, StandAt, OutputTypeOK, OutputTypes, SoundPrior, Sound,
       CanQuarantine, Paths, Quarantine
  <2>d. /\ role[p] = "commit"
        /\ journal[p] = m
    BY <1>0 DEF OutputTypeOK, OutputTypes, OutputRoles, Recovering
  <2>1. /\ staging' \in [Dirs -> Paths] /\ staging'[m] = NoDir /\ \A b \in Dirs : b # m => staging'[b] = staging[b]
        /\ staging[m] = prior[p]
        /\ target = m
        /\ state[m] = "final"
        /\ state[prior[p]] = "final"
        /\ UNCHANGED <<target, state>>
    <3>1. /\ staging' \in [Dirs -> Paths] /\ staging'[m] = NoDir /\ \A b \in Dirs : b # m => staging'[b] = staging[b]
      BY <1>0, <1>1, <2>d DEF Finish, StandAt, OutputTypeOK, OutputTypes, SoundPrior, Sound, CanQuarantine,
         onDisk, States, Paths
    <3>2. /\ state[m] = "final"
      BY <1>0, <1>1, <2>d DEF Finish, StandAt, OutputTypeOK, OutputTypes, SoundPrior, Sound, CanQuarantine,
         onDisk, States, Paths
    <3>3. /\ state[prior[p]] = "final"
      BY <1>0, <1>1, <2>d DEF Finish, StandAt, OutputTypeOK, OutputTypes, SoundPrior, Sound, CanQuarantine,
         onDisk, States, Paths
    <3>4. /\ staging[m] = prior[p]
          /\ target = m
          /\ UNCHANGED <<target, state>>
      BY <1>0, <1>1, <2>d DEF Finish, StandAt, OutputTypeOK, OutputTypes, SoundPrior, Sound, CanQuarantine,
         onDisk, States, Paths
    <3> QED  BY <3>1, <3>2, <3>3, <3>4
  <2>b. /\ place' \in [Publishers -> OutputPlaces] /\ place'[p] = "settle" /\ \A b \in Publishers : b # p => place'[b] = place[b]
        /\ UNCHANGED <<mine, prior, unseen, matched, journal, known, doomed, role, incidents>>
    <3>1. /\ place' \in [Publishers -> OutputPlaces] /\ place'[p] = "settle" /\ \A b \in Publishers : b # p => place'[b] = place[b]
      BY <1>0, <1>1, <2>d DEF Finish, StandAt, OutputTypeOK, OutputTypes, SoundPrior, Sound, CanQuarantine,
         Paths, Beside, OutputPlaces
    <3>2. /\ UNCHANGED <<mine, prior, unseen, matched, journal, known, doomed, role, incidents>>
      BY <1>0, <1>1, <2>d DEF Finish, StandAt, OutputTypeOK, OutputTypes, SoundPrior, Sound, CanQuarantine,
         Paths, Beside
    <3> QED  BY <3>1, <3>2
  <2>e. \A r \in Dirs : quar[r].ver > 0 => quar'[r].ver > 0 /\ quar'[r].prior = quar[r].prior
    BY <1>0, <1>1, <2>a, <2>1, <2>d, <2>b DEF OutputTypeOK, OutputTypes, PayloadBecomes
  <2>2. OutputTypes'
    BY <1>0, <1>1, <2>a, <2>1, <2>d, <2>b DEF OutputTypeOK, OutputTypes, PayloadBecomes, OutputPlaces,
       States, Paths, Quarantine, incidents, Beside
  <2>3. OnePlace'
    BY <1>0, <1>1, <2>a, <2>1, <2>d DEF OutputTypeOK, OutputTypes, PayloadBecomes, OnePlace
  <2>3a. OnePayload'
    BY <1>0, <1>1, <2>a, <2>1, <2>d DEF OutputTypeOK, OutputTypes, PayloadBecomes, OnePlace, OnePayload
  <2>4. Blank'
    BY <1>0, <1>1, <2>a, <2>1, <2>d DEF OutputTypeOK, OutputTypes, PayloadBecomes, Blank, Unbuilt,
       OutputAssumption
  <2>4a. Owners'
    BY <1>0, <1>1, <2>a, <2>1, <2>d, <2>b DEF OutputTypeOK, OutputTypes, PayloadBecomes, Owners
  <2>5. OutputRoles'
    BY <1>0, <2>b, <2>d DEF OutputTypeOK, OutputTypes, OutputRoles, Recovering, Committing, Swapping, Beside
  <2>6. MadeOnce'
    BY <1>0, <2>a, <2>d, <2>e DEF OutputTypeOK, OutputTypes, PayloadBecomes, MadeOnce
  <2>6a. Unmade'
    BY <1>0, <2>a, <2>b, <2>d DEF OutputTypeOK, OutputTypes, PayloadBecomes, Unmade, Unjournalled
  <2>7. Seen'
    BY <1>0, <2>b, <2>d, <2>e DEF OutputTypeOK, OutputTypes, Seen, Journalled
  <2>7a. Written'
    BY <1>0, <2>b, <2>d, <2>e DEF OutputTypeOK, OutputTypes, Written, Journalled, Seen
  <2>8. Built'
    BY <1>0, <1>1, <2>a, <2>1, <2>d, <2>b, <1>c DEF OutputTypeOK, OutputTypes, Built, Unjournalled
  <2>9. exchanging => Exchanged'
    <3> SUFFICES ASSUME exchanging, Exchanged  PROVE Exchanged'
      OBVIOUS
    <3>1. TargetComplete'
      BY <1>0, <1>1, <2>a, <2>1, <2>d, <2>b DEF OutputTypeOK, OutputTypes, Exchanged, TargetComplete,
         ReadyBack, OnePlace, Paths, OutputAssumption
    <3>2. ReadyBack'
      BY <1>0, <1>1, <2>a, <2>1, <2>d, <2>b DEF OutputTypeOK, OutputTypes, PayloadBecomes, Exchanged,
         ReadyBack, OnePlace, Paths, OutputAssumption
    <3>3. NoneRenames'
      BY <1>0, <1>1, <2>a, <2>1, <2>d, <2>b DEF OutputTypeOK, OutputTypes, Exchanged, NoneRenames, Renaming
    <3>4. SwapsBuilt'
      BY <1>0, <1>1, <2>a, <2>1, <2>d, <2>b DEF OutputTypeOK, OutputTypes, Exchanged, SwapsBuilt, ReadyBack,
         Paths, OutputAssumption
    <3>5. AwayFirst'
      BY <1>0, <1>1, <2>a, <2>1, <2>d, <2>b DEF OutputTypeOK, OutputTypes, PayloadBecomes, Exchanged,
         AwayFirst, Paths, OutputAssumption
    <3>6. UsersOwn'
      BY <1>0, <1>1, <2>a, <2>1, <2>d, <2>b DEF Exchanged, UsersOwn, OutputAssumption
    <3> QED  BY <3>1, <3>2, <3>3, <3>4, <3>5, <3>6 DEF Exchanged
  <2>10. ~met' /\ edits' = 0 => Sequential'
    <3> SUFFICES ASSUME ~met', edits' = 0  PROVE Sequential'
      OBVIOUS
    <3>1. /\ Sequential /\ TargetFinal /\ OneJournal /\ OneWorks' /\ OnDisk(p)
          /\ \A o \in Publishers : o # p => place[o] = "idle" /\ place'[o] = "idle"
      BY <1>0, <2>b, AloneFacts DEF incidents, Sequential
    <3>2. /\ quar[journal[p]].record /\ quar[journal[p]].root /\ known[p] = quar[journal[p]].ver
          /\ quar[journal[p]].prior # journal[p] /\ quar[journal[p]].prior # NoDir /\ quar[journal[p]].prior \in Dirs \cup UserDirs
          /\ staging[journal[p]] \in {NoDir, journal[p], quar[journal[p]].prior}
          /\ staging[journal[p]] = journal[p] => state[journal[p]] = "final"
          /\ target # NoDir => target # staging[journal[p]] /\ target # quar[journal[p]].payload
          /\ staging[journal[p]] # NoDir => staging[journal[p]] # quar[journal[p]].payload
          /\ \A r \in Dirs : r # journal[p] => ~quar[r].record /\ quar[r].payload = NoDir
          /\ target # NoDir => target \in Dirs \cup UserDirs /\ state[target] = "final"
      BY <1>0, <3>1, JournalFacts DEF Journalled, OutputTypeOK
    <3>3a. exchanging => (target = journal[p] /\ state[journal[p]] = "final" /\ quar[journal[p]].payload = NoDir /\ staging[journal[p]] = quar[journal[p]].prior /\ state[quar[journal[p]].prior] = "final")
      BY <1>0, <1>1, <2>a, <2>1, <2>d, <2>b, <3>1, <3>2 DEF OnDisk, PriorStaged, Published, Sound, Shelved,
         PriorQuarantined
    <3>3b. ~exchanging => (target = journal[p] /\ state[journal[p]] = "final" /\ quar[journal[p]].payload = quar[journal[p]].prior /\ state[quar[journal[p]].prior] = "final" /\ staging[journal[p]] = NoDir)
      BY <1>0, <1>1, <2>a, <2>1, <2>d, <2>b, <3>1, <3>2 DEF OnDisk, PriorStaged, Published, Sound, Shelved,
         PriorQuarantined
    <3>5. TargetFinal'
      BY <1>0, <1>1, <2>a, <2>1, <2>d, <2>b, <3>1, <3>2, <3>3a, <3>3b DEF TargetFinal, PayloadBecomes,
         OutputTypeOK, OutputTypes, Paths
    <3>6. OneJournal'
      <4>1. \A r \in Dirs : r # journal[p] => ~quar'[r].record /\ quar'[r].payload = NoDir
        BY <1>0, <2>a, <2>b, <2>d, <3>1, <3>2, <3>3a, <3>3b DEF PayloadBecomes
      <4>2. /\ quar'[journal[p]].record /\ quar'[journal[p]].root /\ quar'[journal[p]].prior # NoDir /\ quar'[journal[p]].prior # journal[p]
            /\ staging'[journal[p]] \in {NoDir, journal[p], quar'[journal[p]].prior}
            /\ staging'[journal[p]] = journal[p] => state'[journal[p]] = "final"
        BY <1>0, <1>1, <2>a, <2>1, <2>d, <2>b, <3>1, <3>2, <3>3a, <3>3b DEF PayloadBecomes, OutputTypeOK,
           OutputTypes, OutputAssumption
      <4> QED  BY <1>0, <4>1, <4>2, OnlyJournal
    <3>7. place'[p] # "idle" => OnDisk(p)'
      <4>1. CASE place'[p] = "settle"
        <5>1. /\ journal[p] # NoDir
              /\ journal'[p] = journal[p]
              /\ quar'[journal[p]].record
              /\ known'[p] = quar'[journal[p]].ver
              /\ quar'[journal[p]].prior # NoDir /\ quar'[journal[p]].prior # journal[p]
          BY <1>0, <1>1, <2>a, <2>1, <2>d, <2>b, <3>1, <3>2, <3>3a, <3>3b, <4>1 DEF PayloadBecomes,
             OutputAssumption
        <5>2. \/ target' = journal[p] /\ state'[journal[p]] = "final" /\ quar'[journal[p]].payload = quar'[journal[p]].prior /\ state'[quar'[journal[p]].prior] = "final" /\ staging'[journal[p]] = NoDir /\ doomed'[p] = quar'[journal[p]].prior
              \/ target' = quar'[journal[p]].prior /\ state'[quar'[journal[p]].prior] = "final" /\ staging'[journal[p]] = NoDir /\ quar'[journal[p]].payload = journal[p] /\ state'[journal[p]] = "final" /\ doomed'[p] = journal[p] /\ role'[p] = "recover"
          BY <1>0, <1>1, <2>a, <2>1, <2>d, <2>b, <3>1, <3>2, <3>3a, <3>3b, <4>1 DEF PayloadBecomes,
             OutputAssumption
        <5> QED  BY <1>0, <4>1, <5>1, <5>2, AtPurge
      <4> QED  BY <2>b, <4>1
    <3>8. place'[p] # "idle"
      BY <2>b
    <3> QED  BY <3>1, <3>2, <3>3a, <3>3b, <3>5, <3>6, <3>7, <3>8 DEF Sequential
  <2> QED  BY <2>2, <2>3, <2>3a, <2>4, <2>4a, <2>5, <2>6, <2>6a, <2>7, <2>7a, <2>8, <2>9, <2>10 DEF
              OutputTypeOK
<1>2. CASE Sound(target, m) /\ SoundPrior(IF exchanging THEN staging[m] ELSE quar[m].payload, prior[p]) /\ (exchanging => CanQuarantine(m, staging[m])) /\ ~exchanging
  <2>a. PayloadBecomes(m, quar[m].payload)
    BY <1>0, <1>2, PayloadFacts DEF Finish, StandAt, OutputTypeOK, OutputTypes, SoundPrior, Sound,
       Quarantine, Paths, Quarantine
  <2>d. /\ role[p] = "commit"
        /\ journal[p] = m
    BY <1>0 DEF OutputTypeOK, OutputTypes, OutputRoles, Recovering
  <2>1. /\ quar[m].payload = prior[p]
        /\ target = m
        /\ state[m] = "final"
        /\ state[prior[p]] = "final"
        /\ UNCHANGED <<target, staging, state>>
        /\ staging' = staging
    <3>1. /\ quar[m].payload = prior[p]
      BY <1>0, <1>2, <2>d DEF Finish, StandAt, OutputTypeOK, OutputTypes, SoundPrior, Sound, Quarantine,
         onDisk, States, Paths
    <3>2. /\ state[m] = "final"
      BY <1>0, <1>2, <2>d DEF Finish, StandAt, OutputTypeOK, OutputTypes, SoundPrior, Sound, Quarantine,
         onDisk, States, Paths
    <3>3. /\ state[prior[p]] = "final"
      BY <1>0, <1>2, <2>d DEF Finish, StandAt, OutputTypeOK, OutputTypes, SoundPrior, Sound, Quarantine,
         onDisk, States, Paths
    <3>4. /\ staging' = staging
      BY <1>0, <1>2, <2>d DEF Finish, StandAt, OutputTypeOK, OutputTypes, SoundPrior, Sound, Quarantine,
         onDisk, States, Paths
    <3>5. /\ target = m
          /\ UNCHANGED <<target, staging, state>>
      BY <1>0, <1>2, <2>d DEF Finish, StandAt, OutputTypeOK, OutputTypes, SoundPrior, Sound, Quarantine,
         onDisk, States, Paths
    <3> QED  BY <3>1, <3>2, <3>3, <3>4, <3>5
  <2>b. /\ place' \in [Publishers -> OutputPlaces] /\ place'[p] = "settle" /\ \A b \in Publishers : b # p => place'[b] = place[b]
        /\ UNCHANGED <<mine, prior, unseen, matched, journal, known, doomed, role, incidents>>
    <3>1. /\ place' \in [Publishers -> OutputPlaces] /\ place'[p] = "settle" /\ \A b \in Publishers : b # p => place'[b] = place[b]
      BY <1>0, <1>2, <2>d DEF Finish, StandAt, OutputTypeOK, OutputTypes, SoundPrior, Sound, Quarantine,
         Paths, Beside, OutputPlaces
    <3>2. /\ UNCHANGED <<mine, prior, unseen, matched, journal, known, doomed, role, incidents>>
      BY <1>0, <1>2, <2>d DEF Finish, StandAt, OutputTypeOK, OutputTypes, SoundPrior, Sound, Quarantine,
         Paths, Beside
    <3> QED  BY <3>1, <3>2
  <2>e. \A r \in Dirs : quar[r].ver > 0 => quar'[r].ver > 0 /\ quar'[r].prior = quar[r].prior
    BY <1>0, <1>2, <2>a, <2>1, <2>d, <2>b DEF OutputTypeOK, OutputTypes, PayloadBecomes
  <2>2. OutputTypes'
    BY <1>0, <1>2, <2>a, <2>1, <2>d, <2>b DEF OutputTypeOK, OutputTypes, PayloadBecomes, OutputPlaces,
       States, Paths, Quarantine, incidents, Beside
  <2>3. OnePlace'
    BY <1>0, <1>2, <2>a, <2>1, <2>d DEF OutputTypeOK, OutputTypes, PayloadBecomes, OnePlace
  <2>3a. OnePayload'
    BY <1>0, <1>2, <2>a, <2>1, <2>d DEF OutputTypeOK, OutputTypes, PayloadBecomes, OnePlace, OnePayload
  <2>4. Blank'
    BY <1>0, <1>2, <2>a, <2>1, <2>d DEF OutputTypeOK, OutputTypes, PayloadBecomes, Blank, Unbuilt,
       OutputAssumption
  <2>4a. Owners'
    BY <1>0, <1>2, <2>a, <2>1, <2>d, <2>b DEF OutputTypeOK, OutputTypes, PayloadBecomes, Owners
  <2>5. OutputRoles'
    BY <1>0, <2>b, <2>d DEF OutputTypeOK, OutputTypes, OutputRoles, Recovering, Committing, Swapping, Beside
  <2>6. MadeOnce'
    BY <1>0, <2>a, <2>d, <2>e DEF OutputTypeOK, OutputTypes, PayloadBecomes, MadeOnce
  <2>6a. Unmade'
    BY <1>0, <2>a, <2>b, <2>d DEF OutputTypeOK, OutputTypes, PayloadBecomes, Unmade, Unjournalled
  <2>7. Seen'
    BY <1>0, <2>b, <2>d, <2>e DEF OutputTypeOK, OutputTypes, Seen, Journalled
  <2>7a. Written'
    BY <1>0, <2>b, <2>d, <2>e DEF OutputTypeOK, OutputTypes, Written, Journalled, Seen
  <2>8. Built'
    BY <1>0, <1>2, <2>a, <2>1, <2>d, <2>b, <1>c DEF OutputTypeOK, OutputTypes, Built, Unjournalled
  <2>9. exchanging => Exchanged'
    <3> SUFFICES ASSUME exchanging, Exchanged  PROVE Exchanged'
      OBVIOUS
    <3>1. TargetComplete'
      BY <1>0, <1>2, <2>a, <2>1, <2>d, <2>b DEF OutputTypeOK, OutputTypes, Exchanged, TargetComplete,
         ReadyBack, OnePlace, Paths, OutputAssumption
    <3>2. ReadyBack'
      BY <1>0, <1>2, <2>a, <2>1, <2>d, <2>b DEF OutputTypeOK, OutputTypes, PayloadBecomes, Exchanged,
         ReadyBack, OnePlace, Paths, OutputAssumption
    <3>3. NoneRenames'
      BY <1>0, <1>2, <2>a, <2>1, <2>d, <2>b DEF OutputTypeOK, OutputTypes, Exchanged, NoneRenames, Renaming
    <3>4. SwapsBuilt'
      BY <1>0, <1>2, <2>a, <2>1, <2>d, <2>b DEF OutputTypeOK, OutputTypes, Exchanged, SwapsBuilt, ReadyBack,
         Paths, OutputAssumption
    <3>5. AwayFirst'
      BY <1>0, <1>2, <2>a, <2>1, <2>d, <2>b DEF OutputTypeOK, OutputTypes, PayloadBecomes, Exchanged,
         AwayFirst, Paths, OutputAssumption
    <3>6. UsersOwn'
      BY <1>0, <1>2, <2>a, <2>1, <2>d, <2>b DEF Exchanged, UsersOwn, OutputAssumption
    <3> QED  BY <3>1, <3>2, <3>3, <3>4, <3>5, <3>6 DEF Exchanged
  <2>10. ~met' /\ edits' = 0 => Sequential'
    <3> SUFFICES ASSUME ~met', edits' = 0  PROVE Sequential'
      OBVIOUS
    <3>1. /\ Sequential /\ TargetFinal /\ OneJournal /\ OneWorks' /\ OnDisk(p)
          /\ \A o \in Publishers : o # p => place[o] = "idle" /\ place'[o] = "idle"
      BY <1>0, <2>b, AloneFacts DEF incidents, Sequential
    <3>2. /\ quar[journal[p]].record /\ quar[journal[p]].root /\ known[p] = quar[journal[p]].ver
          /\ quar[journal[p]].prior # journal[p] /\ quar[journal[p]].prior # NoDir /\ quar[journal[p]].prior \in Dirs \cup UserDirs
          /\ staging[journal[p]] \in {NoDir, journal[p], quar[journal[p]].prior}
          /\ staging[journal[p]] = journal[p] => state[journal[p]] = "final"
          /\ target # NoDir => target # staging[journal[p]] /\ target # quar[journal[p]].payload
          /\ staging[journal[p]] # NoDir => staging[journal[p]] # quar[journal[p]].payload
          /\ \A r \in Dirs : r # journal[p] => ~quar[r].record /\ quar[r].payload = NoDir
          /\ target # NoDir => target \in Dirs \cup UserDirs /\ state[target] = "final"
      BY <1>0, <3>1, JournalFacts DEF Journalled, OutputTypeOK
    <3>3a. exchanging => (target = journal[p] /\ state[journal[p]] = "final" /\ quar[journal[p]].payload = NoDir /\ staging[journal[p]] = quar[journal[p]].prior /\ state[quar[journal[p]].prior] = "final")
      BY <1>0, <1>2, <2>a, <2>1, <2>d, <2>b, <3>1, <3>2 DEF OnDisk, PriorStaged, Published, Sound, Shelved,
         PriorQuarantined
    <3>3b. ~exchanging => (target = journal[p] /\ state[journal[p]] = "final" /\ quar[journal[p]].payload = quar[journal[p]].prior /\ state[quar[journal[p]].prior] = "final" /\ staging[journal[p]] = NoDir)
      BY <1>0, <1>2, <2>a, <2>1, <2>d, <2>b, <3>1, <3>2 DEF OnDisk, PriorStaged, Published, Sound, Shelved,
         PriorQuarantined
    <3>5. TargetFinal'
      BY <1>0, <1>2, <2>a, <2>1, <2>d, <2>b, <3>1, <3>2, <3>3a, <3>3b DEF TargetFinal, PayloadBecomes,
         OutputTypeOK, OutputTypes, Paths
    <3>6. OneJournal'
      <4>1. \A r \in Dirs : r # journal[p] => ~quar'[r].record /\ quar'[r].payload = NoDir
        BY <1>0, <2>a, <2>b, <2>d, <3>1, <3>2, <3>3a, <3>3b DEF PayloadBecomes
      <4>2. /\ quar'[journal[p]].record /\ quar'[journal[p]].root /\ quar'[journal[p]].prior # NoDir /\ quar'[journal[p]].prior # journal[p]
            /\ staging'[journal[p]] \in {NoDir, journal[p], quar'[journal[p]].prior}
            /\ staging'[journal[p]] = journal[p] => state'[journal[p]] = "final"
        BY <1>0, <1>2, <2>a, <2>1, <2>d, <2>b, <3>1, <3>2, <3>3a, <3>3b DEF PayloadBecomes, OutputTypeOK,
           OutputTypes, OutputAssumption
      <4> QED  BY <1>0, <4>1, <4>2, OnlyJournal
    <3>7. place'[p] # "idle" => OnDisk(p)'
      <4>1. CASE place'[p] = "settle"
        <5>1. /\ journal[p] # NoDir
              /\ journal'[p] = journal[p]
              /\ quar'[journal[p]].record
              /\ known'[p] = quar'[journal[p]].ver
              /\ quar'[journal[p]].prior # NoDir /\ quar'[journal[p]].prior # journal[p]
          BY <1>0, <1>2, <2>a, <2>1, <2>d, <2>b, <3>1, <3>2, <3>3a, <3>3b, <4>1 DEF PayloadBecomes,
             OutputAssumption
        <5>2. \/ target' = journal[p] /\ state'[journal[p]] = "final" /\ quar'[journal[p]].payload = quar'[journal[p]].prior /\ state'[quar'[journal[p]].prior] = "final" /\ staging'[journal[p]] = NoDir /\ doomed'[p] = quar'[journal[p]].prior
              \/ target' = quar'[journal[p]].prior /\ state'[quar'[journal[p]].prior] = "final" /\ staging'[journal[p]] = NoDir /\ quar'[journal[p]].payload = journal[p] /\ state'[journal[p]] = "final" /\ doomed'[p] = journal[p] /\ role'[p] = "recover"
          BY <1>0, <1>2, <2>a, <2>1, <2>d, <2>b, <3>1, <3>2, <3>3a, <3>3b, <4>1 DEF PayloadBecomes,
             OutputAssumption
        <5> QED  BY <1>0, <4>1, <5>1, <5>2, AtPurge
      <4> QED  BY <2>b, <4>1
    <3>8. place'[p] # "idle"
      BY <2>b
    <3> QED  BY <3>1, <3>2, <3>3a, <3>3b, <3>5, <3>6, <3>7, <3>8 DEF Sequential
  <2> QED  BY <2>2, <2>3, <2>3a, <2>4, <2>4a, <2>5, <2>6, <2>6a, <2>7, <2>7a, <2>8, <2>9, <2>10 DEF
              OutputTypeOK
<1>3. CASE ~(Sound(target, m) /\ SoundPrior(IF exchanging THEN staging[m] ELSE quar[m].payload, prior[p]) /\ (exchanging => CanQuarantine(m, staging[m])))
  <2>1. place' = [place EXCEPT ![p] = "abort"] /\ UNCHANGED <<onDisk, mine, prior, unseen, matched, journal, known, doomed, role, incidents>>
    BY <1>0, <1>3 DEF Finish, StandAt, onDisk
  <2>2. "abort" \in {"idle", "abort"} /\ ("abort" = "abort" => role[p] # "recover") /\ place[p] # "idle"
    BY <1>0 DEF OutputTypeOK, OutputTypes, OutputRoles, Recovering, Committing
  <2>3. strikes' \in 0..MaxStrikes /\ edits' = edits /\ deep' \in BOOLEAN
    BY <2>1 DEF OutputTypeOK, OutputTypes, incidents
  <2>4. OutputBase' /\ (exchanging => Exchanged')
    BY <2>1, <2>2, <2>3, GiveUp DEF onDisk
  <2>b. /\ place' \in [Publishers -> OutputPlaces] /\ place'[p] = "abort" /\ \A b \in Publishers : b # p => place'[b] = place[b]
        /\ UNCHANGED <<target, staging, quar, state, mine, prior, unseen, matched, journal, known, doomed, role, incidents>>
    BY <2>1, <2>2 DEF OutputTypeOK, OutputTypes, OutputPlaces, onDisk
  <2>10. ~met' /\ edits' = 0 => Sequential'
    <3> SUFFICES ASSUME ~met', edits' = 0  PROVE Sequential'
      OBVIOUS
    <3>1. /\ Sequential /\ TargetFinal /\ OneJournal /\ OneWorks' /\ OnDisk(p)
          /\ \A o \in Publishers : o # p => place[o] = "idle" /\ place'[o] = "idle"
      BY <1>0, <2>b, AloneFacts DEF incidents, Sequential
    <3>2. /\ quar[journal[p]].record /\ quar[journal[p]].root /\ known[p] = quar[journal[p]].ver
          /\ quar[journal[p]].prior # journal[p] /\ quar[journal[p]].prior # NoDir /\ quar[journal[p]].prior \in Dirs \cup UserDirs
          /\ staging[journal[p]] \in {NoDir, journal[p], quar[journal[p]].prior}
          /\ staging[journal[p]] = journal[p] => state[journal[p]] = "final"
          /\ target # NoDir => target # staging[journal[p]] /\ target # quar[journal[p]].payload
          /\ staging[journal[p]] # NoDir => staging[journal[p]] # quar[journal[p]].payload
          /\ \A r \in Dirs : r # journal[p] => ~quar[r].record /\ quar[r].payload = NoDir
          /\ target # NoDir => target \in Dirs \cup UserDirs /\ state[target] = "final"
      BY <1>0, <3>1, JournalFacts DEF Journalled, OutputTypeOK
    <3>3a. exchanging => (target = journal[p] /\ state[journal[p]] = "final" /\ quar[journal[p]].payload = NoDir /\ staging[journal[p]] = quar[journal[p]].prior /\ state[quar[journal[p]].prior] = "final")
      BY <1>0, <1>3, <2>2, <2>b, <3>1, <3>2 DEF OnDisk, PriorStaged, Published, Sound, Shelved,
         PriorQuarantined
    <3>3b. ~exchanging => (target = journal[p] /\ state[journal[p]] = "final" /\ quar[journal[p]].payload = quar[journal[p]].prior /\ state[quar[journal[p]].prior] = "final" /\ staging[journal[p]] = NoDir)
      BY <1>0, <1>3, <2>2, <2>b, <3>1, <3>2 DEF OnDisk, PriorStaged, Published, Sound, Shelved,
         PriorQuarantined
    <3> QED  BY <1>0, <1>3, <2>2, <2>b, <3>1, <3>2, <3>3a, <3>3b DEF Sound, Published, PriorStaged,
                PriorQuarantined, PriorRemoved, NotExchanged, TargetMissing, Recoverable, SetAside, Away,
                Shelved, Tearing, Undoing, Undone, Unattended, Completing, Reverting, SoundPrior,
                CanQuarantine, OutputAssumption
  <2> QED  BY <2>4, <2>10
<1> QED  BY <1>1, <1>2, <1>3 DEF Finish

LEMMA AbortStep ==
  ASSUME OutputAssumption, OutputInv, Beside, NEW p \in Publishers, AbortOutput(p)
  PROVE  OutputInv'
<1> DEFINE m == mine[p]
<1> USE DEF OutputBase, OutputInv, Beside
<1>0. /\ place[p] = "abort"
      /\ mine[p] \in Dirs
      /\ \A o \in Publishers : place[o] # "idle" => mine[o] \in Dirs
      /\ \A o \in Publishers \ {p} : place[o] # "idle" => mine[o] # mine[p]
      /\ \A o \in Publishers : place[o] \in Unjournalled => mine[o] \in Dirs /\ quar[mine[o]].ver = 0
      /\ \A o \in Publishers : place[o] = "removing" => journal[o] \in Dirs /\ quar[journal[o]].ver > 0
  BY WorkerFacts DEF AbortOutput, Journalled
<1>c. \A o \in Publishers : place[o] \in {"commit", "prior", "publish", "journal"} =>
        /\ mine[o] \in Dirs /\ staging[mine[o]] = mine[o] /\ target # mine[o]
        /\ \A r \in Dirs : quar[r].payload # mine[o] /\ (staging[r] = mine[o] => r = mine[o])
  BY BuiltFacts
<1>1. CASE Intact(p)
  <2>d. /\ role[p] # "recover"
    BY <1>0 DEF OutputTypeOK, OutputTypes, OutputRoles, Recovering
  <2>g. /\ target # m /\ \A q \in Dirs : quar[q].payload # m /\ (staging[q] = m => q = m)
        /\ state[m] # "free"
    BY <1>0, <2>d, <1>1 DEF Intact, OutputTypeOK, OnePlace, OutputAssumption, Owners, Blank, Unbuilt
  <2>1. /\ staging' \in [Dirs -> Paths] /\ staging'[m] = NoDir /\ \A b \in Dirs : b # m => staging'[b] = staging[b]
        /\ state' \in [(Dirs \cup UserDirs) -> States] /\ state'[m] = "gone" /\ \A b \in (Dirs \cup UserDirs) : b # m => state'[b] = state[b]
        /\ staging[m] = m
        /\ UNCHANGED <<target, quar>>
    <3>1. /\ staging' \in [Dirs -> Paths] /\ staging'[m] = NoDir /\ \A b \in Dirs : b # m => staging'[b] = staging[b]
      BY <1>0, <1>1, <2>d DEF AbortOutput, StandAt, OutputTypeOK, OutputTypes, Intact, onDisk, States, Paths
    <3>2. /\ state' \in [(Dirs \cup UserDirs) -> States] /\ state'[m] = "gone" /\ \A b \in (Dirs \cup UserDirs) : b # m => state'[b] = state[b]
      BY <1>0, <1>1, <2>d DEF AbortOutput, StandAt, OutputTypeOK, OutputTypes, Intact, onDisk, States, Paths
    <3>3. /\ staging[m] = m
          /\ UNCHANGED <<target, quar>>
      BY <1>0, <1>1, <2>d DEF AbortOutput, StandAt, OutputTypeOK, OutputTypes, Intact, onDisk, States, Paths
    <3> QED  BY <3>1, <3>2, <3>3
  <2>b. /\ place' \in [Publishers -> OutputPlaces] /\ place'[p] = "idle" /\ \A b \in Publishers : b # p => place'[b] = place[b]
        /\ UNCHANGED <<mine, prior, unseen, matched, journal, known, doomed, role, incidents>>
    <3>1. /\ place' \in [Publishers -> OutputPlaces] /\ place'[p] = "idle" /\ \A b \in Publishers : b # p => place'[b] = place[b]
      BY <1>0, <1>1, <2>d DEF AbortOutput, StandAt, OutputTypeOK, OutputTypes, Intact, Paths, Beside, OutputPlaces
    <3>2. /\ UNCHANGED <<mine, prior, unseen, matched, journal, known, doomed, role, incidents>>
      BY <1>0, <1>1, <2>d DEF AbortOutput, StandAt, OutputTypeOK, OutputTypes, Intact, Paths, Beside
    <3> QED  BY <3>1, <3>2
  <2>e. \A r \in Dirs : quar[r].ver > 0 => quar'[r].ver > 0 /\ quar'[r].prior = quar[r].prior
    BY <1>0, <1>1, <2>1, <2>d, <2>g, <2>b DEF OutputTypeOK, OutputTypes
  <2>2. OutputTypes'
    BY <1>0, <1>1, <2>1, <2>d, <2>g, <2>b DEF OutputTypeOK, OutputTypes, OutputPlaces, States, Paths,
       Quarantine, incidents, Beside
  <2>3. OnePlace'
    BY <1>0, <1>1, <2>1, <2>d, <2>g DEF OutputTypeOK, OutputTypes, OnePlace
  <2>3a. OnePayload'
    BY <1>0, <1>1, <2>1, <2>d, <2>g DEF OutputTypeOK, OutputTypes, OnePlace, OnePayload
  <2>4. Blank'
    BY <1>0, <1>1, <2>1, <2>d, <2>g DEF OutputTypeOK, OutputTypes, Blank, Unbuilt, OutputAssumption
  <2>4a. Owners'
    BY <1>0, <1>1, <2>1, <2>d, <2>g, <2>b DEF OutputTypeOK, OutputTypes, Owners
  <2>5. OutputRoles'
    BY <1>0, <2>b, <2>d DEF OutputTypeOK, OutputTypes, OutputRoles, Recovering, Committing, Swapping, Beside
  <2>6. MadeOnce'
    BY <1>0, <1>1, <2>1, <2>d, <2>g, <2>b DEF OutputTypeOK, OutputTypes, MadeOnce
  <2>6a. Unmade'
    BY <1>0, <1>1, <2>1, <2>d, <2>g, <2>b DEF OutputTypeOK, OutputTypes, Unmade, Unjournalled
  <2>7. Seen'
    BY <1>0, <2>b, <2>d, <2>e DEF OutputTypeOK, OutputTypes, Seen, Journalled
  <2>7a. Written'
    BY <1>0, <2>b, <2>d, <2>e DEF OutputTypeOK, OutputTypes, Written, Journalled, Seen
  <2>8. Built'
    BY <1>0, <1>1, <2>1, <2>d, <2>g, <2>b, <1>c DEF OutputTypeOK, OutputTypes, Built, Unjournalled
  <2>9. exchanging => Exchanged'
    <3> SUFFICES ASSUME exchanging, Exchanged  PROVE Exchanged'
      OBVIOUS
    <3>1. TargetComplete'
      BY <1>0, <1>1, <2>1, <2>d, <2>g, <2>b DEF OutputTypeOK, OutputTypes, Exchanged, TargetComplete,
         ReadyBack, OnePlace, Paths, OutputAssumption
    <3>2. ReadyBack'
      BY <1>0, <1>1, <2>1, <2>d, <2>g, <2>b DEF OutputTypeOK, OutputTypes, Exchanged, ReadyBack, OnePlace,
         Paths, OutputAssumption
    <3>3. NoneRenames'
      BY <1>0, <1>1, <2>1, <2>d, <2>g, <2>b DEF OutputTypeOK, OutputTypes, Exchanged, NoneRenames, Renaming
    <3>4. SwapsBuilt'
      BY <1>0, <1>1, <2>1, <2>d, <2>g, <2>b DEF OutputTypeOK, OutputTypes, Exchanged, SwapsBuilt, ReadyBack,
         Paths, OutputAssumption
    <3>5. AwayFirst'
      BY <1>0, <1>1, <2>1, <2>d, <2>g, <2>b DEF OutputTypeOK, OutputTypes, Exchanged, AwayFirst, OnePlace,
         Paths, OutputAssumption
    <3>6. UsersOwn'
      BY <1>0, <1>1, <2>1, <2>d, <2>g, <2>b DEF Exchanged, UsersOwn, OutputAssumption
    <3> QED  BY <3>1, <3>2, <3>3, <3>4, <3>5, <3>6 DEF Exchanged
  <2>10. ~met' /\ edits' = 0 => Sequential'
    <3> SUFFICES ASSUME ~met', edits' = 0  PROVE Sequential'
      OBVIOUS
    <3>1. /\ Sequential /\ TargetFinal /\ OneJournal /\ OneWorks' /\ OnDisk(p)
          /\ \A o \in Publishers : o # p => place[o] = "idle" /\ place'[o] = "idle"
      BY <1>0, <2>b, AloneFacts DEF incidents, Sequential
    <3>3a. \A r \in Dirs : quar[r].record => Unattended(r) /\ (deep \/ staging[r] # mine[p])
      BY <1>0, <1>1, <2>1, <2>d, <2>g, <2>b, <3>1 DEF OnDisk, Unattended, SetAside, Recoverable, PriorStaged,
         PriorQuarantined, PriorRemoved, NotExchanged, TargetMissing, Published, Sound
    <3>5. TargetFinal'
      BY <1>0, <1>1, <2>1, <2>d, <2>g, <2>b, <3>1, <3>3a DEF TargetFinal, OutputTypeOK, OutputTypes, Paths
    <3>6. OneJournal'
      <4>1. \A r \in Dirs : staging'[r] # NoDir => staging'[r] = staging[r] /\ (staging[r] = r => state'[r] = state[r])
        BY <1>0, <1>1, <2>1, <2>d, <2>g, <2>b DEF OutputTypeOK, OutputTypes
      <4> QED  BY <2>1, <4>1, <3>1, <3>3a, StagingGone
    <3>7. place'[p] # "idle" => OnDisk(p)'
      <4> QED  BY <2>b
    <3>8. place'[p] = "idle" => \A q \in Dirs : quar'[q].record => Unattended(q)'
      <4> SUFFICES ASSUME NEW r \in Dirs, quar[r].record  PROVE Unattended(r)'
        BY <2>1
      <4>1. Unattended(r) /\ (deep \/ staging[r] # m)
        BY <3>1, <3>3a
      <4>2. /\ target' = target /\ quar'[r].payload = quar[r].payload /\ quar'[r].prior = quar[r].prior
            /\ (target # NoDir => state'[target] = state[target]) /\ (deep' <=> deep)
            /\ quar[r].payload # NoDir => state'[quar[r].payload] = state[quar[r].payload]
            /\ ~deep => staging'[r] = staging[r] /\ (staging[r] # NoDir => state'[staging[r]] = state[staging[r]])
        BY <1>0, <1>1, <2>1, <2>d, <2>g, <2>b, <4>1 DEF OutputTypeOK, OutputTypes, Paths, incidents
      <4> QED  BY <4>1, <4>2, AbandonedBeside
    <3> QED  BY <3>1, <3>3a, <3>5, <3>6, <3>7, <3>8 DEF Sequential
  <2> QED  BY <2>2, <2>3, <2>3a, <2>4, <2>4a, <2>5, <2>6, <2>6a, <2>7, <2>7a, <2>8, <2>9, <2>10 DEF
              OutputTypeOK
<1>2. CASE ~Intact(p)
  <2>1. place' = [place EXCEPT ![p] = "idle"] /\ UNCHANGED <<onDisk, mine, prior, unseen, matched, journal, known, doomed, role, incidents>>
    BY <1>0, <1>2 DEF AbortOutput, StandAt, onDisk
  <2>2. "idle" \in {"idle", "abort"} /\ ("idle" = "abort" => role[p] # "recover") /\ place[p] # "idle"
    BY <1>0 DEF OutputTypeOK, OutputTypes, OutputRoles, Recovering, Committing
  <2>3. strikes' \in 0..MaxStrikes /\ edits' = edits /\ deep' \in BOOLEAN
    BY <2>1 DEF OutputTypeOK, OutputTypes, incidents
  <2>4. OutputBase' /\ (exchanging => Exchanged')
    BY <2>1, <2>2, <2>3, GiveUp DEF onDisk
  <2>b. /\ place' \in [Publishers -> OutputPlaces] /\ place'[p] = "idle" /\ \A b \in Publishers : b # p => place'[b] = place[b]
        /\ UNCHANGED <<target, staging, quar, state, mine, prior, unseen, matched, journal, known, doomed, role, incidents>>
    BY <2>1, <2>2 DEF OutputTypeOK, OutputTypes, OutputPlaces, onDisk
  <2>10. ~met' /\ edits' = 0 => Sequential'
    <3> SUFFICES ASSUME ~met', edits' = 0  PROVE Sequential'
      OBVIOUS
    <3>1. /\ Sequential /\ TargetFinal /\ OneJournal /\ OneWorks' /\ OnDisk(p)
          /\ \A o \in Publishers : o # p => place[o] = "idle" /\ place'[o] = "idle"
      BY <1>0, <2>b, AloneFacts DEF incidents, Sequential
    <3>3a. \A r \in Dirs : quar[r].record => Unattended(r) /\ (deep \/ staging[r] # mine[p])
      BY <1>0, <1>2, <2>2, <2>b, <3>1 DEF OnDisk, Unattended, SetAside, Recoverable, PriorStaged,
         PriorQuarantined, PriorRemoved, NotExchanged, TargetMissing, Published, Sound
    <3>5. TargetFinal'
      BY <1>0, <1>2, <2>2, <2>b, <3>1, <3>3a DEF TargetFinal, OutputTypeOK, OutputTypes, Paths
    <3>6. OneJournal'
      BY <1>0, <1>2, <2>2, <2>b, <3>1, <3>3a DEF OneJournal, OutputTypeOK, OutputTypes, Paths
    <3>7. place'[p] # "idle" => OnDisk(p)'
      <4> QED  BY <2>b, <2>2
    <3>8. place'[p] = "idle" => \A q \in Dirs : quar'[q].record => Unattended(q)'
      BY <1>0, <1>2, <2>2, <2>b, <3>1, <3>3a DEF OnDisk, NoJournal, Journalled, Unjournalled, Sound,
         Published, PriorStaged, PriorQuarantined, PriorRemoved, NotExchanged, TargetMissing, Recoverable,
         SetAside, Away, Shelved, Tearing, Undoing, Undone, Unattended, Completing, Reverting, incidents
    <3> QED  BY <3>1, <3>3a, <3>5, <3>6, <3>7, <3>8 DEF Sequential
  <2> QED  BY <2>4, <2>10
<1> QED  BY <1>1, <1>2 DEF AbortOutput

LEMMA BeginOutputStep ==
  ASSUME OutputAssumption, OutputInv, Beside, NEW p \in Publishers, BeginOutput(p)
  PROVE  OutputInv'
<1> USE DEF OutputBase, OutputInv
<1>1. PICK d \in Dirs :
        /\ state[d] = "free" /\ \A o \in Publishers : place[o] = "idle" \/ mine[o] # d
        /\ mine' = [mine EXCEPT ![p] = d]
  BY DEF BeginOutput
<1>2. /\ mine' \in [Publishers -> Paths] /\ mine'[p] = d /\ \A b \in Publishers : b # p => mine'[b] = mine[b]
      /\ place' \in [Publishers -> OutputPlaces] /\ place'[p] = "scan" /\ \A b \in Publishers : b # p => place'[b] = place[b]
  BY <1>1 DEF BeginOutput, StandAt, OutputTypeOK, OutputTypes, Paths, OutputPlaces
<1>3. /\ role' \in [Publishers -> {"recover", "commit", "withdraw"}] /\ role'[p] = "recover"
      /\ \A b \in Publishers : b # p => role'[b] = role[b]
      /\ matched' \in [Publishers -> BOOLEAN]
  BY DEF BeginOutput, OutputTypeOK, OutputTypes
<1>4. /\ unseen' \in [Publishers -> SUBSET Dirs] /\ unseen'[p] = {q \in Dirs : quar[q].root}
      /\ \A b \in Publishers : b # p => unseen'[b] = unseen[b]
  BY DEF BeginOutput, OutputTypeOK, OutputTypes
<1>5. place[p] = "idle" /\ UNCHANGED <<target, staging, quar, state, prior, journal, known, doomed, incidents>>
  BY DEF BeginOutput, onDisk
<1>6. OutputTypes'
  BY <1>2, <1>3, <1>4, <1>5 DEF OutputTypeOK, OutputTypes, incidents, Beside
<1>7. OnePlace' /\ OnePayload' /\ MadeOnce'
  BY <1>5 DEF OutputTypeOK, OnePlace, OnePayload, MadeOnce
<1>8. Blank'
  BY <1>5 DEF Blank, Unbuilt
<1>9. Owners'
  BY <1>1, <1>2, <1>3, <1>5 DEF Owners
<1>10. OutputRoles'
  BY <1>2, <1>3 DEF OutputRoles, Recovering, Swapping, Beside
<1>11. Unmade' /\ Written' /\ Built'
  BY <1>2, <1>3, <1>5 DEF Unmade, Written, Built, Unjournalled, Journalled
<1>12. \A q \in unseen'[p] : quar[q].ver > 0
  BY <1>4 DEF OutputTypeOK, OutputTypes, MadeOnce
<1>13. Seen'
  BY <1>2, <1>4, <1>5, <1>12 DEF Seen, Journalled
<1>14. exchanging => Exchanged'
  <2> SUFFICES ASSUME exchanging, Exchanged  PROVE Exchanged'
    OBVIOUS
  <2>1. TargetComplete' /\ ReadyBack' /\ UsersOwn'
    BY <1>5 DEF Exchanged, TargetComplete, ReadyBack, UsersOwn
  <2>2. NoneRenames'
    BY <1>2 DEF Exchanged, NoneRenames, Renaming
  <2>3. SwapsBuilt'
    BY <1>2, <1>5 DEF Exchanged, SwapsBuilt
  <2>4. AwayFirst'
    BY <1>2, <1>5 DEF Exchanged, AwayFirst
  <2> QED  BY <2>1, <2>2, <2>3, <2>4 DEF Exchanged
<1>15. ~met' /\ edits' = 0 => Sequential'
  <2> SUFFICES ASSUME ~met', edits' = 0  PROVE Sequential'
    OBVIOUS
  <2>1. \A o \in Publishers : o # p => place'[o] = "idle"
    BY <1>2 DEF Beside
  <2>2. (\A o \in Publishers : place[o] = "idle") /\ OneWorks'
    BY <1>2, <1>5, <2>1 DEF OneWorks
  <2>3. Sequential /\ TargetFinal /\ OneJournal /\ \A r \in Dirs : quar[r].record => Unattended(r)
    BY <1>5, <2>2 DEF Beside, Sequential, incidents
  <2>4. \A r \in Dirs : quar[r].record => r \in unseen'[p] /\ Unattended(r)
    BY <1>4, <2>3 DEF OneJournal
  <2>5. OnDisk(p)'
    BY <1>2, <1>5, <2>4, AtScan
  <2>6. TargetFinal' /\ OneJournal'
    BY <1>5, <2>3 DEF TargetFinal, OneJournal
  <2> QED  BY <1>2, <2>1, <2>2, <2>5, <2>6 DEF Sequential
<1> QED  BY <1>6, <1>7, <1>8, <1>9, <1>10, <1>11, <1>13, <1>14, <1>15 DEF OutputTypeOK, Beside

\* What a publisher that is alone would leave behind where it stands.
LEMMA LeftBehind ==
  ASSUME OutputAssumption, OutputInv, Sequential, NEW p \in Publishers, place[p] # "idle",
         NEW r \in Dirs, quar[r].record
  PROVE  /\ Recoverable(r) \/ ((deep \/ Delicate(p)) /\ SetAside(r))
         /\ \/ role[p] = "recover" \/ deep \/ Orphans(p) \/ staging[r] # mine[p]
            \/ place[p] \in {"exchange", "quarantine", "place"}
<1>1. OnDisk(p)
  BY DEF Sequential
<1>2. /\ target # NoDir => target \in Dirs \cup UserDirs
      /\ place[p] \in Journalled => journal[p] \in Dirs /\ (role[p] # "recover" => journal[p] = mine[p])
      /\ mine[p] \in Dirs /\ mine[p] # NoDir
  BY WorkerFacts DEF OutputInv, OutputBase, OutputTypeOK, OutputTypes, Paths, OutputAssumption
<1>3. place[p] \in Committing \cup Recovering \cup {"unlist", "rmdir", "abort"}
  BY DEF OutputInv, OutputBase, OutputTypeOK, OutputTypes, OutputRoles
<1>4. CASE place[p] \in {"check", "rmdir"} \/ place[p] \in Unjournalled
  BY <1>1, <1>4 DEF OnDisk, NoJournal
<1>5. CASE place[p] \in {"scan", "abort"}
  <2>1. Unattended(r)
    BY <1>1, <1>5 DEF OnDisk
  <2>2. place[p] = "abort" => deep \/ staging[r] # mine[p]
    BY <1>1, <1>5 DEF OnDisk
  <2>3. place[p] = "scan" => role[p] = "recover"
    BY DEF OutputInv, OutputBase, OutputRoles, OutputTypeOK, OutputTypes, Committing
  <2> QED  BY <1>5, <2>1, <2>2, <2>3 DEF Unattended
<1>6. CASE place[p] \in Journalled /\ place[p] # "rmdir"
  <2>1. r = journal[p]
    BY <1>1, <1>2, <1>6 DEF OnDisk, Sequential, OneJournal
  <2>2. quar[r].prior # NoDir /\ quar[r].prior # r /\ r # NoDir
    BY DEF Sequential, OneJournal, OutputAssumption
  <2>3. CASE place[p] = "judge"
    <3>1. Unattended(r)
      BY <1>1, <2>1, <2>3 DEF OnDisk
    <3>2. role[p] = "recover"
      BY <2>3 DEF OutputInv, OutputBase, OutputRoles, OutputTypeOK, OutputTypes, Committing
    <3> QED  BY <3>1, <3>2 DEF Unattended
  <2>4. CASE place[p] \in {"restore", "restored", "moveBack", "move"}
    <3>1. role[p] = "recover"
      BY <2>4 DEF OutputInv, OutputBase, OutputRoles, OutputTypeOK, OutputTypes, Committing
    <3>2. Away(r) \/ NotExchanged(r) \/ PriorStaged(r)
      BY <1>1, <2>1, <2>4 DEF OnDisk
    <3> QED  BY <3>1, <3>2 DEF Recoverable, Away
  <2>5. CASE place[p] \in {"note", "settle", "purge"}
    <3>1. Shelved(r) \/ (Undoing(r) /\ Reverting(p))
      BY <1>1, <2>1, <2>5 DEF OnDisk
    <3>2. CASE Shelved(r)
      BY <1>2, <3>2 DEF Shelved, Recoverable
    <3>3. CASE Undoing(r) /\ Reverting(p)
      <4>1. place[p] # "settle"
        BY <3>3 DEF Reverting, OutputInv, OutputBase, OutputRoles, Recovering
      <4>2. Delicate(p) /\ SetAside(r) /\ role[p] = "recover"
        BY <2>1, <2>5, <3>3, <4>1 DEF Delicate, Reverting, SetAside, Undoing, Sound
      <4> QED  BY <4>2
    <3> QED  BY <3>1, <3>2, <3>3
  <2>6. CASE place[p] = "removing"
    <3>1. target # NoDir /\ staging[r] = NoDir
      BY <1>1, <2>1, <2>2, <2>6 DEF OnDisk, Tearing, Undoing, Published, Sound
    <3> QED  BY <1>2, <2>6, <3>1 DEF SetAside, Delicate
  <2>7. CASE place[p] = "unlist"
    <3>1. CASE role[p] = "withdraw"
      <4>1. NotExchanged(r)
        BY <1>1, <2>1, <2>7, <3>1 DEF OnDisk
      <4> QED  BY <2>7, <3>1, <4>1 DEF Recoverable, Orphans
    <3>2. CASE role[p] # "withdraw"
      <4>1. PriorRemoved(r) \/ (Reverting(p) /\ Undone(r))
        BY <1>1, <2>1, <2>7, <3>2 DEF OnDisk
      <4>2. staging[r] # mine[p]
        BY <1>2, <4>1 DEF PriorRemoved, Undone
      <4>3. CASE PriorRemoved(r)
        BY <4>2, <4>3 DEF Recoverable
      <4>4. CASE Reverting(p) /\ Undone(r)
        BY <2>1, <2>7, <4>2, <4>4 DEF Reverting, Undone, Delicate, SetAside, Sound
      <4> QED  BY <4>1, <4>3, <4>4
    <3> QED  BY <3>1, <3>2
  <2>8. CASE place[p] \in {"exchange", "quarantine", "unwind"}
    BY <1>1, <2>1, <2>8 DEF OnDisk, Recoverable, Orphans
  <2>9. CASE place[p] \in {"verify", "rollback", "exchanged"}
    <3>1. PriorStaged(r)
      BY <1>1, <2>1, <2>9 DEF OnDisk
    <3>2. role[p] = "recover" \/ staging[r] # mine[p]
      BY <1>2, <1>6, <2>1, <2>2, <3>1 DEF PriorStaged, Sound
    <3> QED  BY <3>1, <3>2 DEF Recoverable
  <2>10. CASE place[p] \in {"quarantined", "place", "putBack"}
    <3>1. Away(r)
      BY <1>1, <2>1, <2>10 DEF OnDisk
    <3> QED  BY <2>10, <3>1 DEF Away, Recoverable, Orphans
  <2>11. CASE place[p] = "finish"
    <3>1. PriorStaged(r) \/ Shelved(r)
      BY <1>1, <2>1, <2>11 DEF OnDisk
    <3>2. role[p] = "recover" \/ staging[r] # mine[p]
      BY <1>2, <1>6, <2>1, <2>2, <3>1 DEF PriorStaged, Sound, Shelved
    <3> QED  BY <3>1, <3>2 DEF Recoverable, Shelved
  <2> QED  BY <1>6, <2>3, <2>4, <2>5, <2>6, <2>7, <2>8, <2>9, <2>10, <2>11 DEF Journalled
<1> QED  BY <1>3, <1>4, <1>5, <1>6 DEF Committing, Recovering, Journalled, Unjournalled

\* A fault that leaves the disk as it is leaves what can be recovered, or is deep.
LEMMA FaultLeaves ==
  ASSUME OutputAssumption, OutputInv, Sequential, NEW p \in Publishers, place[p] # "idle",
         UNCHANGED <<target, staging, quar, state>>, deep \/ Delicate(p) => deep',
         NEW r \in Dirs, quar[r].record
  PROVE  Unattended(r)'
<1>1. Recoverable(r) \/ ((deep \/ Delicate(p)) /\ SetAside(r))
  BY LeftBehind
<1>2. CASE Recoverable(r)
  BY <1>2 DEF Unattended, Recoverable, PriorStaged, PriorQuarantined, PriorRemoved, NotExchanged,
              TargetMissing, Published, Sound
<1>3. CASE (deep \/ Delicate(p)) /\ SetAside(r)
  BY <1>3 DEF Unattended, SetAside, Sound
<1> QED  BY <1>1, <1>2, <1>3

LEMMA PublisherDiesStep ==
  ASSUME OutputAssumption, OutputInv, Beside, NEW p \in Publishers, PublisherDies(p)
  PROVE  OutputInv'
<1>1. /\ place' = [place EXCEPT ![p] = "idle"] /\ place[p] # "idle"
      /\ UNCHANGED <<onDisk, mine, prior, unseen, matched, journal, known, doomed, role>>
  BY DEF PublisherDies, Struck, StandAt, onDisk
<1>2. strikes' \in 0..MaxStrikes /\ edits' = edits /\ deep' \in BOOLEAN
  BY DEF OutputInv, OutputBase, OutputTypeOK, OutputTypes, OutputAssumption, PublisherDies, Struck
<1>3. OutputBase' /\ (exchanging => Exchanged')
  BY <1>1, <1>2, GiveUp
<1>4. /\ place' \in [Publishers -> OutputPlaces] /\ place'[p] = "idle"
      /\ \A b \in Publishers : b # p => place'[b] = place[b]
      /\ UNCHANGED <<target, staging, quar, state>>
  BY <1>1 DEF OutputInv, OutputBase, OutputTypeOK, OutputTypes, OutputPlaces, onDisk
<1>5. ~met' /\ edits' = 0 => Sequential'
  <2> SUFFICES ASSUME ~met', edits' = 0  PROVE Sequential'
    OBVIOUS
  <2>1. /\ Sequential /\ TargetFinal /\ OneJournal /\ OneWorks'
        /\ \A o \in Publishers : o # p => place[o] = "idle" /\ place'[o] = "idle"
    BY <1>1, <1>2, <1>4, AloneFacts DEF Sequential
  <2>2. deep \/ Delicate(p) => deep'
    BY DEF PublisherDies, Struck
  <2>3. ASSUME NEW r \in Dirs, quar'[r].record  PROVE Unattended(r)'
    BY <1>1, <1>4, <2>1, <2>2, <2>3, FaultLeaves
  <2>4. TargetFinal' /\ OneJournal'
    BY <1>4, <2>1 DEF TargetFinal, OneJournal
  <2> QED  BY <1>4, <2>1, <2>3, <2>4 DEF Sequential
<1> QED  BY <1>3, <1>5 DEF OutputInv, Beside

LEMMA StepFailsStep ==
  ASSUME OutputAssumption, OutputInv, Beside, NEW p \in Publishers, StepFails(p)
  PROVE  OutputInv'
<1> DEFINE m == mine[p]
<1> USE DEF OutputBase, OutputInv
<1>0. /\ place[p] \notin {"abort", "idle"} /\ m \in Dirs
      /\ place[p] \in Journalled =>
           /\ journal[p] \in Dirs /\ quar[journal[p]].ver > 0
           /\ role[p] # "recover" => journal[p] = m /\ quar[m].prior = prior[p] /\ prior[p] # NoDir /\ doomed[p] = prior[p]
      /\ \A o \in Publishers : place[o] # "idle" => mine[o] \in Dirs
      /\ \A o \in Publishers \ {p} : place[o] # "idle" => mine[o] # m
      /\ \A o \in Publishers : place[o] \in Unjournalled => mine[o] \in Dirs /\ quar[mine[o]].ver = 0
  BY WorkerFacts DEF StepFails
<1>1. /\ strikes' \in 0..MaxStrikes /\ edits' = edits /\ deep' \in BOOLEAN
      /\ UNCHANGED <<target, staging, state, mine, prior, unseen, matched, doomed, journal, known>>
  BY DEF OutputTypeOK, OutputTypes, OutputAssumption, StepFails, Struck
<1>2. /\ place[p] \in {"exchange", "quarantine", "place"} => role[p] = "commit"
      /\ place[p] = "journal" => role[p] = "commit"
      /\ role[p] = "withdraw" => place[p] \in {"unlist", "rmdir"}
  BY <1>0 DEF OutputTypeOK, OutputTypes, OutputRoles, Recovering
<1>3. /\ place' = [place EXCEPT ![p] = FailedAt(p)]
      /\ role' = [role EXCEPT ![p] = IF place[p] \in {"exchange", "quarantine"} THEN "withdraw" ELSE @]
  BY DEF StepFails, Struck, StandAt
<1>4. /\ FailedAt(p) \in {"idle", "abort", "unlist", "putBack"}
      /\ role[p] = "recover" => FailedAt(p) = "idle"
      /\ FailedAt(p) = "unlist" <=> place[p] \in {"exchange", "quarantine"}
      /\ FailedAt(p) = "putBack" <=> place[p] = "place"
      /\ place[p] = "journal" => FailedAt(p) = "abort"
  <2>1. CASE role[p] = "recover"
    BY <1>2, <2>1 DEF FailedAt
  <2>2. CASE role[p] # "recover"
    BY <1>2, <2>2 DEF FailedAt, AfterFailedRmdir
  <2> QED  BY <2>1, <2>2
<1>5. /\ place' \in [Publishers -> OutputPlaces] /\ place'[p] = FailedAt(p) /\ \A b \in Publishers : b # p => place'[b] = place[b]
      /\ role' \in [Publishers -> {"recover", "commit", "withdraw"}]
      /\ role'[p] = IF place[p] \in {"exchange", "quarantine"} THEN "withdraw" ELSE role[p]
      /\ \A b \in Publishers : b # p => role'[b] = role[b]
  BY <1>3, <1>4 DEF OutputTypeOK, OutputTypes, OutputPlaces
<1> HIDE DEF FailedAt
<1>6. OutputRoles'
  BY <1>0, <1>2, <1>4, <1>5 DEF OutputTypeOK, OutputTypes, OutputRoles, Recovering, Committing, Swapping,
     Beside
<1>7. Owners'
  BY <1>0, <1>1, <1>2, <1>5 DEF Owners
<1>8. \A o \in Publishers : place'[o] \in Unjournalled => o # p /\ place[o] = place'[o]
  BY <1>4, <1>5 DEF Unjournalled
<1>9. Built'
  BY <1>1, <1>8 DEF Built, Unjournalled
<1>10. place'[p] \in Journalled => place[p] \in Journalled /\ place[p] # "journal" /\ role[p] # "recover" /\ place'[p] # "idle"
  BY <1>2, <1>4, <1>5 DEF Journalled
<1>11. CASE place[p] = "journal"
  <2>1. JournalMade(m, prior[p]) /\ quar[m].ver = 0 /\ staging[m] = m /\ state[m] = "final"
    BY <1>0, <1>11, MadeFacts DEF StepFails, OutputTypeOK, OutputTypes, Quarantine, Paths, Unjournalled, Built
  <2>2. quar[m].payload = NoDir /\ \A r \in Dirs : quar[r].payload # m
    BY <1>11, <2>1, BuiltFacts DEF MadeOnce
  <2>3. \A r \in Dirs : quar'[r].payload = quar[r].payload
    BY <2>1, <2>2 DEF JournalMade
  <2>4. \A r \in Dirs : quar[r].ver > 0 => quar'[r].ver > 0 /\ quar'[r].prior = quar[r].prior
    BY <2>1 DEF JournalMade
  <2>5. OutputTypes'
    BY <1>1, <1>5, <2>1 DEF OutputTypeOK, OutputTypes, JournalMade, Quarantine, Beside
  <2>6. OnePlace' /\ OnePayload'
    BY <1>1, <2>3 DEF OutputTypeOK, OnePlace, OnePayload
  <2>7. Blank'
    BY <1>1, <2>1, <2>3 DEF Blank, Unbuilt, JournalMade
  <2>8. MadeOnce'
    BY <2>1, <2>3 DEF MadeOnce, JournalMade
  <2>9. Unmade'
    BY <1>0, <1>1, <1>8, <2>1 DEF Unmade, JournalMade, Unjournalled
  <2>10. place'[p] = "abort" /\ \A o \in Publishers : place'[o] \in Journalled => place'[o] = place[o]
    BY <1>4, <1>5, <1>11 DEF Journalled
  <2>11. Seen'
    <3>1. \A o \in Publishers : place'[o] # "idle" => place[o] # "idle"
      BY <1>0, <1>5
    <3>2. \A o \in Publishers : unseen[o] \subseteq Dirs
      BY DEF OutputTypeOK, OutputTypes
    <3> QED  BY <1>1, <2>4, <2>10, <3>1, <3>2 DEF Seen
  <2>12. \A o \in Publishers : place'[o] = "journal" => place[o] = "journal"
    BY <1>5, <2>10
  <2>13. \A o \in Publishers : place'[o] \in Journalled => o # p /\ place[o] = place'[o] /\ role'[o] = role[o]
    BY <1>5, <2>10 DEF Journalled
  <2>14. Written'
    <3>1. \A o \in Publishers : place[o] \in Journalled /\ role[o] # "recover" =>
            mine[o] \in Dirs /\ quar[mine[o]].ver > 0
      BY <1>0 DEF Seen, Written, Journalled
    <3> QED  BY <1>1, <2>4, <2>12, <2>13, <3>1 DEF Written
  <2>20. exchanging => Exchanged'
    <3> SUFFICES ASSUME exchanging, Exchanged  PROVE Exchanged'
      OBVIOUS
    <3>1. TargetComplete' /\ UsersOwn'
      BY <1>1 DEF Exchanged, TargetComplete, UsersOwn
    <3>2. ReadyBack'
      BY <1>1, <2>3 DEF Exchanged, ReadyBack
    <3>3. \A o \in Publishers : place'[o] = place[o] \/ place'[o] = "abort"
      BY <1>5, <2>10
    <3>4. NoneRenames' /\ SwapsBuilt'
      BY <1>1, <3>3 DEF Exchanged, NoneRenames, SwapsBuilt, Renaming
    <3>5. \A o \in Publishers : place[o] = "removing" => journal[o] \in Dirs
      BY DEF Seen, Journalled
    <3>6. AwayFirst'
      BY <1>1, <2>3, <3>3, <3>5 DEF Exchanged, AwayFirst
    <3> QED  BY <3>1, <3>2, <3>4, <3>6 DEF Exchanged
  <2>30. ~met' /\ edits' = 0 => Sequential'
    <3> SUFFICES ASSUME ~met', edits' = 0  PROVE Sequential'
      OBVIOUS
    <3>1. /\ Sequential /\ TargetFinal /\ OneJournal /\ OneWorks' /\ OnDisk(p)
          /\ \A o \in Publishers : o # p => place[o] = "idle" /\ place'[o] = "idle"
      BY <1>0, <1>1, <1>5, AloneFacts DEF Sequential
    <3>2. /\ prior[p] # NoDir /\ prior[p] # m /\ target = prior[p] /\ m # NoDir
          /\ \A r \in Dirs : ~quar[r].record /\ quar[r].payload = NoDir
      BY <1>0, <1>11, <3>1, BuiltFacts, JournalFacts DEF OnDisk, Unjournalled, Written, OutputAssumption
    <3>3. \A r \in Dirs : r # m => ~quar'[r].record /\ quar'[r].payload = NoDir
      BY <2>1, <2>3, <3>2 DEF JournalMade
    <3>4. OneJournal'
      BY <1>0, <1>1, <2>1, <3>2, <3>3, OnlyJournal DEF JournalMade
    <3>5. TargetFinal'
      BY <1>1, <3>1 DEF TargetFinal
    <3>6. deep' /\ staging'[m] = m
      BY <1>1, <1>11, <2>1 DEF StepFails, Struck, Orphans
    <3>7. \A r \in Dirs : quar'[r].record => r = m
      BY <3>3
    <3>8. \A r \in Dirs : Unattended(r)'
      BY <1>1, <3>2, <3>6 DEF Unattended, SetAside
    <3>9. OnDisk(p)'
      BY <2>10, <3>6, <3>8 DEF OnDisk, Journalled, Unjournalled
    <3> QED  BY <2>10, <3>1, <3>4, <3>5, <3>9 DEF Sequential
  <2> QED  BY <1>6, <1>7, <1>9, <2>5, <2>6, <2>7, <2>8, <2>9, <2>11, <2>14, <2>20, <2>30 DEF OutputTypeOK,
              Beside
<1>12. CASE place[p] # "journal"
  <2>1. quar' = quar
    BY <1>12 DEF StepFails
  <2>2. OutputTypes'
    BY <1>1, <1>5, <2>1 DEF OutputTypeOK, OutputTypes, Beside
  <2>3. OnePlace' /\ OnePayload' /\ MadeOnce'
    BY <1>1, <2>1 DEF OutputTypeOK, OnePlace, OnePayload, MadeOnce
  <2>4. Blank'
    BY <1>1, <2>1 DEF Blank, Unbuilt
  <2>5. Unmade'
    BY <1>1, <1>8, <2>1 DEF Unmade
  <2>6. Seen'
    BY <1>0, <1>1, <1>5, <1>10, <2>1 DEF Seen
  <2>7. Written'
    BY <1>0, <1>1, <1>4, <1>5, <1>10, <2>1 DEF Written
  <2>20. exchanging => Exchanged'
    <3> SUFFICES ASSUME exchanging, Exchanged  PROVE Exchanged'
      OBVIOUS
    <3>1. TargetComplete' /\ UsersOwn' /\ ReadyBack'
      BY <1>1, <2>1 DEF Exchanged, TargetComplete, UsersOwn, ReadyBack
    <3>2. place'[p] # "putBack"
      BY <1>4, <1>5 DEF Exchanged, NoneRenames, Renaming
    <3>3. \A o \in Publishers : place'[o] = place[o] \/ place'[o] \in {"idle", "abort", "unlist"}
      BY <1>4, <1>5, <3>2
    <3>4. NoneRenames' /\ SwapsBuilt'
      BY <1>1, <3>3 DEF Exchanged, NoneRenames, SwapsBuilt, Renaming
    <3>5. AwayFirst'
      BY <1>1, <2>1, <3>3 DEF Exchanged, AwayFirst
    <3> QED  BY <3>1, <3>4, <3>5 DEF Exchanged
  <2>30. ~met' /\ edits' = 0 => Sequential'
    <3> SUFFICES ASSUME ~met', edits' = 0  PROVE Sequential'
      OBVIOUS
    <3>1. /\ Sequential /\ TargetFinal /\ OneJournal /\ OneWorks' /\ OnDisk(p)
          /\ \A o \in Publishers : o # p => place[o] = "idle" /\ place'[o] = "idle"
      BY <1>0, <1>1, <1>5, AloneFacts DEF Sequential
    <3>2. TargetFinal' /\ OneJournal'
      BY <1>1, <2>1, <3>1 DEF TargetFinal, OneJournal
    <3>3. deep \/ Delicate(p) \/ Orphans(p) => deep'
      BY DEF StepFails, Struck
    <3>4. ASSUME NEW r \in Dirs, quar'[r].record  PROVE Unattended(r)'
      BY <1>0, <1>1, <2>1, <3>1, <3>3, <3>4, FaultLeaves
    <3>5. CASE place'[p] = "idle"
      BY <3>1, <3>2, <3>4, <3>5 DEF Sequential
    <3>6. CASE place'[p] = "abort"
      <4>1. \A r \in Dirs : quar'[r].record => deep' \/ staging'[r] # mine'[p]
        <5> SUFFICES ASSUME NEW r \in Dirs, quar[r].record  PROVE deep' \/ staging[r] # mine[p]
          BY <1>1, <2>1
        <5>1. role[p] # "recover" /\ place[p] \notin {"exchange", "quarantine", "place"}
          BY <1>4, <1>5, <3>6
        <5> QED  BY <1>0, <3>1, <3>3, <5>1, LeftBehind
      <4>2. OnDisk(p)'
        BY <3>4, <3>6, <4>1 DEF OnDisk, Journalled, Unjournalled
      <4> QED  BY <3>1, <3>2, <3>6, <4>2 DEF Sequential
    <3>7. CASE place'[p] \in {"unlist", "putBack"}
      <4>1. /\ place[p] \in {"exchange", "quarantine", "place"} /\ journal[p] \in Dirs
            /\ place'[p] = "unlist" => place[p] \in {"exchange", "quarantine"} /\ role'[p] = "withdraw"
            /\ place'[p] = "putBack" => place[p] = "place"
        BY <1>0, <1>4, <1>5, <3>7 DEF Journalled
      <4>2. /\ quar[journal[p]].record /\ known[p] = quar[journal[p]].ver
            /\ quar[journal[p]].prior # NoDir /\ quar[journal[p]].prior # journal[p] /\ journal[p] # NoDir
        BY <3>1, <4>1, JournalFacts DEF Journalled, OutputAssumption
      <4>3. CASE place'[p] = "unlist"
        <5>1. NotExchanged(journal[p])
          BY <3>1, <4>1, <4>3 DEF OnDisk
        <5>2. OnDisk(p)'
          BY <1>1, <2>1, <4>1, <4>2, <4>3, <5>1, AtUnlist DEF NotExchanged, Sound
        <5> QED  BY <3>1, <3>2, <4>3, <5>2 DEF Sequential
      <4>4. CASE place'[p] = "putBack"
        <5>1. Away(journal[p])
          BY <3>1, <4>1, <4>4 DEF OnDisk
        <5>2. OnDisk(p)'
          BY <1>1, <2>1, <4>1, <4>2, <4>4, <5>1, AtPlace DEF Away, TargetMissing, Sound
        <5> QED  BY <3>1, <3>2, <4>4, <5>2 DEF Sequential
      <4> QED  BY <3>7, <4>3, <4>4
    <3> QED  BY <1>4, <1>5, <3>5, <3>6, <3>7
  <2> QED  BY <1>6, <1>7, <1>9, <2>2, <2>3, <2>4, <2>5, <2>6, <2>7, <2>20, <2>30 DEF OutputTypeOK, Beside
<1> QED  BY <1>11, <1>12

\* The user moves nothing that a publication is building or has set aside.
LEMMA EditStep ==
  ASSUME OutputAssumption, OutputInv, Beside, Edit
  PROVE  OutputInv'
<1> USE DEF OutputBase, OutputInv
<1>1. /\ target' \in Paths /\ target' \in {target} \cup UserDirs
      /\ target' # target => \A q \in Dirs : target' # staging[q] /\ target' # quar[q].payload
      /\ UNCHANGED <<staging, quar, working, strikes, deep, place, mine, prior, unseen, matched, journal, known, doomed, role>>
      /\ edits' \in 0..MaxEdits
  BY DEF Edit, working, OutputTypeOK, OutputTypes, Paths, OutputAssumption
<1>2. /\ state' \in [Dirs \cup UserDirs -> States]
      /\ \A d \in Dirs \cup UserDirs : state'[d] = state[d] \/ (d = target /\ target # NoDir /\ state'[d] \in {"edited", "gone"})
  BY DEF Edit, OutputTypeOK, OutputTypes, Paths, States, OutputAssumption
<1>3. OutputTypes'
  BY <1>1, <1>2 DEF OutputTypeOK, OutputTypes, Beside
<1>4. OnePlace' /\ OnePayload'
  BY <1>1 DEF OutputTypeOK, OnePlace, OnePayload
<1>5. Blank'
  BY <1>1, <1>2 DEF Blank, Unbuilt, OutputAssumption
<1>6. \A d \in Dirs : state'[d] = "free" <=> state[d] = "free"
  BY <1>2 DEF Blank, Unbuilt
<1>7. Owners'
  BY <1>1, <1>6 DEF Owners
<1>8. OutputRoles' /\ MadeOnce'
  BY <1>1 DEF OutputRoles, MadeOnce, Beside
<1>9. Unmade' /\ Seen' /\ Written'
  BY <1>1 DEF Unmade, Seen, Written
<1>10. Built'
  BY <1>1, <1>2, BuiltFacts DEF Built
<1>11. exchanging => Exchanged'
  <2> SUFFICES ASSUME exchanging, Exchanged  PROVE Exchanged'
    OBVIOUS
  <2>1. UsersOwn'
    <3>1. \A u \in UserDirs : u = target => state'[u] = "edited"
      BY <1>2 DEF Edit, Exchanged, UsersOwn
    <3> QED  BY <1>2, <3>1 DEF Exchanged, UsersOwn
  <2>2. TargetComplete'
    <3>1. CASE target' = target
      BY <1>1, <1>2, <3>1 DEF Edit, OutputTypeOK, OutputTypes, Exchanged, TargetComplete, Paths
    <3>2. CASE target' \in UserDirs
      BY <2>1, <3>2 DEF UsersOwn, TargetComplete
    <3> QED  BY <1>1, <3>1, <3>2
  <2>3. \A q \in Dirs :
        /\ staging[q] # NoDir => staging[q] # target /\ state'[staging[q]] = state[staging[q]]
        /\ quar[q].payload # NoDir => state'[quar[q].payload] = state[quar[q].payload]
    BY <1>2 DEF OutputTypeOK, OutputTypes, OnePlace, Paths
  <2>9. \A q \in Dirs : staging[q] = q => state'[q] = state[q]
    BY <1>2 DEF OutputTypeOK, OnePlace, OutputAssumption
  <2>4. ReadyBack'
    <3>1. \A q \in Dirs : quar'[q].payload # NoDir => staging'[q] = NoDir
      BY <1>1 DEF Exchanged, ReadyBack
    <3>2. \A q \in Dirs : staging'[q] = q => state'[q] \in {"staging", "final", "edited"}
      BY <1>1, <2>9 DEF Exchanged, ReadyBack
    <3>3. ASSUME NEW q \in Dirs, staging[q] \notin {NoDir, q}  PROVE state'[staging[q]] \in {"final", "edited"}
      <4>1. state'[staging[q]] = state[staging[q]]
        BY <2>3, <3>3
      <4> QED  BY <3>3, <4>1 DEF Exchanged, ReadyBack
    <3> QED  BY <1>1, <3>1, <3>2, <3>3 DEF ReadyBack
  <2>5. NoneRenames'
    BY <1>1 DEF Exchanged, NoneRenames
  <2>6. \A o \in Publishers :
        /\ place[o] = "exchange" => mine[o] \in Dirs
        /\ place[o] = "removing" => journal[o] \in Dirs
    BY DEF Owners, Seen, Journalled
  <2>7. SwapsBuilt'
    BY <1>1, <2>9, <2>6 DEF Exchanged, SwapsBuilt
  <2>8. AwayFirst'
    BY <1>1, <2>3, <2>6 DEF Exchanged, AwayFirst
  <2> QED  BY <2>1, <2>2, <2>4, <2>5, <2>7, <2>8 DEF Exchanged
<1>12. edits' # 0
  BY DEF Edit, OutputTypeOK, OutputTypes
<1> QED  BY <1>3, <1>4, <1>5, <1>7, <1>8, <1>9, <1>10, <1>11, <1>12 DEF OutputTypeOK, Beside

LEMMA PublicationStep ==
  ASSUME OutputAssumption, OutputInv, Beside, NEW p \in Publishers, Publication(p)
  PROVE  OutputInv'
  BY LoadJournalStep, JudgeStep, RestoreStep, RestoredStep, MoveStagingStep, NoteStep, PurgeStep,
     RemovePayloadStep, UnlistStep, RmdirStep, BuildStep, FinalizeOutputStep, InspectPriorStep,
     PublishNewStep, VerifyNewStep, CreateJournalStep, ExchangePathsStep, VerifyExchangeStep,
     RollbackStep, UnwindStep, QuarantinePriorStep, PlaceStep, PutBackStep, FinishStep, AbortStep
  DEF Publication

LEMMA OutputStep ==
  ASSUME OutputAssumption, OutputInv, [OutputNext]_outputVars
  PROVE  OutputInv'
<1>1. CASE OutputNext
  <2>1. Beside
    BY <1>1 DEF OutputNext, Beside
  <2>2. ASSUME NEW p \in Publishers, ValidationFails(p)  PROVE OutputInv'
    BY <2>1, <2>2, VerifyNewStep, VerifyExchangeStep DEF ValidationFails
  <2> QED  BY <1>1, <2>1, <2>2, BeginOutputStep, PublicationStep, PublisherDiesStep, StepFailsStep, EditStep
           DEF OutputNext
<1>2. CASE UNCHANGED outputVars
  <2> USE <1>2 DEF outputVars, onDisk, working, incidents
  <2>1. OutputTypeOK' /\ Blank' /\ Owners' /\ OnePayload' /\ OutputRoles' /\ MadeOnce' /\ Unmade' /\ Seen' /\ Written' /\ Built'
    BY DEF OutputInv, OutputBase, OutputTypeOK, OutputTypes, OnePlace, Blank, Unbuilt, Owners, OnePayload,
           OutputRoles, MadeOnce, Unmade, Seen, Written, Built
  <2>2. exchanging' => Exchanged'
    BY DEF OutputInv, Exchanged, TargetComplete, ReadyBack, NoneRenames, SwapsBuilt, AwayFirst, UsersOwn
  <2>3. ~met' /\ edits' = 0 => Sequential'
    <3> SUFFICES ASSUME Sequential  PROVE Sequential'
      BY DEF OutputInv
    <3>1. OneWorks' /\ TargetFinal' /\ OneJournal'
      BY DEF Sequential, OneWorks, TargetFinal, OneJournal
    <3>2. ASSUME NEW r \in Dirs, Unattended(r)  PROVE Unattended(r)'
      BY <3>2 DEF Unattended, SetAside, Recoverable, PriorStaged, PriorQuarantined, PriorRemoved, NotExchanged,
                  TargetMissing, Published, Sound
    <3>3. ASSUME NEW p \in Publishers, OnDisk(p)  PROVE OnDisk(p)'
      <4>1. (/\ place[p] = "scan" => \A r \in Dirs : quar[r].record => r \in unseen[p] /\ Unattended(r)
             /\ place[p] = "abort" =>
                  \A r \in Dirs : quar[r].record => Unattended(r) /\ (deep \/ staging[r] # mine[p]))'
        BY <3>2, <3>3 DEF OnDisk
      <4>8. (place[p] = "judge" => Unattended(journal[p]))'
        BY <3>3 DEF OnDisk, Unattended, SetAside, Recoverable, PriorStaged, PriorQuarantined, PriorRemoved,
                    NotExchanged, TargetMissing, Published, Sound
      <4>2. (/\ place[p] \in {"check", "rmdir"} \/ place[p] \in Unjournalled => NoJournal
             /\ place[p] \in Journalled /\ place[p] # "rmdir" =>
                  quar[journal[p]].record /\ known[p] = quar[journal[p]].ver
             /\ place[p] = "publish" => target = NoDir
             /\ place[p] = "journal" => target = prior[p]
             /\ place[p] = "verifyNew" => target = mine[p])'
        BY <3>3 DEF OnDisk, NoJournal
      <4>3. (/\ place[p] = "restore" => Away(journal[p]) /\ Reverting(p)
             /\ place[p] \in {"restored", "moveBack"} => NotExchanged(journal[p]) /\ Reverting(p)
             /\ place[p] \in {"exchange", "quarantine", "unwind"} => NotExchanged(journal[p])
             /\ place[p] \in {"quarantined", "place", "putBack"} => Away(journal[p]))'
        BY <3>3 DEF OnDisk, Away, TargetMissing, NotExchanged, Reverting, Sound
      <4>4. (/\ place[p] = "move" =>
                  (Completing(p) /\ PriorStaged(journal[p])) \/ (Reverting(p) /\ NotExchanged(journal[p]))
             /\ place[p] \in {"verify", "rollback", "exchanged"} => PriorStaged(journal[p]))'
        BY <3>3 DEF OnDisk, PriorStaged, NotExchanged, Published, Completing, Reverting, Sound
      <4>5. (place[p] \in {"note", "settle", "purge"} =>
                \/ Completing(p) /\ Shelved(journal[p])
                \/ Reverting(p) /\ Undoing(journal[p]) /\ state[journal[p]] = "final")'
        BY <3>3 DEF OnDisk, Completing, Reverting, Shelved, PriorQuarantined, Published, Undoing, Sound
      <4>6. (/\ place[p] = "removing" => Tearing(journal[p]) \/ (Reverting(p) /\ Undoing(journal[p]))
             /\ place[p] = "unlist" =>
                  IF role[p] = "withdraw" THEN NotExchanged(journal[p])
                  ELSE PriorRemoved(journal[p]) \/ (Reverting(p) /\ Undone(journal[p])))'
        BY <3>3 DEF OnDisk, Tearing, Reverting, Undoing, Undone, NotExchanged, PriorRemoved, Published, Sound
      <4>7. (place[p] = "finish" => IF exchanging THEN PriorStaged(journal[p]) ELSE Shelved(journal[p]))'
        BY <3>3 DEF OnDisk, PriorStaged, Shelved, PriorQuarantined, Published, Sound
      <4> QED  BY <4>1, <4>2, <4>3, <4>4, <4>5, <4>6, <4>7, <4>8 DEF OnDisk
    <3> QED  BY <3>1, <3>2, <3>3 DEF Sequential
  <2> QED  BY <2>1, <2>2, <2>3 DEF OutputInv, OutputBase
<1> QED  BY <1>1, <1>2

LEMMA OutputStart ==
  ASSUME OutputAssumption, OutputInit
  PROVE  OutputInv
<1> USE DEF OutputInit, NoQuarantine
<1>1. OutputTypes
  <2>1. quar \in [Dirs -> [root : BOOLEAN, record : BOOLEAN, ver : Nat, prior : Paths, payload : Paths]]
    BY DEF Paths
  <2>2. state \in [Dirs \cup UserDirs -> States]
    BY DEF States
  <2>3. place \in [Publishers -> OutputPlaces]
    BY DEF OutputPlaces
  <2>4. strikes \in 0..MaxStrikes /\ edits \in 0..MaxEdits
    BY DEF OutputAssumption
  <2> QED  BY <2>1, <2>2, <2>3, <2>4 DEF OutputTypes, Paths
<1>2. OnePlace /\ OnePayload
  BY DEF OnePlace, OnePayload
<1>3. Blank
  BY DEF Blank, Unbuilt, OutputAssumption
<1>4. Owners /\ OutputRoles /\ MadeOnce
  BY DEF Owners, OutputRoles, MadeOnce
<1>5. Unmade /\ Seen /\ Written /\ Built
  BY DEF Unmade, Seen, Written, Built, Unjournalled, Journalled
<1>6. Exchanged
  BY DEF Exchanged, TargetComplete, ReadyBack, NoneRenames, SwapsBuilt, AwayFirst, UsersOwn, Renaming,
     OutputAssumption
<1>7. Sequential
  BY DEF Sequential, OneWorks, TargetFinal, OneJournal, OnDisk
<1> QED  BY <1>1, <1>2, <1>3, <1>4, <1>5, <1>6, <1>7 DEF OutputInv, OutputBase, OutputTypeOK

LEMMA OutputSafe ==
  ASSUME OutputAssumption, OutputInv
  PROVE  OutputSound
<1> USE DEF OutputInv
<1>1. OutputTypeOK /\ (exchanging => TargetComplete)
  BY DEF OutputBase, Exchanged
<1>2. ASSUME ~met, edits = 0  PROVE AbsenceRecoverable /\ NextRecovers /\ TargetComplete
  <2>1. Sequential
    BY <1>2
  <2>2. TargetComplete
    BY <2>1 DEF Sequential, TargetFinal, TargetComplete
  <2>3. NextRecovers
    BY <2>1 DEF Sequential, NextRecovers, Unattended
  <2>4. AbsenceRecoverable
    <3> SUFFICES ASSUME target = NoDir, NEW d \in Dirs, quar[d].root, quar[d].payload # NoDir
                 PROVE  quar[d].record /\ quar[d].prior # NoDir /\ Sound(quar[d].payload, quar[d].prior)
      BY DEF AbsenceRecoverable
    <3>1. quar[d].record /\ quar[d].prior # NoDir
      BY <2>1 DEF Sequential, OneJournal
    <3>2. Recoverable(d) \/ SetAside(d)
      <4>1. CASE \A p \in Publishers : place[p] = "idle"
        BY <2>1, <3>1, <4>1 DEF Sequential, Unattended
      <4>2. CASE \E p \in Publishers : place[p] # "idle"
        BY <2>1, <3>1, <4>2, LeftBehind
      <4> QED  BY <4>1, <4>2
    <3>3. CASE Recoverable(d)
      BY <3>1, <3>3 DEF Recoverable, PriorStaged, PriorQuarantined, PriorRemoved, NotExchanged, TargetMissing,
                  Published, Sound
    <3>4. CASE SetAside(d)
      BY <3>1, <3>4 DEF SetAside
    <3> QED  BY <3>1, <3>2, <3>3, <3>4
  <2> QED  BY <2>2, <2>3, <2>4
<1>3. ASSUME edits # 0  PROVE AbsenceRecoverable /\ NextRecovers
  BY <1>3 DEF AbsenceRecoverable, NextRecovers
<1> QED  BY <1>1, <1>2, <1>3 DEF OutputSound

\* safeoutput.Transaction: where paths can be exchanged the target is complete whoever
\* publishes, recovers or dies at the same time; publications one after the other keep
\* it complete on every platform, and each fault leaves what the next one recovers.
THEOREM Outputs ==
  ASSUME OutputAssumption
  PROVE  OutputSpec => []OutputSound
<1>1. OutputInit => OutputInv
  BY OutputStart
<1>2. OutputInv /\ [OutputNext]_outputVars => OutputInv'
  BY OutputStep
<1>3. OutputInv => OutputSound
  BY OutputSafe
<1> QED  BY <1>1, <1>2, <1>3, PTL DEF OutputSpec

LEMMA OutputStepSafe ==
  ASSUME OutputAssumption, OutputInv, OutputNext, exchanging
  PROVE  NeverAbsent /\ UserDataKept
<1> USE DEF OutputInv
<1>1. Exchanged /\ OutputTypes
  BY DEF OutputBase, OutputTypeOK
<1>2. NoneRenames /\ AwayFirst
  BY <1>1 DEF Exchanged
<1>3. \A p \in Publishers : place[p] # "idle" => mine[p] \in Dirs /\ mine[p] # NoDir
  BY DEF OutputBase, Owners, OutputAssumption
<1>4. NeverAbsent
  <2> SUFFICES ASSUME target # NoDir, target' = NoDir
               PROVE  \E p \in Publishers : place[p] = "verifyNew" /\ target = mine[p]
    BY DEF NeverAbsent
  <2>1. ~Edit
    BY DEF Edit, OutputAssumption
  <2>2. PICK p \in Publishers : BeginOutput(p) \/ Publication(p) \/ PublisherDies(p) \/ StepFails(p) \/ ValidationFails(p)
    BY <2>1 DEF OutputNext
  <2>3. ~BeginOutput(p) /\ ~PublisherDies(p) /\ ~StepFails(p)
    BY DEF BeginOutput, PublisherDies, StepFails, Struck, onDisk
  <2>4. ~LoadJournal(p) /\ ~Judge(p) /\ ~Restored(p) /\ ~MoveStaging(p) /\ ~Note(p) /\ ~Purge(p) /\ ~RemovePayload(p)
    BY DEF LoadJournal, Judge, Restored, MoveStaging, Note, Purge, RemovePayload, onDisk
  <2>5. ~Unlist(p) /\ ~Rmdir(p) /\ ~Build(p) /\ ~FinalizeOutput(p) /\ ~InspectPrior(p) /\ ~CreateJournal(p)
    BY DEF Unlist, Rmdir, Build, FinalizeOutput, InspectPrior, CreateJournal, onDisk
  <2>6. ~VerifyExchange(p) /\ ~Unwind(p) /\ ~Finish(p) /\ ~AbortOutput(p)
    BY DEF VerifyExchange, Unwind, Finish, AbortOutput, onDisk
  <2>7. ~Restore(p) /\ ~QuarantinePrior(p) /\ ~Place(p) /\ ~PutBack(p)
    BY <1>2 DEF NoneRenames, Renaming, Restore, QuarantinePrior, Place, PutBack
  <2>8. ~PublishNew(p) /\ ~ExchangePaths(p) /\ ~Rollback(p)
    <3>1. place[p] = "rollback" => prior[p] # NoDir
      BY <1>1 DEF OutputBase, OutputTypes, OutputRoles, Written, Recovering, Journalled
    <3> QED  BY <3>1 DEF PublishNew, ExchangePaths, Rollback, SwapPaths
  <2>9. VerifyNew(p) \/ ValidationFails(p)
    BY <2>2, <2>3, <2>4, <2>5, <2>6, <2>7, <2>8 DEF Publication
  <2> QED  BY <2>9 DEF VerifyNew, ValidationFails, TakenBack
<1>5. UserDataKept
  <2> SUFFICES ASSUME NEW d \in DOMAIN state, state[d] = "edited", ~Pending(d)
               PROVE  state'[d] = "edited"
    BY DEF UserDataKept
  <2>1. d \in Dirs \cup UserDirs /\ \A p \in Publishers : place[p] # "idle" => mine[p] # d
    BY <1>1 DEF OutputTypes, Pending
  <2>2. CASE Edit
    BY <1>1, <2>1, <2>2 DEF Edit, OutputTypes, Paths, OutputAssumption
  <2>3. ASSUME NEW p \in Publishers, BeginOutput(p) \/ PublisherDies(p) \/ StepFails(p) \/ ValidationFails(p)
        PROVE  state'[d] = "edited"
    BY <2>3 DEF BeginOutput, PublisherDies, StepFails, ValidationFails, Struck, onDisk
  <2>4. ASSUME NEW p \in Publishers, Publication(p)  PROVE state'[d] = "edited"
    <3>1. CASE Build(p) \/ FinalizeOutput(p) \/ AbortOutput(p)
      BY <1>1, <1>3, <2>1, <3>1 DEF Build, FinalizeOutput, AbortOutput, OutputTypes
    <3>2. CASE Purge(p)
      BY <1>1, <2>1, <3>2 DEF Purge, SoundPrior, Sound, OutputTypes
    <3>3. CASE RemovePayload(p)
      <4>1. quar[journal[p]].payload # d
        BY <1>2, <2>1, <3>3 DEF RemovePayload, AwayFirst, OutputAssumption
      <4> QED  BY <1>1, <2>1, <3>3, <4>1 DEF RemovePayload, OutputTypes
    <3>4. CASE LoadJournal(p) \/ Judge(p) \/ Restore(p) \/ Restored(p) \/ MoveStaging(p) \/ Note(p) \/ Unlist(p) \/ Rmdir(p)
      BY <3>4 DEF LoadJournal, Judge, Restore, Restored, MoveStaging, Note, Unlist, Rmdir, onDisk
    <3>5. CASE InspectPrior(p) \/ PublishNew(p) \/ VerifyNew(p) \/ CreateJournal(p) \/ ExchangePaths(p) \/ VerifyExchange(p)
      BY <3>5 DEF InspectPrior, PublishNew, VerifyNew, CreateJournal, ExchangePaths, VerifyExchange, onDisk
    <3>6. CASE Rollback(p) \/ Unwind(p) \/ QuarantinePrior(p) \/ Place(p) \/ PutBack(p) \/ Finish(p)
      BY <3>6 DEF Rollback, Unwind, QuarantinePrior, Place, PutBack, Finish, onDisk
    <3> QED  BY <2>4, <3>1, <3>2, <3>3, <3>4, <3>5, <3>6 DEF Publication
  <2> QED  BY <2>2, <2>3, <2>4 DEF OutputNext
<1> QED  BY <1>4, <1>5

\* docs/SECURITY_MODEL.md: where paths can be exchanged no step makes a published target
\* go missing, and none removes what the user has touched (ErrTargetUnowned).
THEOREM OutputSteps ==
  ASSUME OutputAssumption
  PROVE  OutputSpec => OutputStepsSound
<1>1. OutputInit => OutputInv
  BY OutputStart
<1>2. OutputInv /\ [OutputNext]_outputVars => OutputInv'
  BY OutputStep
<1>3. OutputInv /\ [OutputNext]_outputVars => [exchanging => NeverAbsent /\ UserDataKept]_outputVars
  BY OutputStepSafe
<1> QED  BY <1>1, <1>2, <1>3, PTL DEF OutputSpec, OutputStepsSound

=============================================================================
