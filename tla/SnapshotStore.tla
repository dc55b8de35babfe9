--------------------------- MODULE SnapshotStore ---------------------------
(***************************************************************************)
(* The filesystem snapshot store of internal/snapshot: transactions build  *)
(* a snapshot in a private leased directory below building/, publish it by *)
(* renaming that directory below snapshots/, and then point CURRENT at it. *)
(* Administrators concurrently recover abandoned directories and select    *)
(* snapshots.  Every filesystem effect another process can observe is a    *)
(* step of its own, and a process may stop between any two of them.        *)
(***************************************************************************)
EXTENDS Naturals, FiniteSets, TLC

CONSTANTS
  Txns,        \* transactions; each one owns one building directory, once
  Admins,      \* processes that call Recover and SetCurrent
  SnapIds,     \* snapshot identifiers
  Bundles,     \* canonical bundle contents
  None,        \* no snapshot, transaction, bundle, record or lock holder
  MaxMishaps   \* bound on I/O failures and process crashes

ASSUME NoneAssumption == None \notin Txns \cup Admins \cup SnapIds \cup Bundles
ASSUME ActorAssumption == Txns \cap Admins = {}
ASSUME MishapAssumption == MaxMishaps \in Nat

VARIABLES
  pc,         \* where each process stands inside the operation it runs
  id,         \* the snapshot ID a transaction was begun for
  mem,        \* the Record a Transaction holds in memory
  dir,        \* where the transaction's directory is
  marker,     \* whether the directory holds its ownership marker
  rec,        \* the Record in the directory's snapshot.json
  lock,       \* who holds the advisory lock on the directory's lease file
  ghosts,     \* building paths recreated with nothing but a snapshot.json
  litter,     \* whether building/ has a delete quarantine whose remover failed or died
  published,  \* the transaction whose directory is below snapshots/<id>
  current,    \* the contents of CURRENT
  objects,    \* the objects in the content-addressed store
  lost,       \* history: the objects of a record that went since its Commit verified them
  aged,       \* transactions whose directory is older than Recover's maxAge
  entry,      \* the directory or snapshot an administrator works on
  todo,       \* the rest of the directory listing Recover iterates over
  mishaps     \* I/O failures and crashes so far

txnVars == <<id, mem>>
diskVars == <<dir, marker, rec, ghosts, litter>>
storeVars == <<published, current>>
casVars == <<objects, lost>>
adminVars == <<entry, todo>>
vars == <<pc, txnVars, diskVars, lock, storeVars, casVars, aged, adminVars, mishaps>>

Actors == Txns \cup Admins

\* What WriteBundle and WriteCoverage put in the object store.
Object == [kind : {"bundle", "coverage"}, of : SnapIds, content : Bundles]
BundleObject(i, b) == [kind |-> "bundle", of |-> i, content |-> b]
CoverageObject(i, b) == [kind |-> "coverage", of |-> i, content |-> b]

\* A coverage field names the bundle it was derived from.
Record == [status : {"building", "failed", "committed"},
           bundle : Bundles \cup {None}, coverage : Bundles \cup {None}]

RecordObjects(i, r) ==
  {BundleObject(i, b) : b \in {r.bundle} \ {None}}
    \cup {CoverageObject(i, b) : b \in {r.coverage} \ {None}}

\* The phases of Begin, of one write, of Commit and of a removal; an admin's
\* phases of Recover and SetCurrent.  "done" and "dead" hold no resources.
BeginPhases == {"leasing", "marking", "recording", "admitting"}
CommitPhases == {"sealing", "checking", "renaming", "pointing"}
RemovePhases == {"validating", "isolating", "moving", "erasing"}
Phases == {"idle", "open", "binding", "aborting", "done", "dead",
           "listing", "opening", "locking", "aging", "selecting"}
            \cup BeginPhases \cup CommitPhases \cup RemovePhases

TypeOK ==
  /\ pc \in [Actors -> Phases]
  /\ id \in [Txns -> SnapIds \cup {None}]
  /\ mem \in [Txns -> Record]
  /\ dir \in [Txns -> {"none", "building", "quarantine", "published", "gone"}]
  /\ marker \in [Txns -> BOOLEAN]
  /\ rec \in [Txns -> Record \cup {None}]
  /\ lock \in [Txns -> Actors \cup {None}]
  /\ ghosts \subseteq Txns
  /\ litter \in BOOLEAN
  /\ published \in [SnapIds -> Txns \cup {None}]
  /\ current \in SnapIds \cup {None}
  /\ objects \subseteq Object
  /\ lost \in [Txns -> SUBSET Object]
  /\ aged \subseteq Txns
  /\ entry \in [Admins -> Txns \cup SnapIds \cup {None}]
  /\ todo \in [Admins -> SUBSET Txns]
  /\ mishaps \in 0..MaxMishaps

ASSUME RecordAssumption == None \notin Record

EmptyRecord == [status |-> "building", bundle |-> None, coverage |-> None]

Init ==
  /\ pc = [a \in Actors |-> "idle"]
  /\ id = [t \in Txns |-> None]
  /\ mem = [t \in Txns |-> EmptyRecord]
  /\ dir = [t \in Txns |-> "none"]
  /\ marker = [t \in Txns |-> FALSE]
  /\ rec = [t \in Txns |-> None]
  /\ lock = [t \in Txns |-> None]
  /\ ghosts = {}
  /\ litter = FALSE
  /\ published = [i \in SnapIds |-> None]
  /\ current = None
  /\ objects = {}
  /\ lost = [t \in Txns |-> {}]
  /\ aged = {}
  /\ entry = [a \in Admins |-> None]
  /\ todo = [a \in Admins |-> {}]
  /\ mishaps = 0

(***************************************************************************)
(* Vocabulary.                                                             *)
(***************************************************************************)
Goto(a, phase) == pc' = [pc EXCEPT ![a] = phase]

\* The operation under way fails here: one more mishap.
Mishap == mishaps < MaxMishaps /\ mishaps' = mishaps + 1

\* Mutant: a missing closeLease.
KeepLease(a, t) == UNCHANGED lock

\* Closing a lease that is not held changes nothing.
Unlock(a, t) == lock' = IF lock[t] = a THEN [lock EXCEPT ![t] = None] ELSE lock

\* validateBuilding: the marked directory is in place with one of statuses.
ValidBuilding(t, statuses) ==
  /\ dir[t] = "building"
  /\ marker[t]
  /\ rec[t] # None
  /\ rec[t].status \in statuses
  /\ rec[t].status = "committed" => rec[t].bundle # None

\* Mutant: removal does not validate the lease it was given.
AnyLease(a, t) == TRUE

\* lease.validate: the process still has the lease open.
HoldsLease(a, t) == lock[t] = a

\* Mutant: recovery ignores a live holder.
IgnoreHolder(t) == TRUE

\* flock succeeds.
LockFree(t) == lock[t] = None

\* Mutant: rewriting a bundle keeps the coverage of the old one.
ReboundKeepingCoverage(r, b) == [r EXCEPT !.bundle = b]

\* A rewritten bundle invalidates the coverage derived from the old one.
Rebound(r, b) == [r EXCEPT !.bundle = b, !.coverage = None]

HasBundle(t) == mem[t].bundle # None

\* cas.Verify of every object the record names.
Verified(t) == RecordObjects(id[t], mem[t]) \subseteq objects

\* Mutant: the destination is not looked at and rename replaces.
AlwaysFree(t) == TRUE

DestinationFree(t) == published[id[t]] = None

AnyStatus == {"building", "failed", "committed"}

\* Mutant: SetCurrent does not load the snapshot.
Unloaded(i) == TRUE

\* Load succeeds: a committed record whose objects are intact.
Loadable(i) ==
  /\ published[i] # None
  /\ rec[published[i]].status = "committed"
  /\ rec[published[i]].bundle # None
  /\ RecordObjects(i, rec[published[i]]) \subseteq objects

-----------------------------------------------------------------------------
(***************************************************************************)
(* Begin: directory, then lease, then marker, then record.                 *)
(***************************************************************************)
BeginDirectory(t) ==
  /\ pc[t] = "idle"
  /\ \E i \in SnapIds :
       /\ published[i] = None
       /\ id' = [id EXCEPT ![t] = i]
  /\ dir' = [dir EXCEPT ![t] = "building"]
  /\ Goto(t, "leasing")
  /\ UNCHANGED <<mem, marker, rec, ghosts, litter, lock, storeVars, casVars, aged, adminVars, mishaps>>

BeginLease(t) ==
  /\ pc[t] = "leasing"
  /\ \/ /\ lock' = [lock EXCEPT ![t] = t]
        /\ Goto(t, "marking")
        /\ UNCHANGED <<dir, mishaps>>
     \/ /\ Mishap
        /\ dir' = [dir EXCEPT ![t] = "gone"]
        /\ Goto(t, "done")
        /\ UNCHANGED lock
  /\ UNCHANGED <<txnVars, marker, rec, ghosts, litter, storeVars, casVars, aged, adminVars>>

BeginMarker(t) ==
  /\ pc[t] = "marking"
  /\ \/ /\ marker' = [marker EXCEPT ![t] = TRUE]
        /\ Goto(t, "recording")
        /\ UNCHANGED <<dir, lock, mishaps>>
     \/ /\ Mishap
        /\ Unlock(t, t)
        /\ dir' = [dir EXCEPT ![t] = "gone"]
        /\ Goto(t, "done")
        /\ UNCHANGED marker
  /\ UNCHANGED <<txnVars, rec, ghosts, litter, storeVars, casVars, aged, adminVars>>

\* A failed record write leaves the marked directory behind without a record.
BeginRecord(t) ==
  /\ pc[t] = "recording"
  /\ \/ /\ rec' = [rec EXCEPT ![t] = mem[t]]
        /\ Goto(t, "admitting")
        /\ UNCHANGED <<lock, mishaps>>
     \/ /\ Mishap
        /\ Unlock(t, t)
        /\ Goto(t, "done")
        /\ UNCHANGED rec
  /\ UNCHANGED <<txnVars, dir, marker, ghosts, litter, storeVars, casVars, aged, adminVars>>

BeginAdmit(t) ==
  /\ pc[t] = "admitting"
  /\ \/ /\ ValidBuilding(t, {"building"})
        /\ Goto(t, "open")
        /\ UNCHANGED <<lock, mishaps>>
     \/ /\ Mishap \/ (~ValidBuilding(t, {"building"}) /\ UNCHANGED mishaps)
        /\ Unlock(t, t)
        /\ Goto(t, "done")
  /\ UNCHANGED <<txnVars, diskVars, storeVars, casVars, aged, adminVars>>

(***************************************************************************)
(* Writes.  The object reaches the store and the in-memory record first,   *)
(* the durable record afterwards.                                          *)
(***************************************************************************)
WriteBundle(t) ==
  /\ pc[t] = "open"
  /\ ValidBuilding(t, {"building"})
  /\ \E b \in Bundles :
       /\ objects' = objects \cup {BundleObject(id[t], b)}
       /\ mem' = [mem EXCEPT ![t] = Rebound(@, b)]
  /\ Goto(t, "binding")
  /\ UNCHANGED <<id, diskVars, lock, storeVars, lost, aged, adminVars, mishaps>>

WriteCoverage(t) ==
  /\ pc[t] = "open"
  /\ ValidBuilding(t, {"building"})
  /\ HasBundle(t)
  /\ objects' = objects \cup {CoverageObject(id[t], mem[t].bundle)}
  /\ mem' = [mem EXCEPT ![t].coverage = mem[t].bundle]
  /\ Goto(t, "binding")
  /\ UNCHANGED <<id, diskVars, lock, storeVars, lost, aged, adminVars, mishaps>>

\* writeRecord at the end of either write.
BindRecord(t) ==
  /\ pc[t] = "binding"
  /\ \/ /\ rec' = [rec EXCEPT ![t] = mem[t]]
        /\ UNCHANGED mishaps
     \/ Mishap /\ UNCHANGED rec
  /\ Goto(t, "open")
  /\ UNCHANGED <<txnVars, dir, marker, ghosts, litter, lock, storeVars, casVars, aged, adminVars>>

(***************************************************************************)
(* Commit: verify, seal the record, check the destination, rename, point   *)
(* CURRENT.  The rename is the publication point.                          *)
(***************************************************************************)
CommitVerify(t) ==
  /\ pc[t] = "open"
  /\ ValidBuilding(t, {"building"})
  /\ HasBundle(t)
  /\ Verified(t)
  /\ mem' = [mem EXCEPT ![t].status = "committed"]
  /\ lost' = [lost EXCEPT ![t] = {}]
  /\ Goto(t, "sealing")
  /\ UNCHANGED <<id, diskVars, lock, storeVars, objects, aged, adminVars, mishaps>>

CommitSeal(t) ==
  /\ pc[t] = "sealing"
  /\ \/ /\ rec' = [rec EXCEPT ![t] = mem[t]]
        /\ Goto(t, "checking")
        /\ UNCHANGED mishaps
     \/ /\ Mishap
        /\ Goto(t, "open")
        /\ UNCHANGED rec
  /\ UNCHANGED <<txnVars, dir, marker, ghosts, litter, lock, storeVars, casVars, aged, adminVars>>

CommitCheck(t) ==
  /\ pc[t] = "checking"
  /\ LET absent == ValidBuilding(t, {"committed"}) /\ DestinationFree(t)
     IN \/ absent /\ Goto(t, "renaming") /\ UNCHANGED mishaps
        \/ ~absent /\ Goto(t, "open") /\ UNCHANGED mishaps
        \/ Mishap /\ Goto(t, "open")
  /\ UNCHANGED <<txnVars, diskVars, lock, storeVars, casVars, aged, adminVars>>

\* Renaming a directory onto a snapshot that appeared meanwhile fails: the
\* destination is never empty.
CommitRename(t) ==
  /\ pc[t] = "renaming"
  /\ LET renames == dir[t] = "building" /\ DestinationFree(t)
     IN \/ /\ renames
           /\ dir' = [dir EXCEPT ![t] = "published"]
           /\ published' = [published EXCEPT ![id[t]] = t]
           /\ Goto(t, "pointing")
           /\ UNCHANGED mishaps
        \/ /\ Mishap \/ (~renames /\ UNCHANGED mishaps)
           /\ Goto(t, "open")
           /\ UNCHANGED <<dir, published>>
  /\ UNCHANGED <<txnVars, marker, rec, ghosts, litter, lock, current, casVars, aged, adminVars>>

\* Validation, sync or CURRENT may fail after publication; the lease goes
\* either way.
CommitPoint(t) ==
  /\ pc[t] = "pointing"
  /\ \/ /\ current' = id[t]
        /\ UNCHANGED mishaps
     \/ Mishap /\ UNCHANGED current
  /\ Unlock(t, t)
  /\ Goto(t, "done")
  /\ UNCHANGED <<txnVars, diskVars, published, casVars, aged, adminVars>>

(***************************************************************************)
(* Abort up to the removal.  writeAtomic creates missing parents, so a     *)
(* record write whose directory has been moved away recreates the path.    *)
(***************************************************************************)
AbortCheck(t) ==
  /\ pc[t] = "open"
  /\ ValidBuilding(t, AnyStatus)
  /\ mem' = [mem EXCEPT ![t].status = "failed"]
  /\ Goto(t, "aborting")
  /\ UNCHANGED <<id, diskVars, lock, storeVars, casVars, aged, adminVars, mishaps>>

AbortRecord(t) ==
  /\ pc[t] = "aborting"
  /\ \/ /\ dir[t] = "building"
        /\ rec' = [rec EXCEPT ![t] = mem[t]]
        /\ Goto(t, "validating")
        /\ UNCHANGED <<ghosts, mishaps>>
     \/ /\ dir[t] # "building"
        /\ ghosts' = ghosts \cup {t}
        /\ Goto(t, "validating")
        /\ UNCHANGED <<rec, mishaps>>
     \/ /\ Mishap
        /\ Goto(t, "open")
        /\ UNCHANGED <<rec, ghosts>>
  /\ UNCHANGED <<txnVars, dir, marker, litter, lock, storeVars, casVars, aged, adminVars>>

-----------------------------------------------------------------------------
(***************************************************************************)
(* removeBuildingDirectory, called by Abort for its own directory and by   *)
(* Recover for an abandoned one.                                           *)
(***************************************************************************)
Victim(a) == IF a \in Txns THEN a ELSE entry[a]

\* Abort keeps the transaction open when removal fails, but not its lease;
\* Recover returns.
RemoveFail(a) ==
  /\ Unlock(a, Victim(a))
  /\ IF a \in Txns
       THEN Goto(a, "open") /\ UNCHANGED adminVars
       ELSE /\ Goto(a, "idle")
            /\ entry' = [entry EXCEPT ![a] = None]
            /\ todo' = [todo EXCEPT ![a] = {}]

RemoveValidate(a) ==
  /\ pc[a] = "validating"
  /\ LET t == Victim(a)
         valid == /\ HoldsLease(a, t)
                  /\ t \notin ghosts
                  /\ ValidBuilding(t, IF a \in Txns THEN {"failed"} ELSE AnyStatus)
     IN \/ valid /\ Goto(a, "isolating") /\ UNCHANGED <<lock, adminVars, mishaps>>
        \/ ~valid /\ RemoveFail(a) /\ UNCHANGED mishaps
        \/ Mishap /\ RemoveFail(a)
  /\ UNCHANGED <<txnVars, diskVars, storeVars, casVars, aged>>

\* MkdirTemp: an empty delete quarantine stands in building/.
RemoveIsolate(a) ==
  /\ pc[a] = "isolating"
  /\ \/ Goto(a, "moving") /\ UNCHANGED <<lock, adminVars, mishaps>>
     \/ Mishap /\ RemoveFail(a)
  /\ UNCHANGED <<txnVars, diskVars, storeVars, casVars, aged>>

\* When the rename into it fails, the empty quarantine is removed again.
RemoveMove(a) ==
  /\ pc[a] = "moving"
  /\ \/ /\ dir[Victim(a)] = "building"
        /\ dir' = [dir EXCEPT ![Victim(a)] = "quarantine"]
        /\ Goto(a, "erasing")
        /\ UNCHANGED <<lock, adminVars, mishaps>>
     \/ /\ Mishap \/ (dir[Victim(a)] # "building" /\ UNCHANGED mishaps)
        /\ RemoveFail(a)
        /\ UNCHANGED dir
  /\ UNCHANGED <<txnVars, marker, rec, ghosts, litter, storeVars, casVars, aged>>

\* A failure from here on leaves the quarantine with what is still in it.
RemoveErase(a) ==
  /\ pc[a] = "erasing"
  /\ \/ /\ dir' = [dir EXCEPT ![Victim(a)] = "gone"]
        /\ Unlock(a, Victim(a))
        /\ IF a \in Txns
             THEN Goto(a, "done") /\ UNCHANGED adminVars
             ELSE /\ Goto(a, "listing")
                  /\ entry' = [entry EXCEPT ![a] = None]
                  /\ UNCHANGED todo
        /\ UNCHANGED <<litter, mishaps>>
     \/ /\ Mishap
        /\ RemoveFail(a)
        /\ litter' = TRUE
        /\ UNCHANGED dir
  /\ UNCHANGED <<txnVars, marker, rec, ghosts, storeVars, casVars, aged>>

-----------------------------------------------------------------------------
(***************************************************************************)
(* Recover: list building/, and for every entry validate, open the lease   *)
(* file, try its lock, look at the age, and remove.                        *)
(***************************************************************************)
\* The name of a delete quarantine sorts first: the call returns an error at it
\* before it looks at any other entry.
Isolating(a) == pc[a] \in {"moving", "erasing"}
Unobstructed == ~litter /\ \A a \in Actors : ~Isolating(a)

RecoverList(a) ==
  /\ pc[a] = "idle"
  /\ Unobstructed
  /\ todo' = [todo EXCEPT ![a] = {t \in Txns : dir[t] = "building"} \cup ghosts]
  /\ Goto(a, "listing")
  /\ UNCHANGED <<txnVars, diskVars, lock, storeVars, casVars, aged, entry, mishaps>>

\* An entry that is gone, unmarked or without a valid record ends the call.
RecoverExamine(a) ==
  /\ pc[a] = "listing"
  /\ \E t \in todo[a] :
       IF t \notin ghosts /\ ValidBuilding(t, AnyStatus)
         THEN /\ entry' = [entry EXCEPT ![a] = t]
              /\ todo' = [todo EXCEPT ![a] = @ \ {t}]
              /\ Goto(a, "opening")
         ELSE /\ todo' = [todo EXCEPT ![a] = {}]
              /\ Goto(a, "idle")
              /\ UNCHANGED entry
  /\ UNCHANGED <<txnVars, diskVars, lock, storeVars, casVars, aged, mishaps>>

RecoverReturn(a) ==
  /\ pc[a] = "listing"
  /\ todo[a] = {}
  /\ Goto(a, "idle")
  /\ UNCHANGED <<txnVars, diskVars, lock, storeVars, casVars, aged, adminVars, mishaps>>

\* The lease file is opened by path; once open it names the inode, wherever
\* the directory goes.
RecoverOpen(a) ==
  /\ pc[a] = "opening"
  /\ IF dir[entry[a]] = "building"
       THEN Goto(a, "locking") /\ UNCHANGED adminVars
       ELSE /\ Goto(a, "idle")
            /\ entry' = [entry EXCEPT ![a] = None]
            /\ todo' = [todo EXCEPT ![a] = {}]
  /\ UNCHANGED <<txnVars, diskVars, lock, storeVars, casVars, aged, mishaps>>

\* Mutant: a held lease ends the call.
RecoverUnheld(a) ==
  /\ pc[a] = "locking"
  /\ IF LockFree(entry[a])
       THEN /\ lock' = [lock EXCEPT ![entry[a]] = a]
            /\ Goto(a, "aging")
            /\ UNCHANGED <<entry, todo>>
       ELSE /\ Goto(a, "idle")
            /\ entry' = [entry EXCEPT ![a] = None]
            /\ todo' = [todo EXCEPT ![a] = {}]
            /\ UNCHANGED lock
  /\ UNCHANGED <<txnVars, diskVars, storeVars, casVars, aged, mishaps>>

RecoverLock(a) ==
  /\ pc[a] = "locking"
  /\ IF LockFree(entry[a])
       THEN /\ lock' = [lock EXCEPT ![entry[a]] = a]
            /\ Goto(a, "aging")
            /\ UNCHANGED entry
       ELSE /\ Goto(a, "listing")
            /\ entry' = [entry EXCEPT ![a] = None]
            /\ UNCHANGED lock
  /\ UNCHANGED <<txnVars, diskVars, storeVars, casVars, aged, todo, mishaps>>

RecoverAge(a) ==
  /\ pc[a] = "aging"
  /\ IF entry[a] \in aged
       THEN Goto(a, "validating") /\ UNCHANGED <<lock, entry>>
       ELSE /\ Unlock(a, entry[a])
            /\ Goto(a, "listing")
            /\ entry' = [entry EXCEPT ![a] = None]
  /\ UNCHANGED <<txnVars, diskVars, storeVars, casVars, aged, todo, mishaps>>

(***************************************************************************)
(* SetCurrent: load the snapshot, then replace CURRENT.                    *)
(***************************************************************************)
SelectLoad(a) ==
  /\ pc[a] = "idle"
  /\ \E i \in SnapIds :
       /\ Loadable(i)
       /\ entry' = [entry EXCEPT ![a] = i]
  /\ Goto(a, "selecting")
  /\ UNCHANGED <<txnVars, diskVars, lock, storeVars, casVars, aged, todo, mishaps>>

SelectWrite(a) ==
  /\ pc[a] = "selecting"
  /\ \/ current' = entry[a] /\ UNCHANGED mishaps
     \/ Mishap /\ UNCHANGED current
  /\ entry' = [entry EXCEPT ![a] = None]
  /\ Goto(a, "idle")
  /\ UNCHANGED <<txnVars, diskVars, lock, published, casVars, aged, todo>>

(***************************************************************************)
(* The environment: time passes, processes die.  The kernel drops the      *)
(* advisory locks of a dead process; what it left on disk stays.           *)
(***************************************************************************)
GrowOld(t) ==
  /\ dir[t] = "building"
  /\ t \notin aged
  /\ aged' = aged \cup {t}
  /\ UNCHANGED <<pc, txnVars, diskVars, lock, storeVars, casVars, adminVars, mishaps>>

\* Administrative deletion through CAS().Delete, also in the middle of a Commit.
LoseObject(o) ==
  /\ o \in objects
  /\ Mishap
  /\ objects' = objects \ {o}
  /\ lost' = [t \in Txns |-> IF pc[t] \in CommitPhases /\ o \in RecordObjects(id[t], mem[t])
                               THEN lost[t] \cup {o} ELSE lost[t]]
  /\ UNCHANGED <<pc, txnVars, diskVars, lock, storeVars, aged, adminVars>>

Crash(a) ==
  /\ pc[a] \notin {"idle", "done", "dead"}
  /\ Mishap
  /\ lock' = [t \in Txns |-> IF lock[t] = a THEN None ELSE lock[t]]
  /\ litter' = (litter \/ Isolating(a))
  /\ IF a \in Txns
       THEN Goto(a, "dead") /\ UNCHANGED adminVars
       ELSE /\ Goto(a, "idle")
            /\ entry' = [entry EXCEPT ![a] = None]
            /\ todo' = [todo EXCEPT ![a] = {}]
  /\ UNCHANGED <<txnVars, dir, marker, rec, ghosts, storeVars, casVars, aged>>

-----------------------------------------------------------------------------
Begin(t) == BeginDirectory(t) \/ BeginLease(t) \/ BeginMarker(t) \/ BeginRecord(t) \/ BeginAdmit(t)
Write(t) == WriteBundle(t) \/ WriteCoverage(t) \/ BindRecord(t)
Commit(t) == CommitVerify(t) \/ CommitSeal(t) \/ CommitCheck(t) \/ CommitRename(t) \/ CommitPoint(t)
Abort(t) == AbortCheck(t) \/ AbortRecord(t)
Remove(a) == RemoveValidate(a) \/ RemoveIsolate(a) \/ RemoveMove(a) \/ RemoveErase(a)
Recover(a) == RecoverList(a) \/ RecoverExamine(a) \/ RecoverReturn(a)
                \/ RecoverOpen(a) \/ RecoverLock(a) \/ RecoverAge(a)
Select(a) == SelectLoad(a) \/ SelectWrite(a)

TxnNext(t) == Begin(t) \/ Write(t) \/ Commit(t) \/ Abort(t) \/ Remove(t)
AdminNext(a) == Recover(a) \/ Select(a) \/ Remove(a)

Next ==
  \/ \E t \in Txns : TxnNext(t) \/ GrowOld(t)
  \/ \E a \in Admins : AdminNext(a)
  \/ \E a \in Actors : Crash(a)
  \/ \E o \in objects : LoseObject(o)

Spec == Init /\ [][Next]_vars

(***************************************************************************)
(* An operator runs Recover again and again, between other calls (strong   *)
(* fairness of its first step), every call runs on unless its process dies, *)
(* and time passes.  No transaction has to make another call.              *)
(***************************************************************************)
Continues(t) == pc[t] \notin {"idle", "open"} /\ TxnNext(t)

Fairness ==
  /\ \A t \in Txns : WF_vars(GrowOld(t)) /\ WF_vars(Continues(t))
  /\ \A a \in Admins : SF_vars(RecoverList(a)) /\ WF_vars(AdminNext(a))

FairSpec == Spec /\ Fairness

-----------------------------------------------------------------------------
(***************************************************************************)
(* Properties.                                                             *)
(***************************************************************************)

\* Until it is published, closed or aborted, a transaction that Begin returned
\* keeps its marked and recorded directory and its lease: no Recover, however
\* it interleaves with Begin's steps, takes a live build (store.go Recover).
Live(t) ==
  /\ pc[t] \in {"open", "binding", "sealing", "checking", "renaming"}
  /\ mem[t].status # "failed"

LiveBuildKept ==
  \A t \in Txns : Live(t) =>
    /\ dir[t] = "building" /\ marker[t] /\ rec[t] # None
    /\ lock[t] = t

\* Whatever is below snapshots/<id> was begun for that ID, carries a committed
\* record with a bundle, and coverage derived from that very bundle: WriteBundle
\* invalidates older coverage, also after failed writes and failed commits.
PublishedComplete ==
  \A i \in SnapIds : published[i] # None =>
    LET t == published[i]
    IN /\ dir[t] = "published" /\ id[t] = i
       /\ rec[t] # None
       /\ rec[t].status = "committed"
       /\ rec[t].bundle # None
       /\ rec[t].coverage \in {None, rec[t].bundle}

\* CURRENT never names a snapshot that is not published, at any crash point of
\* Commit and for any interleaving with SetCurrent.
CurrentPublished == current # None => published[current] # None

\* A published snapshot is immutable and permanent: competing commits, aborts
\* and recoveries neither replace nor remove it, nor touch its record.
PublishedForever ==
  [][\A i \in SnapIds : published[i] # None =>
       /\ published'[i] = published[i]
       /\ dir'[published[i]] = "published"
       /\ rec'[published[i]] = rec[published[i]]]_vars

\* A rename publishes a snapshot whose every object is in the store, but for
\* what went after this very Commit had verified it: whatever earlier writes,
\* rewrites and losses have left, Commit vouches for the record it seals.
PublishesIntact ==
  [][\A i \in SnapIds : published[i] # published'[i] =>
       LET t == published'[i]
       IN  RecordObjects(i, rec'[t]) \subseteq objects' \cup lost'[t]]_vars

\* A building directory is moved away for deletion only by the process that
\* holds its lease, so two processes never delete one directory and a retried
\* Abort that lost its lease deletes nothing.
RemovalUnderLease ==
  [][\A t \in Txns : dir[t] = "building" /\ dir'[t] = "quarantine" =>
       \E a \in Actors : pc[a] = "moving" /\ Victim(a) = t /\ lock[t] = a]_vars

\* A recorded building directory nobody holds the lease of does not stay for
\* ever, whatever live or young directories are listed with it, unless Recover
\* meets an entry it leaves to an operator: a quarantine whose remover failed or
\* died, a directory that a Begin has left unmarked or unrecorded, or a path an
\* Abort has recreated.
Abandoned(t) == dir[t] = "building" /\ marker[t] /\ rec[t] # None /\ lock[t] # t
Wedged ==
  \/ litter \/ ghosts # {}
  \/ \E t \in Txns : pc[t] \in {"done", "dead"} /\ dir[t] = "building" /\ ~ValidBuilding(t, AnyStatus)
AbandonedRecovered == \A t \in Txns : Abandoned(t) ~> (dir[t] # "building" \/ Wedged)

-----------------------------------------------------------------------------
(***************************************************************************)
(* The inductive invariant behind the safety properties.                   *)
(***************************************************************************)
OwnPhases == {"marking", "recording", "admitting", "binding"} \cup CommitPhases
SettledPhases == {"pointing", "done", "dead"}

\* A transaction begins with a private, unmarked directory nobody can lock.
BeginInv ==
  \A t \in Txns :
    /\ pc[t] = "idle" => dir[t] = "none"
    /\ pc[t] \in {"idle", "leasing"} => lock[t] = None
    /\ pc[t] # "idle" => id[t] \in SnapIds
    /\ pc[t] \in {"idle", "leasing", "marking"} => ~marker[t]
    /\ pc[t] \in {"idle", "leasing", "marking", "recording"} => rec[t] = None
    /\ pc[t] \in BeginPhases => dir[t] = "building"
    /\ pc[t] = "admitting" => marker[t] /\ rec[t] # None
    /\ pc[t] \in {"recording", "open", "binding", "aborting"} \cup CommitPhases \cup RemovePhases => marker[t]
    /\ pc[t] \in {"open", "binding", "aborting"} \cup CommitPhases \cup RemovePhases => rec[t] # None

\* Who may hold a lease, and what holding it protects.
TxnLeaseInv ==
  \A t \in Txns :
    /\ lock[t] \in Admins \cup {t, None}
    /\ pc[t] \in OwnPhases => lock[t] = t
    /\ lock[t] = t => pc[t] \notin {"idle", "leasing", "done", "dead"}
    /\ lock[t] = t /\ pc[t] \notin {"pointing", "erasing"} => dir[t] = "building"
    /\ pc[t] \in {"isolating", "moving"} => lock[t] = t
    /\ pc[t] = "erasing" => lock[t] = t /\ dir[t] = "quarantine"

AdminLeaseInv ==
  \A a \in Admins :
    /\ pc[a] \in {"opening", "locking", "aging"} \cup RemovePhases =>
         entry[a] \in Txns /\ marker[entry[a]] /\ rec[entry[a]] # None
    /\ pc[a] \in {"aging"} \cup RemovePhases => lock[entry[a]] = a
    /\ pc[a] \in {"isolating", "moving"} => dir[entry[a]] = "building"
    /\ pc[a] = "erasing" => dir[entry[a]] = "quarantine"
    /\ \A t \in Txns : lock[t] = a => pc[a] \in {"aging"} \cup RemovePhases /\ entry[a] = t

\* A transaction that lost its lease in a failed Abort can only abort again.
FailedInv ==
  \A t \in Txns :
    /\ pc[t] \in RemovePhases \cup {"aborting"} => mem[t].status = "failed"
    /\ pc[t] \in RemovePhases => rec[t].status = "failed"
    /\ pc[t] \in {"open", "aborting"} /\ lock[t] # t =>
         rec[t].status = "failed" /\ mem[t].status = "failed"

LeaseInv == TxnLeaseInv /\ AdminLeaseInv /\ FailedInv

\* Records bind coverage to their bundle; Commit publishes what it verified.
RecordInv ==
  \A t \in Txns :
    /\ mem[t].coverage \in {None, mem[t].bundle}
    /\ rec[t] # None => rec[t].coverage \in {None, rec[t].bundle}
    /\ pc[t] \in {"idle"} \cup BeginPhases => mem[t] = EmptyRecord
    /\ pc[t] \in CommitPhases => mem[t].status = "committed" /\ mem[t].bundle # None
    /\ pc[t] \in {"checking", "renaming", "pointing"} => rec[t] = mem[t]
    /\ pc[t] \in CommitPhases => RecordObjects(id[t], mem[t]) \subseteq objects \cup lost[t]

\* Publication binds an ID and a directory for good.
PublishInv ==
  /\ \A t \in Txns :
       /\ dir[t] = "published" => pc[t] \in SettledPhases
       /\ pc[t] = "pointing" => published[id[t]] = t
  /\ \A a \in Admins : pc[a] = "selecting" => entry[a] \in SnapIds /\ published[entry[a]] # None

IInv ==
  /\ TypeOK
  /\ BeginInv
  /\ LeaseInv
  /\ RecordInv
  /\ PublishInv
  /\ PublishedComplete
  /\ CurrentPublished

\* What TLC may exchange: nothing tells two transactions, administrators, IDs or
\* bundles apart.
Symmetry == Permutations(Txns) \cup Permutations(Admins) \cup Permutations(SnapIds)
              \cup Permutations(Bundles)
=============================================================================
