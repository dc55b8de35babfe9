----------------------------- MODULE StageCache -----------------------------
(***************************************************************************)
(* The stage cache on one disk: pointer files (scheduler.FileCache) over   *)
(* content-addressed payloads (cas.Store), used at the same time by scans  *)
(* (executeStage: load, restore or run, put, store) and by `rkc cache      *)
(* prune`.  No lock protects it: every step below is one look at the file  *)
(* system, and a file that was unlinked while it was open is noticed only  *)
(* by the identity check that ends the read.                               *)
(***************************************************************************)
EXTENDS Naturals, FiniteSets

CONSTANTS
  Scans,       \* executions of a stage, in one or several processes
  Pruners,     \* runs of rkc cache prune
  Keys,        \* cache keys
  Objects,     \* payloads, named by their digests
  Outputs,     \* Outputs[k]: the payloads the stage with key k may produce
  None,        \* no payload
  MaxRots,     \* bound on the objects that bad storage corrupts
  MaxCrashes   \* bound on the processes that die

OutputsAssumption ==
  Outputs \in [Keys -> SUBSET Objects] /\ \A k \in Keys : Outputs[k] # {}
NoneAssumption == None \notin Objects
BoundsAssumption == MaxRots \in Nat /\ MaxCrashes \in Nat
ProcsAssumption == Scans \cap Pruners = {}
CacheAssumption == OutputsAssumption /\ NoneAssumption /\ BoundsAssumption /\ ProcsAssumption

Procs == Scans \cup Pruners

VARIABLES
  pointer,   \* pointer[k]: the digest the pointer file of k names, None without a file
  content,   \* content[o]: the object file: "absent", "good" or "bad" for its digest
  litter,    \* keys in whose shard a dead Store has left its temporary
  at,        \* where each process stands
  key,       \* the cache key a process works on
  reason,    \* why a scan reads an object, "rot" once it has found a wrong digest
  digest,    \* the object a process has in hand
  lost,      \* processes whose open file has lost its name
  value,     \* what a scan passes on: nothing yet, or a payload and its state
  left,      \* a pruner's keys still to list, to delete, or objects to delete
  selected,  \* a pruner's entries to delete
  retained,  \* digests of the entries a pruner keeps
  rots, crashes, \* history: faults so far
  overlapped \* history: what a prune has run beside, "scan" or "prune"

cacheFiles == <<pointer, content, litter>>
scanVars == <<reason, value>>
pruneVars == <<left, selected, retained>>
faultsSoFar == <<rots, crashes, overlapped>>
cacheVars == <<cacheFiles, at, key, digest, lost, scanVars, pruneVars, faultsSoFar>>

States == {"idle", "load", "pointer", "open", "hash", "discard", "unlink", "drop", "dropping",
           "run", "link", "linked", "ran", "temp", "install", "cleanup",
           "list", "delete", "sweep", "done", "failed"}

CacheTypeOK ==
  /\ pointer \in [Keys -> Objects \cup {None}]
  /\ content \in [Objects -> {"absent", "good", "bad"}]
  /\ litter \subseteq Keys
  /\ at \in [Procs -> States]
  /\ key \in [Procs -> Keys]
  /\ digest \in [Procs -> Objects \cup {None}]
  /\ lost \subseteq Procs
  /\ reason \in [Scans -> {"load", "restore", "put", "store", "rot"}]
  /\ value \in [Scans -> {"none", "good", "bad", "lost"}]
  /\ left \in [Pruners -> SUBSET (Keys \cup Objects)]
  /\ selected \in [Pruners -> SUBSET Keys]
  /\ retained \in [Pruners -> SUBSET Objects]
  /\ rots \in 0..MaxRots /\ crashes \in 0..MaxCrashes
  /\ overlapped \subseteq {"scan", "prune"}

CacheInit ==
  /\ pointer = [k \in Keys |-> None]
  /\ content = [o \in Objects |-> "absent"]
  /\ litter = {}
  /\ at = [p \in Procs |-> "idle"]
  /\ key = [p \in Procs |-> CHOOSE k \in Keys : TRUE]
  /\ digest = [p \in Procs |-> None]
  /\ lost = {}
  /\ reason = [s \in Scans |-> "load"]
  /\ value = [s \in Scans |-> "none"]
  /\ left = [p \in Pruners |-> {}]
  /\ selected = [p \in Pruners |-> {}]
  /\ retained = [p \in Pruners |-> {}]
  /\ rots = 0 /\ crashes = 0 /\ overlapped = {}

-----------------------------------------------------------------------------
Goto(p, where) == at' = [at EXCEPT ![p] = where]

Over(p) == at[p] \in {"idle", "done", "failed"}
Active(P) == {p \in P : ~Over(p)}

\* The shard of k shows a temporary, of a running Store or of a dead one.
Temporary(k) ==
  k \in litter \/ \E s \in Scans : key[s] = k /\ at[s] \in {"temp", "install", "cleanup"}

\* The object p has in hand is open between these two steps.
Holds(p) == at[p] \in {"hash", "dropping", "linked"}

\* The object's file loses its name; who holds it open will notice.
UnlinkObject(o) ==
  /\ content' = [content EXCEPT ![o] = "absent"]
  /\ lost' = lost \cup {p \in Procs : Holds(p) /\ digest[p] = o}

\* Whatever file is the pointer of k loses its name.
UnlinkPointer(k) ==
  /\ pointer' = [pointer EXCEPT ![k] = None]
  /\ lost' = lost \cup {s \in Scans : at[s] = "pointer" /\ key[s] = k}

\* What p starts beside, if one of the two is a prune.
Beside(p) ==
  (IF Active(IF p \in Scans THEN Pruners ELSE Scans) = {} THEN {} ELSE {"scan"})
    \cup (IF p \in Scans \/ Active(Pruners \ {p}) = {} THEN {} ELSE {"prune"})

Enter(p) == overlapped' = overlapped \cup Beside(p)

-----------------------------------------------------------------------------
(***************************************************************************)
(* A scan executes a stage.                                                *)
(***************************************************************************)
Begin(s) ==
  /\ Over(s)
  /\ \E k \in Keys : key' = [key EXCEPT ![s] = k]
  /\ Goto(s, "load")
  /\ digest' = [digest EXCEPT ![s] = None]
  /\ value' = [value EXCEPT ![s] = "none"]
  /\ Enter(s)
  /\ UNCHANGED <<cacheFiles, lost, reason, pruneVars, rots, crashes>>

\* FileCache.Load opens the pointer.
OpenPointer(s) ==
  /\ at[s] = "load"
  /\ digest' = [digest EXCEPT ![s] = pointer[key[s]]]
  /\ Goto(s, IF pointer[key[s]] = None THEN "run" ELSE "pointer")
  /\ lost' = lost \ {s}
  /\ UNCHANGED <<cacheFiles, key, scanVars, pruneVars, faultsSoFar>>

\* It must still be the pointer of the key when it has been read.
ReadPointer(s) ==
  /\ at[s] = "pointer"
  /\ Goto(s, IF s \in lost THEN "failed" ELSE "open")
  /\ reason' = [reason EXCEPT ![s] = "load"]
  /\ UNCHANGED <<cacheFiles, key, digest, lost, value, pruneVars, faultsSoFar>>

\* What follows from what was found: "good", "bad", "absent", or "lost" when
\* the file lost its name.  Load takes a wrong digest for a miss.
LoadNext(found) ==
  CASE found = "good" -> "open" [] found = "lost" -> "failed" [] OTHER -> "discard"

\* Mutant: Restore does not compare the payload with its digest.
RestoreAnything(found) == IF found = "absent" THEN "discard" ELSE "done"

RestoreNext(found) == IF found = "good" THEN "done" ELSE "discard"

PutNext(found) == CASE found = "good" -> "ran" [] found = "absent" -> "link" [] OTHER -> "failed"

StoreNext(found) == IF found = "good" THEN "temp" ELSE "failed"

AfterRead(why, found) ==
  CASE why = "load" -> LoadNext(found) [] why = "restore" -> RestoreNext(found)
    [] why = "put" -> PutNext(found) [] why = "store" -> StoreNext(found)

OpenObject(s) ==
  /\ at[s] = "open"
  /\ Goto(s, IF content[digest[s]] = "absent" THEN AfterRead(reason[s], "absent") ELSE "hash")
  /\ lost' = lost \ {s}
  /\ UNCHANGED <<cacheFiles, key, digest, scanVars, pruneVars, faultsSoFar>>

\* The bytes are hashed, and the file must still have its name.
ReadObject(s) ==
  /\ at[s] = "hash"
  /\ LET found == IF s \in lost THEN "lost" ELSE content[digest[s]]
     IN /\ Goto(s, AfterRead(reason[s], found))
        /\ value' = [value EXCEPT ![s] = IF reason[s] = "restore" THEN found ELSE @]
        /\ reason' = [reason EXCEPT ![s] =
             CASE @ = "load" /\ found = "good" -> "restore"
               [] @ = "load" /\ found = "bad"  -> "rot"
               [] OTHER -> @]
  /\ UNCHANGED <<cacheFiles, key, digest, lost, pruneVars, faultsSoFar>>

AfterDiscard(s) == IF reason[s] = "rot" THEN "drop" ELSE "run"

\* FileCache.Delete looks for the pointer, then removes it; the same for
\* Load's miss and for executeStage's Invalidate.
Discard(s) ==
  /\ at[s] = "discard"
  /\ Goto(s, IF pointer[key[s]] = None THEN AfterDiscard(s) ELSE "unlink")
  /\ UNCHANGED <<cacheFiles, key, digest, lost, scanVars, pruneVars, faultsSoFar>>

RemovePointer(s) ==
  /\ at[s] = "unlink"
  /\ IF pointer[key[s]] = None
       THEN Goto(s, "failed") /\ UNCHANGED <<pointer, lost>>
       ELSE Goto(s, AfterDiscard(s)) /\ UnlinkPointer(key[s])
  /\ UNCHANGED <<content, litter, key, digest, scanVars, pruneVars, faultsSoFar>>

\* Load drops an object with a wrong digest, whatever comes of it.
DropObject(s) ==
  /\ at[s] = "drop"
  /\ Goto(s, IF content[digest[s]] = "absent" THEN "run" ELSE "dropping")
  /\ lost' = lost \ {s}
  /\ UNCHANGED <<cacheFiles, key, digest, scanVars, pruneVars, faultsSoFar>>

RemoveObject(s) ==
  /\ at[s] = "dropping"
  /\ Goto(s, "run")
  /\ IF s \in lost THEN UNCHANGED <<content, lost>> ELSE UnlinkObject(digest[s])
  /\ UNCHANGED <<pointer, litter, key, digest, scanVars, pruneVars, faultsSoFar>>

\* Stage.Run produces its payload and hands it to putPayload.
Run(s) ==
  /\ at[s] = "run"
  /\ \E o \in Outputs[key[s]] : digest' = [digest EXCEPT ![s] = o]
  /\ value' = [value EXCEPT ![s] = "good"]
  /\ reason' = [reason EXCEPT ![s] = "put"]
  /\ Goto(s, "open")
  /\ UNCHANGED <<cacheFiles, key, lost, pruneVars, faultsSoFar>>

\* Put links its synced temporary; an object that has appeared meanwhile is verified.
Link(s) ==
  /\ at[s] = "link"
  /\ IF content[digest[s]] = "absent"
       THEN Goto(s, "linked") /\ content' = [content EXCEPT ![digest[s]] = "good"]
       ELSE Goto(s, "open") /\ UNCHANGED content
  /\ lost' = lost \ {s}
  /\ UNCHANGED <<pointer, litter, key, digest, scanVars, pruneVars, faultsSoFar>>

Linked(s) ==
  /\ at[s] = "linked"
  /\ Goto(s, IF s \in lost THEN "failed" ELSE "ran")
  /\ UNCHANGED <<cacheFiles, key, digest, lost, scanVars, pruneVars, faultsSoFar>>

\* A result marked DoNotCache is not stored.
Ran(s) ==
  /\ at[s] = "ran"
  /\ \/ Goto(s, "done") /\ UNCHANGED reason
     \/ Goto(s, "open") /\ reason' = [reason EXCEPT ![s] = "store"]
  /\ UNCHANGED <<cacheFiles, key, digest, lost, value, pruneVars, faultsSoFar>>

\* FileCache.Store, its temporary written: an equal entry is a success.
Agrees(s) == pointer[key[s]] = digest[s]

Compare(s) ==
  /\ at[s] = "temp"
  /\ Goto(s, IF pointer[key[s]] = None THEN "install" ELSE IF Agrees(s) THEN "done" ELSE "failed")
  /\ UNCHANGED <<cacheFiles, key, digest, lost, scanVars, pruneVars, faultsSoFar>>

\* Mutant: the temporary is renamed over whatever is there.
Rename(s) ==
  /\ at[s] = "install"
  /\ pointer' = [pointer EXCEPT ![key[s]] = digest[s]]
  /\ Goto(s, "cleanup")
  /\ UNCHANGED <<content, litter, key, digest, lost, scanVars, pruneVars, faultsSoFar>>

Install(s) ==
  /\ at[s] = "install"
  /\ \/ /\ pointer[key[s]] = None
        /\ pointer' = [pointer EXCEPT ![key[s]] = digest[s]]
        /\ Goto(s, "cleanup")
     \/ /\ pointer[key[s]] # None
        /\ Goto(s, IF Agrees(s) THEN "done" ELSE "failed")
        /\ UNCHANGED pointer
  /\ UNCHANGED <<content, litter, key, digest, lost, scanVars, pruneVars, faultsSoFar>>

Cleanup(s) ==
  /\ at[s] = "cleanup"
  /\ Goto(s, "done")
  /\ UNCHANGED <<cacheFiles, key, digest, lost, scanVars, pruneVars, faultsSoFar>>

Scan(s) ==
  \/ OpenPointer(s) \/ ReadPointer(s) \/ OpenObject(s) \/ ReadObject(s)
  \/ Discard(s) \/ RemovePointer(s) \/ DropObject(s) \/ RemoveObject(s)
  \/ Run(s) \/ Link(s) \/ Linked(s) \/ Ran(s) \/ Compare(s) \/ Install(s) \/ Cleanup(s)

-----------------------------------------------------------------------------
(***************************************************************************)
(* A prune lists the pointers, deletes those it selects, then deletes      *)
(* every object that no pointer it keeps names.                            *)
(***************************************************************************)
BeginPrune(p) ==
  /\ Over(p)
  /\ Goto(p, "list")
  /\ left' = [left EXCEPT ![p] = Keys]
  /\ selected' = [selected EXCEPT ![p] = {}]
  /\ retained' = [retained EXCEPT ![p] = {}]
  /\ Enter(p)
  /\ UNCHANGED <<cacheFiles, key, digest, lost, scanVars, rots, crashes>>

SelectEntry(p, k) == selected' = [selected EXCEPT ![p] = @ \cup {k}] /\ UNCHANGED retained

RetainEntry(p, k) == retained' = [retained EXCEPT ![p] = @ \cup {pointer[k]}] /\ UNCHANGED selected

\* Entries fails at the first file that is no pointer.
List(p) ==
  /\ at[p] = "list"
  /\ \/ \E k \in left[p] :
          /\ left' = [left EXCEPT ![p] = @ \ {k}]
          /\ \/ /\ Temporary(k)
                /\ Goto(p, "failed") /\ UNCHANGED <<selected, retained>>
             \/ /\ ~Temporary(k) /\ pointer[k] = None
                /\ UNCHANGED <<at, selected, retained>>
             \/ /\ ~Temporary(k) /\ pointer[k] # None
                /\ SelectEntry(p, k) \/ RetainEntry(p, k)
                /\ UNCHANGED at
     \/ left[p] = {} /\ Goto(p, "delete") /\ UNCHANGED pruneVars
  /\ UNCHANGED <<cacheFiles, key, digest, lost, scanVars, faultsSoFar>>

\* FileCache.Delete, in its two looks.
Delete(p) ==
  /\ at[p] = "delete"
  /\ \/ \E k \in selected[p] :
          /\ key' = [key EXCEPT ![p] = k]
          /\ selected' = [selected EXCEPT ![p] = @ \ {k}]
          /\ IF pointer[k] = None THEN UNCHANGED at ELSE Goto(p, "unlink")
          /\ UNCHANGED left
     \/ /\ selected[p] = {}
        /\ left' = [left EXCEPT ![p] = {o \in Objects : content[o] # "absent"}]
        /\ Goto(p, "sweep")
        /\ UNCHANGED <<key, selected>>
  /\ UNCHANGED <<cacheFiles, digest, lost, scanVars, retained, faultsSoFar>>

DeletePointer(p) ==
  /\ at[p] = "unlink"
  /\ IF pointer[key[p]] = None
       THEN Goto(p, "failed") /\ UNCHANGED <<pointer, lost>>
       ELSE Goto(p, "delete") /\ UnlinkPointer(key[p])
  /\ UNCHANGED <<content, litter, key, digest, scanVars, pruneVars, faultsSoFar>>

Condemned(p) == left[p] \ retained[p]

Sweep(p) ==
  /\ at[p] = "sweep"
  /\ \/ \E o \in Condemned(p) :
          /\ left' = [left EXCEPT ![p] = @ \ {o}]
          /\ digest' = [digest EXCEPT ![p] = o]
          /\ lost' = lost \ {p}
          /\ IF content[o] = "absent" THEN UNCHANGED at ELSE Goto(p, "dropping")
     \/ Condemned(p) = {} /\ Goto(p, "done") /\ UNCHANGED <<left, digest, lost>>
  /\ UNCHANGED <<cacheFiles, key, scanVars, selected, retained, faultsSoFar>>

\* removeExactRegularFile: another file under the name is an error, none is not.
SweepObject(p) ==
  /\ at[p] = "dropping"
  /\ \/ p \notin lost /\ UnlinkObject(digest[p]) /\ Goto(p, "sweep")
     \/ /\ p \in lost
        /\ Goto(p, IF content[digest[p]] = "absent" THEN "sweep" ELSE "failed")
        /\ UNCHANGED <<content, lost>>
  /\ UNCHANGED <<pointer, litter, key, digest, scanVars, pruneVars, faultsSoFar>>

Prune(p) == List(p) \/ Delete(p) \/ DeletePointer(p) \/ Sweep(p) \/ SweepObject(p)

-----------------------------------------------------------------------------
\* Storage corrupts an object in place.
Rot ==
  /\ rots < MaxRots /\ rots' = rots + 1
  /\ \E o \in Objects : content[o] = "good" /\ content' = [content EXCEPT ![o] = "bad"]
  /\ UNCHANGED <<pointer, litter, at, key, digest, lost, scanVars, pruneVars, crashes, overlapped>>

\* A process dies; a temporary of FileCache.Store stays in its shard.
Crash(p) ==
  /\ ~Over(p) /\ crashes < MaxCrashes /\ crashes' = crashes + 1
  /\ Goto(p, "idle")
  /\ litter' = litter \cup {k \in {key[p]} : at[p] \in {"temp", "install", "cleanup"}}
  /\ value' = [s \in Scans |-> IF s = p THEN "none" ELSE value[s]]
  /\ UNCHANGED <<pointer, content, key, digest, lost, reason, pruneVars, rots, overlapped>>

CacheNext ==
  \/ \E s \in Scans : Begin(s) \/ Scan(s)
  \/ \E p \in Pruners : BeginPrune(p) \/ Prune(p)
  \/ Rot
  \/ \E p \in Procs : Crash(p)

CacheSpec == CacheInit /\ [][CacheNext]_cacheVars

\* A process keeps running; a repository is scanned again and again.
CacheFairSpec ==
  /\ CacheSpec
  /\ \A s \in Scans : WF_cacheVars(Scan(s)) /\ WF_cacheVars(Begin(s))
  /\ \A p \in Pruners : WF_cacheVars(Prune(p))

-----------------------------------------------------------------------------
\* "A corrupt or missing object never becomes a cache hit": what a stage
\* passes on was verified after the last moment it could be exchanged, however
\* storage, prunes and other scans interfere (StageCache.Load, readPayload).
HitsAreGenuine == \A s \in Scans : at[s] = "done" => value[s] = "good"

Dangling(k) == pointer[k] # None /\ content[pointer[k]] = "absent"

\* Pointers go before objects and retained digests are kept, so a prune that
\* met no scan leaves no pointer without its object, wherever it died.
NoDanglingPointer == (\E k \in Keys : Dangling(k)) => "scan" \in overlapped \/ rots > 0

\* A pointer is never changed, only deleted (FileCache.Store: "one immutable
\* metadata entry"), even when two runs of a stage disagree.
PointerKept == \A k \in Keys : pointer[k] # None => pointer'[k] \in {pointer[k], None}

\* A prune that met no other process leaves no object that no pointer names.
Collected ==
  \A p \in Pruners : at[p] = "sweep" /\ at'[p] = "done" /\ overlapped = {} =>
    \A o \in Objects : content[o] = "absent" \/ \E k \in Keys : pointer[k] = o

\* Scans that share a cache do not make each other fail, whoever dies in between:
\* one fails beside a prune, over corrupted storage, or because another run of its
\* stage has produced something else (Put and FileCache.Store accept what a
\* competitor installed).
FailuresExplained ==
  \A s \in Scans : at[s] # "failed" /\ at'[s] = "failed" =>
    "scan" \in overlapped \/ rots > 0 \/ pointer[key[s]] \notin {None, digest[s]}

\* What the cache promises in any state: a hit is genuine, and a prune that met
\* no scan leaves no pointer without its object.
CacheSound == CacheTypeOK /\ HitsAreGenuine /\ NoDanglingPointer

\* What a step may not do: exchange a pointer, end a prune that met nobody with an
\* object left that no pointer names, or fail a scan without one of the reasons.
CacheStepsSound == [][PointerKept /\ Collected /\ FailuresExplained]_cacheVars

\* Inductive: where a process stands tells what it has in hand and why, and an
\* object that is held open and has not lost its name is there; and as long as no prune has met a scan and storage has kept its objects, a scan holds
\* good objects only, and a prune has selected or retained every pointer it has
\* passed.
Stations ==
  /\ \A s \in Scans : at[s] \notin {"list", "delete", "sweep"}
  /\ \A p \in Pruners : at[p] \in {"idle", "list", "delete", "unlink", "sweep", "dropping", "done", "failed"}
  /\ \A s \in Scans : at[s] \notin {"idle", "load", "run", "done", "failed"} => digest[s] \in Objects
  /\ \A p \in Pruners : at[p] = "dropping" => digest[p] \in Objects
  /\ \A p \in Pruners : at[p] = "list" => left[p] \subseteq Keys \ selected[p]
  /\ \A p \in Pruners : at[p] \in {"sweep", "dropping"} => left[p] \subseteq Objects

Reasons ==
  \A s \in Scans :
    /\ at[s] \in {"open", "hash"} => reason[s] # "rot" /\ (reason[s] \in {"put", "store"} => value[s] = "good")
    /\ at[s] \in {"link", "linked", "ran", "temp", "install", "cleanup", "done"} => value[s] = "good"
    /\ at[s] = "link" => reason[s] = "put"

Held == \A p \in Procs : Holds(p) /\ p \notin lost => content[digest[p]] # "absent"

Quiet == "scan" \notin overlapped /\ rots = 0

Apart == "scan" \notin overlapped => Active(Scans) = {} \/ Active(Pruners) = {}

GoodInHand(s) ==
  \/ at[s] \in {"pointer", "hash", "linked", "ran", "temp", "install"}
  \/ at[s] = "open" /\ reason[s] # "put"

ScansQuiet ==
  \A s \in Scans :
    /\ reason[s] # "rot" /\ at[s] \notin {"discard", "unlink", "drop", "dropping"}
    /\ GoodInHand(s) => content[digest[s]] = "good"
    /\ at[s] \in {"pointer", "hash", "linked"} => s \notin lost

Spared(p) ==
  \A k \in Keys : pointer[k] # None =>
    \/ pointer[k] \in retained[p]
    \/ at[p] = "list" /\ k \in left[p]
    \/ at[p] \in {"list", "delete", "unlink"} /\ k \in selected[p]
    \/ at[p] = "unlink" /\ k = key[p]

Condemning(p) == at[p] = "dropping" => digest[p] \notin retained[p]

\* For a prune that is alone.
RetainedNamed(p) ==
  \A o \in retained[p] : \E k \in Keys :
    /\ pointer[k] = o
    /\ at[p] = "list" => k \notin left[p]
    /\ at[p] \in {"list", "delete", "unlink"} => k \notin selected[p]
    /\ at[p] = "unlink" => k # key[p]

Swept(p) ==
  at[p] \in {"sweep", "dropping"} =>
    \A o \in Objects : content[o] = "absent" \/ o \in left[p] \/ (at[p] = "dropping" /\ o = digest[p])

WhileQuiet ==
  Quiet => /\ ScansQuiet /\ (\A o \in Objects : content[o] # "bad") /\ (\A k \in Keys : ~Dangling(k))
           /\ \A p \in Active(Pruners) : Spared(p) /\ Condemning(p)

WhileApart == "scan" \notin overlapped => \A p \in Active(Pruners) : Swept(p)

WhileAlone ==
  overlapped = {} => /\ \A p, q \in Active(Pruners) : p = q
                     /\ \A p \in Active(Pruners) : RetainedNamed(p)

KeptInv == CacheTypeOK /\ Stations /\ Reasons /\ Held /\ Apart /\ WhileQuiet /\ WhileApart /\ WhileAlone

\* A pointer to a deleted object does not stay: a scan of its key takes it for
\* a miss (one key, so that each scan is of that key).
DanglingHeals == \A k \in Keys : Dangling(k) ~> ~Dangling(k)
=============================================================================
