----------------------------- MODULE MCProgress -----------------------------
(***************************************************************************)
(* Instances for TLC of what must happen in the end, all without faults    *)
(* that never stop: a guarded command, the recovery of the SQLite store    *)
(* and of the snapshot store, a workspace watch, a repeated scan, the      *)
(* stage cache and the workbench's jobs.  A behaviour exercises one        *)
(* component, `part' says which; only that component's steps are fair.     *)
(***************************************************************************)
EXTENDS GuardedCommand, TLC

CONSTANTS p1, p2, p3, d1, d2, g1, g2, a, r1, None

VARIABLES
  part,
  state, build, finished, snapshots, current, open, attached, shared, exclusive, mutex, pc, task,
  disk, gen, built, writer, pinned, leased, stage, mem, src, new, todo, want, cached, faults, lost,
  tables, head, atlas, store, pointed, phase, bundle, stores, noop, ended, installed, alone, errors,
  pointer, content, litter, where, entry, reason, digest, unlinked, value, left, selected, retained,
  rots, deaths, overlapped,
  kind, using, st, table, context, retain, stands, verdict, slot, proc, code, dir, output, loaded,
  active, activated, generation, number, connection, dead, connectCancel, expired, asking,
  cancel, target, answer, closed, closing, toCancel, pending, closeFails,
  doing, id, inMemory, place, marker, rec, lock, ghosts, rubbish, published, chosen, objects, missing, aged, victim, list, mishaps

storing == <<state, build, finished, snapshots, current, open, attached, shared, exclusive, mutex, pc, task>>
watching == <<disk, gen, built, writer, pinned, leased, stage, mem, src, new, todo, want, cached, faults, lost>>
repeating == <<tables, head, atlas, store, pointed, phase, bundle, stores, noop, ended, installed, alone, errors>>
caching == <<pointer, content, litter, where, entry, reason, digest, unlinked, value, left, selected, retained,
             rots, deaths, overlapped>>
working == <<kind, using, st, table, context, retain, stands, verdict, slot, proc, code, dir, output, loaded,
             active, activated, generation, number, connection, dead, connectCancel, expired, asking,
             cancel, target, answer, closed, closing, toCancel, pending, closeFails>>
recovering == <<doing, id, inMemory, place, marker, rec, lock, ghosts, rubbish, published, chosen, objects, missing, aged,
                victim, list, mishaps>>

Store == INSTANCE SqliteStore WITH
  Handles <- {d1, d2}, Clients <- {p1, p2, p3}, Home <- (p1 :> d1) @@ (p2 :> d1) @@ (p3 :> d2),
  Builds <- {g1, g2}, Repos <- {a}, SnapIds <- {g1}, Records <- {r1}, Refs <- r1 :> {},
  MaxOpen <- 2, MaxRecords <- 2

Watch == INSTANCE Workspace WITH
  Sources <- {a}, Gens <- {g1, g2}, Writers <- {p1}, Readers <- {r1},
  MaxMishaps <- 1, MaxPolicies <- 1, Nothing <- None,
  lock <- writer, exclusive <- pinned, shared <- leased, doing <- stage, remaining <- todo, mishaps <- faults

Repeat == INSTANCE ScanPublication WITH
  Scans <- {p1, p2}, SnapIds <- {g1, g2}, Options <- {{"database", "state"}}, MaxFaults <- 1,
  db <- tables, current <- pointed, at <- phase, outcome <- ended, faults <- errors

Cache == INSTANCE StageCache WITH
  Scans <- {p1}, Pruners <- {p3}, Keys <- {a}, Objects <- {g1}, Outputs <- a :> {g1},
  MaxRots <- 1, MaxCrashes <- 0,
  at <- where, key <- entry, lost <- unlinked, crashes <- deaths

Jobs == INSTANCE Workbench WITH
  Jobs <- {p1, p2}, Kinds <- {"command"}, Requests <- {}, Callers <- {}, MaxJobs <- 2, Portable <- FALSE,
  ctx <- context, at <- stands, result <- code, atlas <- output, conn <- connection

Snaps == INSTANCE SnapshotStore WITH
  Txns <- {p1, p3}, Admins <- {p2}, SnapIds <- {g1}, Bundles <- {a}, MaxMishaps <- 1,
  pc <- doing, mem <- inMemory, dir <- place, litter <- rubbish, current <- chosen, lost <- missing,
  entry <- victim, todo <- list

MCInit ==
  /\ part \in {"guard", "store", "snapshots", "watch", "repeat", "cache", "jobs"}
  /\ GuardInit /\ Store!Init /\ Watch!WorkspaceInit /\ Repeat!Init /\ Cache!CacheInit /\ Jobs!Init
  /\ Snaps!Init

\* Every component but the one `part' names stays as it is.
Elsewhere ==
  /\ UNCHANGED part
  /\ part # "guard" => UNCHANGED guardVars
  /\ part # "store" => UNCHANGED storing
  /\ part # "watch" => UNCHANGED watching
  /\ part # "repeat" => UNCHANGED repeating
  /\ part # "cache" => UNCHANGED caching
  /\ part # "jobs" => UNCHANGED working
  /\ part # "snapshots" => UNCHANGED recovering

MCNext ==
  /\ Elsewhere
  /\ \/ part = "guard" /\ GuardNext
     \/ part = "store" /\ Store!Next
     \/ part = "watch" /\ Watch!WorkspaceNext
     \/ part = "repeat" /\ Repeat!Next
     \/ part = "cache" /\ Cache!CacheNext
     \/ part = "jobs" /\ Jobs!Next /\ closing' = "open"
     \/ /\ part = "snapshots" /\ Snaps!Next
        \* nothing is lost, coverage is left out, and the other transaction writes nothing
        /\ objects \subseteq objects' /\ inMemory'[p1].coverage = None
        /\ doing'[p3] \notin {"binding", "aborting"}

MCVars == <<part, guardVars, storing, watching, repeating, caching, working, recovering>>

\* A step of the component that the behaviour exercises.
Of(p, Action) == part = p /\ Elsewhere /\ Action

\* The fairness of each component, for the behaviours that exercise it.  A
\* conjunct is about one process of each component, and in a behaviour about one
\* component; recovery is asked for again and again, by whatever process.
MCFairness ==
  /\ WF_MCVars(\/ Of("guard", Run)
              \/ Of("store", Store!Continues(p1))
              \/ Of("watch", Watch!OpenWorkspace(p1))
              \/ Of("repeat", Repeat!Publish(p1))
              \/ Of("cache", Cache!Scan(p1))
              \/ Of("jobs", Jobs!Work(p1))
              \/ Of("snapshots", Snaps!GrowOld(p1)))
  /\ WF_MCVars(\/ Of("guard", Waited)
              \/ Of("store", Store!Continues(p2))
              \/ Of("watch", Watch!Write(p1))
              \/ Of("repeat", Repeat!Publish(p2))
              \/ Of("cache", Cache!Begin(p1))
              \/ Of("jobs", Jobs!Work(p2))
              \/ Of("snapshots", Snaps!AdminNext(p2)))
  /\ WF_MCVars(\/ Of("guard", ctx = "ended" /\ Stop)
              \/ Of("store", Store!Continues(p3))
              \/ Of("watch", Watch!Read(r1))
              \/ Of("cache", Cache!Prune(p3))
              \/ Of("jobs", Jobs!Deadline(p1))
              \/ Of("snapshots", Snaps!Continues(p1)))
  /\ WF_MCVars(\/ Of("store", Store!OpenHandle(d1))
              \/ Of("jobs", Jobs!Deadline(p2))
              \/ Of("snapshots", Snaps!Continues(p3)))
  /\ WF_MCVars(Of("store", Store!OpenHandle(d2)))
  /\ SF_MCVars(\/ Of("store", \E c \in {p1, p2, p3} : Store!RecoverLock(c))
              \/ Of("watch", Watch!TakeLock(p1) /\ stage'[p1] = "open")
              \/ Of("snapshots", Snaps!RecoverList(p2)))
  /\ SF_MCVars(\/ Of("store", \E c \in {p1, p2, p3} : Store!RecoverApply(c))
              \/ Of("watch", Watch!Sync(p1)))
  /\ SF_MCVars(Of("watch", Watch!Refreshed(p1) /\ stage'[p1] = "list"))

MCSpec == MCInit /\ [][MCNext]_MCVars /\ MCFairness

-----------------------------------------------------------------------------
\* The builds, generations, scans and jobs of an instance are alike: what is
\* stated below of one of them holds of each.

\* What an interrupted operation has left behind goes in the end: a build whose
\* process is gone, as long as quiet moments keep coming (OrphansReclaimed), a
\* building directory of a snapshot nobody writes, beside a live one, unless
\* Recover meets an entry it leaves to an operator (AbandonedRecovered), a
\* generation the registry no longer names (GarbageCollected), and a pointer
\* whose object is missing (DanglingHeals).
Leftover ==
  \/ part = "store" /\ Store!Orphan(g1)
  \/ part = "watch" /\ Watch!Garbage(g1)
  \/ part = "cache" /\ Cache!Dangling(a)
  \/ part = "snapshots" /\ Snaps!Abandoned(p1)
Gone ==
  \/ part = "store" /\ state[g1] # "open"
  \/ part = "watch" /\ ~Watch!Garbage(g1)
  \/ part = "cache" /\ ~Cache!Dangling(a)
  \/ part = "snapshots" /\ (place[p1] # "building" \/ Snaps!Wedged)
LeftoversGo == []<>(part = "store" => Store!Quiet) => (Leftover ~> Gone)

\* What was asked for comes to its end: a cancelled Run returns
\* (CancelReturns), a scan repeated alone completes what the first has left
\* undone (RetrySucceeds), and a job ends that waits for the slot (JobsEnd).
Asked ==
  \/ part = "guard" /\ ctx = "ended"
  \/ part = "repeat" /\ Repeat!Retried(p1)
  \/ part = "jobs" /\ Jobs!Waiting(p1)
Served ==
  \/ part = "guard" /\ position = "returned"
  \/ part = "repeat" /\ (ended[p1] = "succeeded" \/ ~alone[p1])
  \/ part = "jobs" /\ Jobs!Over(p1)
RequestsEnd == Asked ~> Served
=============================================================================
