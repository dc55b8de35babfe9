------------------------------ MODULE Workspace ------------------------------
(***************************************************************************)
(* The private workspace: registry.json names, for every source, an active *)
(* and a previous generation of its atlas.  One writer at a time (a kernel *)
(* lock) adds sources, changes their review policy, refreshes them into    *)
(* new generations and prunes old ones; MCP readers take no writer lock,   *)
(* but pin the generation they load with a shared lease.  Saves fail, with *)
(* or without effect, and processes die between any two steps.             *)
(***************************************************************************)
EXTENDS Naturals, FiniteSets

CONSTANTS
  Sources,    \* source aliases
  Gens,       \* generation directories, each created at most once
  Writers,    \* processes that run `rkc workspace add`, `review` or `sync`
  Readers,    \* MCP servers over the workspace
  Nothing,       \* no generation, source or process
  MaxMishaps,  \* bound on failed saves and crashes
  MaxPolicies \* bound on changes of a source's review policy

WorkspaceAssumption ==
  /\ Nothing \notin Sources \cup Gens \cup Writers \cup Readers
  /\ MaxMishaps \in Nat /\ MaxPolicies \in Nat

VARIABLES
  disk,      \* registry.json
  gen,       \* the directory of each generation
  built,     \* the source and policy a generation was built for
  lock,      \* who holds writer.lock
  exclusive, \* who holds a generation's lease exclusively
  shared,    \* the readers that hold it
  doing,        \* where each process stands
  mem,       \* a writer's Registry
  src,       \* the source a process works on
  new,       \* the generation a refresh has created
  remaining,      \* sources still to refresh, or generations still to look at
  want,      \* the generation a reader found active
  cached,    \* the generation it has loaded
  mishaps, lost \* history: lost once a save has failed without effect

registryFiles == <<disk, gen, built>>
leases == <<lock, exclusive, shared>>
writing == <<mem, src, new, remaining>>
reading == <<want, cached>>
hits == <<mishaps, lost>>
workspaceVars == <<registryFiles, leases, doing, writing, reading, hits>>

Statuses == {"absent", "pending", "stale", "error", "current"}

SourceEntry == [active : Gens \cup {Nothing}, previous : Gens \cup {Nothing},
          status : Statuses, policy : 0..MaxPolicies]

Registered(r) == {r[s].active : s \in Sources} \cup {r[s].previous : s \in Sources}

WorkspaceTypeOK ==
  /\ disk \in [Sources -> SourceEntry] /\ mem \in [Writers -> [Sources -> SourceEntry]]
  /\ gen \in [Gens -> {"none", "building", "complete", "torn", "unowned", "gone"}]
  /\ built \in [Gens -> [source : Sources \cup {Nothing}, policy : 0..MaxPolicies]]
  /\ lock \in Writers \cup {Nothing}
  /\ exclusive \in [Gens -> Writers \cup {Nothing}] /\ shared \in [Gens -> SUBSET Readers]
  /\ \A s \in Sources : disk[s].active = Nothing => disk[s].previous = Nothing /\ disk[s].status # "current"
  /\ doing \in [Writers \cup Readers ->
               {"idle", "locking", "open", "mark", "produce", "fill", "conclude", "list", "prune",
                "remove", "close", "acquire", "load", "loaded"}]
  /\ src \in [Writers -> Sources \cup {Nothing}] /\ new \in [Writers -> Gens \cup {Nothing}]
  /\ remaining \in [Writers -> SUBSET (Sources \cup Gens)]
  /\ want \in [Readers -> Gens \cup {Nothing}] /\ cached \in [Readers -> Gens \cup {Nothing}]
  /\ mishaps \in 0..MaxMishaps /\ lost \in BOOLEAN

Unregistered == [active |-> Nothing, previous |-> Nothing, status |-> "absent", policy |-> 0]

WorkspaceInit ==
  /\ disk = [s \in Sources |-> Unregistered]
  /\ gen = [g \in Gens |-> "none"]
  /\ built = [g \in Gens |-> [source |-> Nothing, policy |-> 0]]
  /\ lock = Nothing
  /\ exclusive = [g \in Gens |-> Nothing] /\ shared = [g \in Gens |-> {}]
  /\ doing = [p \in Writers \cup Readers |-> "idle"]
  /\ mem = [w \in Writers |-> disk]
  /\ src = [w \in Writers |-> Nothing] /\ new = [w \in Writers |-> Nothing]
  /\ remaining = [w \in Writers |-> {}]
  /\ want = [r \in Readers |-> Nothing] /\ cached = [r \in Readers |-> Nothing]
  /\ mishaps = 0 /\ lost = FALSE

MoveTo(p, where) == doing' = [doing EXCEPT ![p] = where]

-----------------------------------------------------------------------------
\* Store.Open: the registry is read, and read again under the writer lock.
OpenWorkspace(w) ==
  /\ doing[w] = "idle" /\ MoveTo(w, "locking")
  /\ mem' = [mem EXCEPT ![w] = disk]
  /\ UNCHANGED <<registryFiles, leases, src, new, remaining, reading, hits>>

\* Mutant: what was read before the lock is kept.
KeepRead(w) == mem

Reload(w) == [mem EXCEPT ![w] = disk]

TakeLock(w) ==
  /\ doing[w] = "locking"
  /\ IF lock = Nothing
       THEN /\ lock' = w /\ mem' = Reload(w)
            /\ MoveTo(w, "open")
       ELSE MoveTo(w, "idle") /\ UNCHANGED <<lock, mem>>
  /\ UNCHANGED <<registryFiles, exclusive, shared, src, new, remaining, reading, hits>>

\* save: the changed registry is in memory whether or not it reaches the disk,
\* and an error does not tell which.
Save(w, changed) ==
  /\ mem' = [mem EXCEPT ![w] = changed]
  /\ \/ disk' = changed /\ UNCHANGED hits
     \/ /\ mishaps < MaxMishaps /\ mishaps' = mishaps + 1
        /\ \/ disk' = changed /\ UNCHANGED lost
           \/ lost' = TRUE /\ UNCHANGED disk

Succeeded == mishaps' = mishaps

Add(w) ==
  /\ doing[w] = "open"
  /\ \E s \in Sources :
       /\ mem[w][s].status = "absent"
       /\ Save(w, [mem[w] EXCEPT ![s].status = "pending"])
  /\ MoveTo(w, "close")
  /\ UNCHANGED <<gen, built, leases, src, new, remaining, reading>>

Repoliced(e) ==
  [e EXCEPT !.policy = @ + 1, !.status = IF e.active = Nothing THEN "pending" ELSE "stale"]

SetSecretReviews(w) ==
  /\ doing[w] = "open"
  /\ \E s \in Sources :
       /\ mem[w][s].status # "absent" /\ mem[w][s].policy < MaxPolicies
       /\ Save(w, [mem[w] EXCEPT ![s] = Repoliced(@)])
  /\ MoveTo(w, "close")
  /\ UNCHANGED <<gen, built, leases, src, new, remaining, reading>>

Known(w) == {s \in Sources : mem[w][s].status # "absent"}

\* `rkc workspace sync` refreshes every source, or one.
Sync(w) ==
  /\ doing[w] = "open"
  /\ \E S \in {Known(w)} \cup {{s} : s \in Known(w)} : remaining' = [remaining EXCEPT ![w] = S]
  /\ MoveTo(w, "mark")
  /\ UNCHANGED <<registryFiles, leases, mem, src, new, reading, hits>>

-----------------------------------------------------------------------------
\* Refresh: the source is stale until the check has concluded.
MarkStale(w) ==
  /\ doing[w] = "mark"
  /\ \E s \in remaining[w] :
       /\ remaining' = [remaining EXCEPT ![w] = @ \ {s}]
       /\ src' = [src EXCEPT ![w] = s]
       /\ Save(w, [mem[w] EXCEPT ![s].status = "stale"])
  /\ MoveTo(w, IF Succeeded THEN "produce" ELSE "mark")
  /\ UNCHANGED <<gen, built, leases, new, reading>>

\* The active generation is complete and was built from what the source is now.
Unchanged(w) ==
  LET e == mem[w][src[w]]
  IN e.active # Nothing /\ gen[e.active] = "complete" /\ built[e.active].policy = e.policy

\* compileWorkspaceSource: the active generation still matches, or a new one
\* is created; it is removed again unless every gate has passed.
Produce(w) ==
  /\ doing[w] = "produce"
  /\ \/ /\ Unchanged(w)
        /\ new' = [new EXCEPT ![w] = Nothing] /\ MoveTo(w, "conclude")
        /\ UNCHANGED <<gen, built>>
     \/ \E g \in Gens :
          /\ gen[g] = "none"
          /\ gen' = [gen EXCEPT ![g] = "building"]
          /\ built' = [built EXCEPT ![g] = [source |-> src[w], policy |-> mem[w][src[w]].policy]]
          /\ new' = [new EXCEPT ![w] = g] /\ MoveTo(w, "fill")
  /\ UNCHANGED <<disk, leases, mem, src, remaining, reading, hits>>

Fill(w) ==
  /\ doing[w] = "fill"
  /\ gen' = [gen EXCEPT ![new[w]] = "complete"]
  /\ MoveTo(w, "conclude")
  /\ UNCHANGED <<disk, built, leases, writing, reading, hits>>

\* Whatever fails in the producer, cancellation included; one that comes once it has
\* returned leaves its generation complete and unregistered.
ProduceFails(w) ==
  /\ doing[w] \in {"produce", "fill", "conclude"}
  /\ IF doing[w] = "fill"
       THEN gen' = [gen EXCEPT ![new[w]] = "gone"]
       ELSE UNCHANGED gen
  /\ Save(w, [mem[w] EXCEPT ![src[w]].status = "error"])
  /\ MoveTo(w, "mark")
  /\ UNCHANGED <<built, leases, src, new, remaining, reading>>

Activated(e, g) == [e EXCEPT !.active = g, !.previous = e.active]

Conclude(w) ==
  /\ doing[w] = "conclude"
  /\ LET s == src[w]
         e == IF new[w] = Nothing THEN mem[w][s] ELSE Activated(mem[w][s], new[w])
     IN \E status \in {"current"} \cup IF new[w] = Nothing THEN {} ELSE {"stale"} :
          Save(w, [mem[w] EXCEPT ![s] = [e EXCEPT !.status = status]])
  /\ new' = [new EXCEPT ![w] = Nothing]
  /\ MoveTo(w, "mark")
  /\ UNCHANGED <<gen, built, leases, src, remaining, reading>>

\* After the last source the sync prunes, failed refreshes or not, unless it
\* was cancelled.
Refreshed(w) ==
  /\ doing[w] = "mark" /\ remaining[w] = {}
  /\ MoveTo(w, "list") \/ MoveTo(w, "close")
  /\ UNCHANGED <<registryFiles, leases, writing, reading, hits>>

-----------------------------------------------------------------------------
Retained(w) == Registered(mem[w])

\* Prune: the directory is listed once, and judged by the registry in memory.
ListGens(w) ==
  /\ doing[w] = "list"
  /\ remaining' = [remaining EXCEPT ![w] = {g \in Gens : gen[g] \notin {"none", "gone"}} \ Retained(w)]
  /\ MoveTo(w, "prune")
  /\ UNCHANGED <<registryFiles, leases, mem, src, new, reading, hits>>

Removable(g) == gen[g] \notin {"unowned", "gone"} /\ shared[g] = {} /\ exclusive[g] = Nothing

\* A busy or unowned generation stays; another is removed under its lease,
\* its marker sooner or later.
Take(w) ==
  /\ doing[w] = "prune"
  /\ \E g \in remaining[w] :
       /\ remaining' = [remaining EXCEPT ![w] = @ \ {g}]
       /\ IF Removable(g)
            THEN /\ exclusive' = [exclusive EXCEPT ![g] = w]
                 /\ new' = [new EXCEPT ![w] = g] /\ MoveTo(w, "remove")
            ELSE UNCHANGED <<exclusive, new, doing>>
  /\ UNCHANGED <<registryFiles, lock, shared, mem, src, reading, hits>>

RemoveAll(w) ==
  /\ doing[w] = "remove"
  /\ LET g == new[w]
     IN \/ /\ gen[g] \notin {"torn", "unowned"}
           /\ \E left \in {"torn", "unowned"} : gen' = [gen EXCEPT ![g] = left]
           /\ UNCHANGED <<exclusive, new, doing>>
        \/ /\ gen[g] \in {"torn", "unowned"}
           /\ gen' = [gen EXCEPT ![g] = "gone"]
           /\ exclusive' = [exclusive EXCEPT ![g] = Nothing]
           /\ new' = [new EXCEPT ![w] = Nothing] /\ MoveTo(w, "prune")
  /\ UNCHANGED <<disk, built, lock, shared, mem, src, remaining, reading, hits>>

Pruned(w) ==
  /\ doing[w] = "prune" /\ remaining[w] = {} /\ MoveTo(w, "close")
  /\ UNCHANGED <<registryFiles, leases, writing, reading, hits>>

Forget(w) ==
  /\ mem' = [mem EXCEPT ![w] = [s \in Sources |-> Unregistered]]
  /\ src' = [src EXCEPT ![w] = Nothing] /\ new' = [new EXCEPT ![w] = Nothing]
  /\ remaining' = [remaining EXCEPT ![w] = {}]

CloseWorkspace(w) ==
  /\ doing[w] = "close" /\ MoveTo(w, "idle")
  /\ lock' = Nothing /\ Forget(w)
  /\ UNCHANGED <<registryFiles, exclusive, shared, reading, hits>>

-----------------------------------------------------------------------------
\* dataset: each request reads the registry; only the atlas it names is served
\* from the cache, any other is loaded under a shared lease.
AskFor(r) ==
  /\ doing[r] = "idle"
  /\ \E s \in Sources :
       /\ disk[s].active # Nothing
       /\ want' = [want EXCEPT ![r] = disk[s].active]
       /\ IF cached[r] = disk[s].active
            THEN UNCHANGED <<doing, cached>>
            ELSE MoveTo(r, "acquire") /\ cached' = [cached EXCEPT ![r] = Nothing]
  /\ UNCHANGED <<registryFiles, leases, writing, hits>>

Acquire(r) ==
  /\ doing[r] = "acquire"
  /\ LET g == want[r]
     IN \/ /\ gen[g] \notin {"unowned", "gone"} /\ exclusive[g] = Nothing
           /\ shared' = [shared EXCEPT ![g] = @ \cup {r}]
           /\ MoveTo(r, "load")
        \/ /\ gen[g] \in {"unowned", "gone"} \/ exclusive[g] # Nothing
           /\ MoveTo(r, "idle") /\ UNCHANGED shared
  /\ UNCHANGED <<registryFiles, lock, exclusive, writing, reading, hits>>

\* The manifest is verified before and after the atlas is read.
Load(r) ==
  /\ doing[r] = "load"
  /\ MoveTo(r, "loaded")
  /\ UNCHANGED <<registryFiles, leases, writing, reading, hits>>

Loaded(r) ==
  /\ doing[r] = "loaded" /\ MoveTo(r, "idle")
  /\ shared' = [shared EXCEPT ![want[r]] = @ \ {r}]
  /\ IF gen[want[r]] = "complete"
       THEN cached' = [cached EXCEPT ![r] = want[r]]
       ELSE UNCHANGED cached
  /\ UNCHANGED <<registryFiles, lock, exclusive, writing, want, hits>>

-----------------------------------------------------------------------------
\* The kernel releases the locks of a dead process.
WriterDies(w) ==
  /\ doing[w] # "idle" /\ MoveTo(w, "idle")
  /\ mishaps < MaxMishaps /\ mishaps' = mishaps + 1
  /\ lock' = IF lock = w THEN Nothing ELSE lock
  /\ exclusive' = [g \in Gens |-> IF exclusive[g] = w THEN Nothing ELSE exclusive[g]]
  /\ Forget(w)
  /\ UNCHANGED <<registryFiles, shared, reading, lost>>

Write(w) ==
  \/ TakeLock(w) \/ Add(w) \/ SetSecretReviews(w) \/ Sync(w) \/ MarkStale(w) \/ Produce(w) \/ Fill(w)
  \/ ProduceFails(w) \/ Conclude(w) \/ Refreshed(w) \/ ListGens(w) \/ Take(w) \/ RemoveAll(w)
  \/ Pruned(w) \/ CloseWorkspace(w)

Read(r) == Acquire(r) \/ Load(r) \/ Loaded(r)

WorkspaceNext ==
  \/ \E w \in Writers : OpenWorkspace(w) \/ Write(w) \/ WriterDies(w)
  \/ \E r \in Readers : AskFor(r) \/ Read(r)

WorkspaceSpec == WorkspaceInit /\ [][WorkspaceNext]_workspaceVars

\* `rkc workspace watch` syncs again and again without being cancelled; a sync
\* and a load that have begun end.
WorkspaceFairSpec ==
  /\ WorkspaceSpec
  /\ \A w \in Writers :
       /\ WF_workspaceVars(OpenWorkspace(w)) /\ WF_workspaceVars(Write(w))
       /\ SF_workspaceVars(TakeLock(w) /\ doing'[w] = "open") /\ SF_workspaceVars(Sync(w)) /\ SF_workspaceVars(Refreshed(w) /\ doing'[w] = "list")
  /\ \A r \in Readers : WF_workspaceVars(Read(r))

-----------------------------------------------------------------------------
\* The registry on disk never names an active generation that is not complete,
\* whatever saves fail and whoever dies (Refresh, Prune).
ActiveAvailable ==
  \A s \in Sources : disk[s].active # Nothing =>
    gen[disk[s].active] = "complete" /\ built[disk[s].active].source = s

\* The same for the previous generation, as long as no save has failed.
PreviousAvailable ==
  ~lost => \A s \in Sources : disk[s].previous # Nothing => gen[disk[s].previous] = "complete"

\* A source is reported current only with an atlas built under its policy.
CurrentIsHonest ==
  \A s \in Sources : disk[s].status = "current" => built[disk[s].active].policy = disk[s].policy

\* The registry names complete generations only, and calls current only what
\* was built under the source's policy.
GenerationsSound == WorkspaceTypeOK /\ ActiveAvailable /\ PreviousAvailable /\ CurrentIsHonest

\* A reader's lease protects what it loads until it is done (AcquireActive).
Keeps ==
  \A r \in Readers : doing[r] \in {"load", "loaded"} /\ gen[want[r]] = "complete" =>
    gen'[want[r]] = "complete"
PinnedKept == [][Keeps]_workspaceVars

\* Inductive.  A registry, on disk or in the memory of the writer that holds the
\* lock, names what was complete once; the two differ only by what the writer has
\* changed since it last saved: no source twice, so the active generation on disk
\* is one that a prune by the registry in memory retains.
Held == {"open", "mark", "produce", "fill", "conclude", "list", "prune", "remove", "close"}

Names(m) ==
  \A s \in Sources :
    /\ m[s].active # Nothing => gen[m[s].active] = "complete" /\ built[m[s].active].source = s
    /\ m[s].active = Nothing => m[s].previous = Nothing /\ m[s].status # "current"
    /\ m[s].previous # Nothing => gen[m[s].previous] \notin {"none", "building"}
    /\ m[s].status = "current" => built[m[s].active].policy = m[s].policy

\* Sources whose generation the writer may still replace.
Ahead(w) ==
  IF doing[w] = "open" THEN Sources
  ELSE IF doing[w] = "mark" THEN remaining[w]
  ELSE IF doing[w] \in {"produce", "fill", "conclude"} THEN remaining[w] \cup {src[w]} ELSE {}

SavedOnce(w) ==
  \A s \in Sources :
    \/ mem[w][s].active = disk[s].active /\ mem[w][s].previous = disk[s].previous
    \/ s \notin Ahead(w) /\ mem[w][s].previous = disk[s].active

Refreshing(w) ==
  /\ doing[w] \in {"mark", "produce", "fill", "conclude"} => remaining[w] \subseteq Sources
  /\ doing[w] \in {"produce", "fill", "conclude"} => src[w] \in Sources \ remaining[w]
  /\ doing[w] = "fill" =>
       /\ new[w] # Nothing /\ gen[new[w]] = "building"
       /\ built[new[w]] = [source |-> src[w], policy |-> mem[w][src[w]].policy]
  /\ doing[w] = "conclude" =>
       IF new[w] = Nothing
       THEN /\ mem[w][src[w]].active # Nothing
            /\ built[mem[w][src[w]].active].policy = mem[w][src[w]].policy
       ELSE /\ gen[new[w]] = "complete"
            /\ built[new[w]] = [source |-> src[w], policy |-> mem[w][src[w]].policy]

Pruning(w) ==
  /\ doing[w] \in {"prune", "remove"} => remaining[w] \subseteq Gens \ Registered(mem[w])
  /\ doing[w] = "remove" => new[w] \in Gens \ Registered(mem[w]) /\ exclusive[new[w]] = w

WorkspaceInv ==
  /\ WorkspaceTypeOK /\ Names(disk) /\ PreviousAvailable
  /\ \A w \in Writers :
       /\ doing[w] \in Held <=> lock = w
       /\ lock = w => Names(mem[w]) /\ (~lost => mem[w] = disk) /\ SavedOnce(w)
                       /\ Refreshing(w) /\ Pruning(w)
  /\ \A g \in Gens : exclusive[g] # Nothing => shared[g] = {}
  /\ \A r \in Readers :
       /\ doing[r] \in {"acquire", "load", "loaded"} => want[r] \in Gens
       /\ doing[r] \in {"load", "loaded"} => r \in shared[want[r]]

\* With a watch that goes on, what the registry no longer names is removed at
\* last, a prune that died half-way aside.
Garbage(g) == gen[g] \in {"building", "complete"} /\ g \notin Registered(disk)

GarbageCollected ==
  \A g \in Gens : Garbage(g) ~> ~Garbage(g)
=============================================================================
