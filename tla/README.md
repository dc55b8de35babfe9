# TLA+ models of RKC

RKC compiles a repository into an evidence-backed knowledge bundle. This
directory holds TLA+ models of the parts of RKC that keep state while other
goroutines or processes work on it, that have to survive a crash, or whose
result must not depend on an order nobody controls; TLC configurations that
check the models on small instances; and proofs that TLAPS checks for every
value of the constants. `PROJECT.json` maps every definition to the lines it
models and lists the runs, the mutants, the hazards and the theorems.

Contents

1. The system
2. The models and how they correspond to the code
3. What each run checks, and its bounds
4. Fairness
5. What is proved, and how
6. Disagreements between the code and what it says, and observations
7. Assumptions and abstractions
8. What is not modelled, and the plan

## 1. The system

### How the parts interact

`rkc scan` (cmd/rkc/scan.go) is the one command that composes most of the
stateful parts. In this order it

1. opens a run journal and runs the pipeline stages through the scheduler,
   which consults a stage cache and writes the journal;
2. commits the bundle to the SQLite store, if one is given;
3. publishes the rendered atlas by renaming a staged directory into place;
4. publishes the snapshot: Begin, WriteBundle, WriteCoverage and Commit on the
   filesystem store, or SetCurrent if the snapshot exists already;
5. appends the terminal record to the journal, closes it and reads it back.

Every step may fail, and the process may stop between any two of them. Nothing
is shared in memory between commands: processes meet in files only, through
advisory locks, exclusive creation, renames and SQLite transactions. Inside a
process the scheduler's goroutines share one journal, the clients of a SQLite
handle share its lease map, the workbench's goroutines share its table of jobs,
and the callers of a model provider share its process and its bound files.

Above the scan, a private workspace keeps generations of atlases and pins the
ones that MCP servers read; the workbench starts scans as jobs and exchanges the
dataset that the read APIs serve. Before any of them works on a shared host, the
resource guard measures competitors, looks for the lease of another program's
model, proves that its own threads are confined, or runs the work in a guarded
child. Compiler indexes, runtime captures and interface histories are made by
commands of their own, stored as files, and imported by a later scan that must
decide how far to believe them.

### Inventory

| Component | State | Operations | What is hard | What must hold |
| --- | --- | --- | --- | --- |
| Filesystem snapshot store (internal/snapshot) | building directories with lease, marker and record; snapshots/; CURRENT; objects | Begin, WriteBundle, WriteCoverage, Commit, Abort, Recover, SetCurrent | several processes and one directory tree; crashes between filesystem effects; retried aborts | live builds are kept; what is published is complete, intact and permanent; CURRENT names something published; abandoned builds go |
| Store contract and memory backend (pkg/rkcstore) | builds, staged records, snapshots, heads, tombstones | BeginBuild, Put*, PutCoverage, Validate, Commit, Abort, Recover | builds begun on one head; limits and counters kept beside the data | no lost update; references closed; snapshots immutable; limits respected |
| SQLite store (internal/storage/sqlite) | tables; shared and exclusive lock on a sibling file; lease map; mutex per lease | the contract's operations, Open, Close | goroutines of one process against recoveries of another; death between a transaction and its lease | implements the contract; Recover never takes a live build; no lease leaks |
| SQLite database file (database.go, migrations.go) | version, journal of migrations, application ID, WAL, cursor key | Open, migrate, check | concurrent first openers; an older release still writing; a restored backup; crash in a migration | only foreign files are refused; what is opened is current and stays reopenable; the key is kept |
| DAG scheduler (internal/scheduler/dag.go) | ready set, batch, goroutines, completed results, context | Execute | goroutines that finish or fail in any order; cancellation; budget at its limit | budget respected; inputs complete; success only if proved; always returns |
| Run journal (internal/scheduler/journal.go) | lines, lifecycle, sticky failure | Append, Close, ReadFileJournal | torn lines, failed Sync, unacknowledged records | whatever is left is accepted by the reader and true |
| Content-addressed store (internal/cas) and stage cache (internal/pipeline/cache.go, internal/scheduler/filecache.go) | objects by digest; pointers by key | Put, Open, Delete, Walk; Load, Restore, Invalidate, Store, Prune | Prune against scans in other processes, without a lock; corruption | a hit is intact and genuine; a dangling pointer is a miss; a prune that met no scan leaves no garbage |
| Staged pipeline (internal/pipeline) | inventory, fragments by stage, bundle, cache | the stages of a scan | files edited between inventory, analysis and reverification; failures of one adapter; fragments restored from the cache | what is returned is what a clean scan would return; failed adapters leave nothing |
| Name resolution (pipeline.go, resolve) | edges, memo of scopes | resolveHeuristicEdges, dedupeBundle | memoisation over cyclic declarations; deduplication after retargeting | the memo is the reference definition; a name is bound exactly if one symbol can be meant |
| Snapshot readers (storage/sqlite store_reader*.go, search.go; rkcstore/memory_reader.go) | published snapshots, signed cursors, the key | List, Get, Search | publications and changes between two statements of one page; two first readers create the key | each record once, in order; cursors honoured or refused; only genuine rows |
| Output publication (internal/safeoutput) | staging, target, backup, replacement journal | Begin, Commit, Abort, recovery | exchange or portable replacement interrupted anywhere, also during recovery; several publishers; a user | the target is complete; an interruption is repaired by the next publication; user data stays |
| Scan command (cmd/rkc/scan.go) | the composition above | one scan | failure between two publications; overlapping scans | nothing is published after an earlier failure; the stores agree at the end |
| Workspace registry (internal/workspace) | registry file, generations, reader leases | Open, Add, SetSecretReviews, Refresh, Prune, AcquireActive | Prune against readers; memory ahead of disk; policy changed between build and save | a pinned or referenced generation stays; "current" is honest; garbage goes |
| Workbench jobs (internal/server/workbench*.go) | job table, slot, connection, dataset | post, cancel, deadline, exit, activate, GitHub session, Close | cancellation, deadline, exit, disconnect and Close race | one outcome per job; what is served is the reported job's work; withdrawn connections bring in nothing |
| MCP server (internal/mcpserver) | atlas in memory, lease; HTTP slots | stream and HTTP requests | refreshes between two looks at the registry; handlers that outlive their deadline | an answer is of one generation, within its limits; slots are held by running handlers |
| Resource guard and host admission (internal/resourceguard) | launcher, unit, /proc, lock table, control group | Run, Stop; measure, observe, prove | late registration of a unit; numbers reused between two looks; threads that start meanwhile | what is returned is proved; admission rests on a covering measurement |
| Command admission (cmd/rkc/direct_admission.go, open_admission.go) | monitor, guarded child, receipt | one command | two argument grammars; yielding while finishing | unguarded runs only print usage; yielded work is not reported as done |
| Grounded answers (internal/groundedanswer, answerapp) | passes, packet, attempts | ask, judge, repair, compile | a model that may say anything | every claim cites evidence of the packet that leads to its node |
| Model providers (internal/modelruntime) | process, bound artifacts, memory estimate, dimension | Generate, Embed, Close | overlapping calls, Close, replaced files | one model at a time, within its memory, on bound files, none after Close |
| Compiler indexes (cmd/rkc/scip.go, internal/lang/scipindex) | pins, shelf, manifest, sealed documents | pin, generate, seal, publish, import | edits during the run; replaced indexers; copies of an index | what counts as the compiler's is of the inventoried sources by the pinned tool; spans and owners exact |
| Runtime traces (internal/runtime) | captures, trace files, register | capture, prepare, load, import, diff | edits during a capture; copied and changed files | what is asserted was captured on the scanned sources; failures are not lost |
| Interface history (internal/history) | memo of symbols, records | compile, check, import | HEAD moves; renames are Git's guess; memo across commits | deltas and lifecycles exact; imported only by a scan of its commit |
| HTTP API server (internal/server) | the directory of the atlas being loaded; dataset, generation, signing key of the process | Load, VerifyUnchangedExport, LoadStore; listings, search, context packets; Activate, restart | the directory is replaced or edited during a load or a check; datasets change and the server restarts between two pages | a loaded dataset is the content of one manifest; a passed check has seen the pinned files; pages make up one listing; packets stay in their budget |
| Retrieval and graph (internal/graph, internal/retrieval) | none: functions of the records | neighborhood, impact, shortest and counterfactual path, components, retrieval | bounded traversals that were cut; dangling edges | what is returned is near enough and connected; nothing is missing unless it says so |
| Plugins, model packets and profiles, acquisition, extractors, exporters, record model, value flow | none beyond their arguments, or external I/O | | | not modelled, see section 8 |

## 2. The models and how they correspond to the code

| Module | Models | Checked through |
| --- | --- | --- |
| `SnapshotStore` | internal/snapshot/store.go, lease.go | alone, `MCProgress` |
| `RkcStore` | pkg/rkcstore: the contract, as memory.go implements it | `MCSqliteStore` |
| `SqliteStore` | internal/storage/sqlite writers and leases; `RkcStore` is its abstract specification | `MCSqliteStore`, `MCProgress` |
| `DatabaseOpen` | internal/storage/sqlite database.go, migrations.go, check.go | `MCSqliteStore` |
| `RunJournal` | internal/scheduler/journal.go | `MCScheduler` |
| `Scheduler` | internal/scheduler/dag.go, the end of cmd/rkc/scan.go; instantiates `RunJournal` on its own variables | `MCScheduler` |
| `StageCache` | internal/cas, pipeline/cache.go, scheduler/filecache.go | `MCPipeline`, `MCProgress` |
| `StagedScan` | internal/pipeline/staged.go, pipeline.go | `MCPipeline` |
| `NameResolution` | internal/pipeline/pipeline.go, resolve and dedupe | `MCRecords` |
| `SnapshotReader` | storage/sqlite store_reader*.go, search.go; rkcstore memory_reader.go, cursor.go | `MCRecords` |
| `SafeOutput` | internal/safeoutput/safeoutput.go | `MCScanPublication` |
| `ScanPublication` | cmd/rkc/scan.go, sqlite_support.go: the stores composed | `MCScanPublication`, `MCProgress` |
| `Workspace` | internal/workspace, cmd/rkc/workspace.go | `MCScanPublication`, `MCProgress` |
| `Workbench` | internal/server/workbench*.go | `MCServing`, `MCProgress`, alone |
| `McpServer`, `McpHttp` | internal/mcpserver | `MCServing` |
| `HttpApi` | internal/server: load, unchanged, store, pagination, search and context | `MCServing` |
| `GuardedCommand` | internal/resourceguard/guard.go | `MCProgress` |
| `HostLoad`, `ModelLease`, `Envelope` | internal/resourceguard policy.go, priority.go, model_lease_linux.go, envelope*.go | `MCAdmission` |
| `DirectAdmission` | cmd/rkc/direct_admission.go, open_admission.go | `MCAdmission` |
| `Admission` | the four above, as one command goes through them | `MCAdmission` |
| `ModelProvider` | internal/modelruntime providers | `MCAdmission` |
| `ScipIndex` | cmd/rkc/scip.go, scipindex/binding.go, input.go, inspect.go | `MCAdmission` |
| `ScipDocument` | scipindex parse, seal and extract | `MCRecords` |
| `GroundedAnswer` | internal/groundedanswer, answerapp, the native extractive model | `MCRecords` |
| `RuntimeTrace` | internal/runtime, cmd/rkc/trace.go | `MCRecords` |
| `SymbolHistory` | internal/history, cmd/rkc/history.go | `MCRecords` |
| `GraphIndex` | internal/graph index.go, counterfactual.go, internal/retrieval/engine.go | `MCRecords` |
| `*Proofs` | theorems (section 5) | |

An `MC` module extends (or instantiates) several components on disjoint
variables. Those with theorems are extended, so that a run checks the very
definitions the theorems speak of. The variable `part` says which component a
behaviour exercises; the others stay in an initial state, and a predicate named
for the scope (`OneHit`, `Race`, `TwoPublishers`) bounds what the part explores. That keeps a run at the
sum of its parts' state spaces, not their product; components that do interact are
composed in modules of their own (`Scheduler` with its journal, `ScanPublication`
with its stores, `Admission` with the proofs a command needs). A definition
whose comment begins with *Mutant:* or *defect:* is a plausible bug in the
definition that follows it. No specification uses it; it documents what a
property would catch.

### Stores

*SnapshotStore.* A transaction `t` is one `Transaction` value in one process:
`mem[t]` is the `Record` it holds, `id[t]` its snapshot ID, `pc[t]` where it
stands inside the call it runs. On disk, `dir[t]` says where its directory is
(`building/`, the quarantine that a removal renames it to, `snapshots/<id>`, or
gone), `marker[t]` and `rec[t]` what it holds, `lock[t]` who has the advisory
lock on the lease file. The lock belongs to the open file and so moves with the
directory. `ghosts` are building paths that came back with nothing but a
`snapshot.json`, which happens because the atomic write of a record creates
missing parents. Each operation is split where another process can look in
between: Begin is `BeginDirectory`, `BeginLease`, `BeginMarker`, `BeginRecord`,
`BeginAdmit`; Commit is `CommitVerify`, `CommitSeal`, `CommitCheck`,
`CommitRename` (the publication point) and `CommitPoint`. Abort sets the record
to failed and goes through the removal that it shares with Recover
(`RemoveValidate`, `RemoveIsolate`, `RemoveMove`, `RemoveErase`): a quarantine
root is created, the directory renamed into it, and both erased. A remover that
fails or dies leaves the root behind (`litter`), at which Recover gives up.
Recover lists, and per entry
validates, opens the lease file, tries its lock, looks at the age and removes.
Every filesystem effect has its failing outcome with what the code does then.
`Crash` kills an actor anywhere; the kernel drops its locks. `LoseObject` takes
an object away at any time; `lost` remembers those a Commit had verified.

*RkcStore and SqliteStore.* `RkcStore` has one action per operation of the
writer interface; the memory backend runs each under one mutex. Records are
values with a reference relation `Refs`; validation is "every reference is in
the bundle, and the coverage is the one derived from the records and bound to
this snapshot". The limits are those of limits.go, and `openBuilds` is kept as a
counter beside the builds, as the code does. `SqliteStore` refines the
operations to what happens around their immediate transactions: BeginBuild takes
the shared lock before and enters the lease in the map after its transaction;
every other call finds the lease, waits for its mutex, looks again whether the
lease is open, runs one transaction, and Commit and Abort then release; Recover
takes the exclusive lock without waiting. Handles are processes: they close, die
and are opened again. The refinement mapping takes the tables as they are,
counts the open builds, and lets the tombstones be all closed builds in the
order in which they closed, because this backend never evicts one.

*DatabaseOpen.* One action per statement group of Open: bind the path to an
inode, inspect ownership, create or take WAL mode, begin the immediate
transaction of each migration, create the cursor key, check. A database is its
version, application ID, journal of migrations, WAL flag, key and whether it has
legacy rows; the bodies of the migrations are not modelled.

### A scan

*RunJournal and Scheduler.* The journal is a sequence of complete lines
(`file`), perhaps followed by part of one (`torn`), and the lifecycle in the
writer's memory (`life`). `Acceptable` and `Advance` are
`journalLifecycle.accept`. An Append has three outcomes, named because the
scheduler uses them: `Persist`, `Refuse` (nothing changes), and `Break`, in which
the line is missing, torn or complete but the journal counts as failed from then
on. `Replay` is the reader. `Scheduler` has one action per step of the main
goroutine (`Start`, `NextReady`, `Admit`, `Collect`, `Finish`) and three per
goroutine of a stage (`StageStart`, `StageExecute`, `StageStop`), because the
goroutines interleave on the journal. With `DeferJournalCompletion` the caller
ends the journal: `Finalize` and `CloseFinal` are the end of `rkc scan`. The plan
is any relation on the stages, cyclic ones included.

*StageCache* splits load, restore, invalidate, run, put and store, and the
prune's listing, check and deletion, at every look at the file system; a file
unlinked while it is open is noticed by the identity check at the end of a read.
*StagedScan* has one action per file that an adapter reads, because an edit can
come between any two; `Adapter` lists what the code's table of stages gives each
one (languages read, languages in the cache key, how it treats a changed digest).
`CleanFragment` and `CleanBundle` are the reference: what a scan of the
inventoried contents makes when nothing else changes; `BundleOf` is what any
fragments make in their fixed order. `gone` and `back` are history: what edits
took away and what they brought back. *NameResolution* resolves the edges one by one
with the memo of scopes, then deduplicates; its reference definition of scopes is
a least fixed point.

*SafeOutput* splits a publication at every rename and journal update, with the
exchange (Linux, macOS) or the two renames (Windows) according to `exchanging`,
which never changes, and gives every step its fault (`StepFails`), the
validation after an exchange one that undoes the exchange (`ValidationFails`), and
every publisher its death (`PublisherDies`). `met` remembers that two publishers have
been at work at once, `deep` that a fault struck a removal or the move of a
recovery; they only serve to state what holds until then. *ScanPublication* shows of each store what its own
module promises, orders the publications as cmd/rkc/scan.go does, and lets scans
overlap, fail before or after an effect, or die. *Workspace* has one writer at a
time under the kernel lock and splits Refresh around the producer and around the
save; generation leases are the shared and exclusive locks of readers and Prune.

### Serving

*Workbench.* A job is one goroutine (`at[j]`) with its context, its process
group (`proc`), and its record in the table (`st`, `retain`); `slot` is the
execution channel, `active` the dataset and whose work it is. `Post` submits,
`Work` is the goroutine, `Write` and `Exit` are the process, `Deadline` and
`SourceCanceled` end the context, `CancelJob`, `Await` and `AwaitTooLong` are
cancelJob, `Connect`, `Expire`, `LookUp`, `Install` and the deferred `ResetCancel`
the GitHub session,
`Close*` the shutdown with its bounded wait. *McpServer* handles one message of
the stream in the order in which Serve looks at it, and reads registry and
atlases in separate steps. *McpHttp* has a handler per request with its permit;
the deadline answers in the handler's place without ending it. *HttpApi* has two
halves on separate variables. `task` is a Load or a VerifyUnchangedExport and
takes one step per file it reads, because `Replace`, `Return` and `Edit` can come
between any two. The other half is a request: `Request` resolves the dataset
once, as the handlers do, and `Reply` answers from what was resolved, so that an
`Activate` or a `Restart` in between is seen only by the next page. A cursor is
a record that names the process whose key signed it, the generation and the
scope; headers, encodings and the static browser are left out.

### Admission and models

*GuardedCommand* runs the launcher beside a manager that may register the unit
late; queries and signals may fail. *HostLoad* walks the process table entry by
entry, then reads the ticks of one process after the other, while processes fork,
end and work in between. *HostLoad*, *ModelLease* and *Envelope* are
the three proofs of admission, each against a host that changes between any two
of their looks. *DirectAdmission* carries the grammar of arguments that decides
before anything is parsed and that of the command, and checks one against the
other. *Admission* lets the four interleave and adds nothing. *ModelProvider* is
one module with three providers, which share binding, closing and calls;
`provider` says which one and never changes.

### Knowledge

*ScipIndex* is the life of an index on disk: the inventory, the indexer and both
comparisons of the seal read one file after the other, and an edit may bring an
earlier version back. *ScipDocument* what one document
becomes; *RuntimeTrace* and *SymbolHistory* hold a compiler or recorder, the
files others can change, and the import; HEAD moves to any commit of the chain,
back or forward. A digest is modelled by what it is a
digest of. *GroundedAnswer* lets the model answer with any member of a set of
drafts and follows claims from citation to node. *SnapshotReader* reads page by
page with both backends; a row may be damaged in what it holds or in the columns
the filters compare. *GraphIndex* writes the queue of Neighborhood and
ShortestPath and Tarjan's stack as recursive functions and compares what they
return with reachability in so many steps (`Within`), which is defined apart
from them.

## 3. What each run checks, and its bounds

Twelve runs. "States" are distinct states.

| Run | Instances | States | Shows |
| --- | --- | --- | --- |
| `snapshot_safety` | 2 transactions, 1 administrator, 1 ID, 2 bundles, 1 mishap (a failure, a crash or a lost object) | 2 518 301 | inductive invariant; live builds kept; published snapshots complete and permanent; CURRENT valid; removal only under the lease |
| `sqlite` | *sqlite*: 2 clients in one process, 1 in another, 3 builds, 2 IDs, 1 record, limits 2 and 2; *memory*: 3 builds, 2 repositories, 2 records with a reference, limits 2, 3 and 1 tombstone; *upgrade*: 2 writers, every older version, 1 crash, a restored file; *foreign*: a writer and a reader on files that need not be RKC's | 823 248 | the SQLite store implements the contract; builds are owned; no leaked lease; the memory backend keeps the contract's invariant, immutability and atomic publication; Open refuses foreign files only and leaves what it can reopen |
| `scheduler` | *execute*: 3 stages under all 512 plans, 2 workers, 2 budgets, deferred or not, fair; *journal*: 2 stages, 2 attempts, 8 records | 727 730 | budget, inputs, acceptable records, proved success, a truthful journal, no stall, no start after a failure; every run returns; the reader reproduces what any failure leaves |
| `pipeline` | *staged*: 2 files, 3 adapters, 2 scans, 2 edits or an edit and a failure; five cache scopes of 1 to 3 scans, 0 or 1 prune, 1 or 2 keys, 1 or 2 objects, one corruption or one crash | 1 666 871 | a returned bundle is made of its fragments, clean ones but for the exception of section 6; failures are forgotten; hits are genuine; prunes leave no dangling pointer unless a scan ran beside; pointers are never exchanged; scans fail for known reasons only |
| `staged_restored` | 1 file, 1 adapter, 2 scans, an edit and its undoing | (violation) | section 6 |
| `publication` | *scan*: 3 scans with 1 fault or 2 with 2, 3 IDs, all options; *one output*: 1 publisher and 3 strikes; *outputs*: 2 publishers, 2 strikes and an edit by a user; both by exchange and by renames; workspace: 2 writers with a reader, 2 writers with a fault, 1 writer with 2 sources | 1 820 037 | CURRENT has its atlas and its database row; a successful lone scan leaves all stores in agreement; targets complete, interruptions repaired; generations available, pins kept, "current" honest |
| `serving` | *table*: 2 jobs, a table of 1, 2 callers that cancel one job; *jobs*: command and folder; *close*: 2 commands and Close; *github*: 1 job, 2 connection requests, 1 caller, Close; *portable*; MCP *stream*, *query* (2 messages, 1 change), *changes* (1 message, 2 changes) and *http*; read API *load*: 13 directories, 8 rewrites of a file, 2 changes; *pages*: 3 datasets, two of them of one snapshot, 7 queries, pages of 1 and 3, 1 activation, 1 restart | 1 763 007 | table, outcomes, dataset and connections of the workbench; answers of one generation; slots held by running handlers; loads and checks sound, pages of one listing, packets in budget |
| `workbench_close` | 2 jobs, a table of 1, 1 caller, Close | (violation) | section 6 |
| `progress` | one small instance each of guard, SQLite store, snapshot store, workspace watch, repeated scan, cache, workbench; fair | 166 288 | orphans, abandoned builds, garbage generations and dangling pointers go; cancelled commands return, repeated scans succeed, waiting jobs end |
| `admission` | *load*: 4 process numbers, 3 readings of the clock, 2 starts, all entries read one by one; *lease*: 2 files, 4 changes; *envelope*: 3 threads, 2 passes, 1 drift; *direct*: all command lines of up to 3 words; *models*: three providers of 2 calls, whose files are replaced up to twice; indexes: *alone* and *beside* | 1 140 136 | admission rests on a covering measurement; confinement proved; yielded work not reported as done; models bound; compiler facts genuine |
| `records` | *resolution*: all sets of up to 4 declarations of 3 functions under 5 scopes, 7 sets of references, every order; four readers; questions under 3 bundles and 5 replies; documents; captures; histories of all chains of 3 out of 11 trees; questions about a graph of 6 nodes and 11 edges of which none, 1 or 2 are missing | 967 370 | memo is pure, names bound exactly when unique; listings; claims grounded; spans and owners exact; captures and histories as they were; traversals complete or marked as cut |
| `snapshot_order` | the listing of `records` | (violation) | section 6 |

Why the bounds are enough to be interesting:

- *Snapshot store.* Every race is between the owner of a directory and one
  Recover, or between two commits for one ID. Two transactions and one
  administrator have both, and with one ID the transactions always collide. Two
  bundles let a rewritten bundle differ from the one the coverage belongs to.
  `MaxMishaps` bounds I/O failures, lost objects and crashes together; one
  mishap reaches all the states a single failure leads to, at every step, and
  the failed Abort that loses its lease is among them. The proofs hold for any
  bound.
- *Stores.* Three builds and `MaxOpen = 2` put one build beyond the limit; one
  tombstone makes eviction happen at the second close; two repositories keep
  heads apart; the reference between two records makes a dangling bundle
  possible. In the *sqlite* part two clients meet on one lease and the third
  recovers or writes from another process.
- *Scheduler and journal.* Three stages are enough for a chain, a fork, a join,
  a cycle and a deferred stage. Two of them fit together, the third fits beside
  neither, and under the second budget never. Eight records hold a run of two
  stages with a retry (two per attempt) and its two run records.
- *Pipeline.* Two files and three adapters have a file read by several adapters
  and an adapter that is not concerned; the second scan restores what the first
  cached; two edits hit a file before and after its analysis, and may put
  back what the first took. The cache
  scenarios are the pairs of operations that meet on one key or one object; the
  prune of the race walks over two objects, the one beside a scan of two keys
  over one.
- *Publication.* Three scans give A, B and a return to A in the atlas; two
  faults give a failed scan and a failed retry, for which two scans are enough.
  Three strikes let a recovery of a recovery be interrupted. Three generations
  are the active, the previous and one being built.
- *Serving.* A table of one makes every submission an eviction; two callers that
  wait for one job make `retain` count to two; two requests let a late answer
  meet a newer connection. In the read API the second change of a directory is
  the one that takes the first back or meets its replacement; two datasets of
  one snapshot are what tells a generation from a snapshot ID.
- *Admission.* Two starts are a number handed on and a child that ends between
  the looks; three threads are one per priority; words of the command lines
  cover every form of a flag that tells the two grammars apart.

Symmetry is declared for model values in runs without liveness properties only.
`CHECK_DEADLOCK FALSE` is set everywhere because the components really stop:
transactions, builds, journals and jobs end, Execute and Close return. That
nothing stops too early is what `NeverStuck` and the properties of `progress`
and `Returns` say.

## 4. Fairness

No fairness is assumed of faults, crashes, edits, cancellations or new requests.

- `Scheduler`: the Go runtime schedules every runnable goroutine, and stages
  return.
- `SnapshotStore`: time passes (`GrowOld`), a call of Recover or SetCurrent runs
  on, and the operator runs Recover again and again (strong fairness of its
  first step, since SetCurrent competes for the same process). Nothing is assumed
  of the transactions: the abandoned ones are those that stopped.
  `AbandonedRecovered` has an escape, `Wedged`, because the code has one: a
  quarantine whose remover failed or died, or an entry that Recover cannot
  validate, a directory left by a crash inside Begin for example, makes it return
  an error before the entries behind it, at every call. A quarantine whose remover
  is at work obstructs Recover too, but not for ever. In `progress` an abandoned
  directory stands beside a live transaction, a young directory or a removal under
  way.
- `SqliteStore`: a call that has begun goes on, a closed database is opened
  again, and somebody's recovery is tried until it succeeds. Recover is refused
  while any build is live, so the leads-to property supposes that time and again
  no build is (`Quiet`).
- `Workspace`: the watch loop syncs again and again; readers finish their loads.
- `StageCache`: a scan or prune that has begun goes on, and scans are started.
- `ScanPublication`: a scan runs on.
- `Workbench`: a job's goroutine runs on and its deadline passes; nothing is
  assumed of its process.
- `GuardedCommand`: the polling loop runs on, Wait returns once the launcher has
  exited, and Stop is taken when the context has ended.

`OrphansReclaimed`, `AbandonedRecovered`, `GarbageCollected`, `DanglingHeals`,
`CancelReturns`, `RetrySucceeds` and `JobsEnd` state this per component beside
its `FairSpec`; `progress` checks them together as `LeftoversGo` and
`RequestsEnd`.

## 5. What is proved, and how

Eight modules hold proofs. Each EXTENDS the modules it is about, and no theorem
rests on a bound: sets of processes, builds, stages, files and jobs, limits,
plans and the numbers of faults are any that satisfy the assumptions below.

| Module | Theorems | What they say |
| --- | --- | --- |
| `SnapshotStoreProofs` | `Invariance`, `TypeCorrect`, `LiveBuilds`, `SnapshotsComplete`, `CurrentIsPublished`, `LeasedRemoval`, `Permanence`, `PublishedIntact` | live builds keep directory, marker, record and lease; what is published is complete and permanent; CURRENT names something published; removal only under the lease; an object that a publishing rename finds missing went after that very Commit had verified it |
| | `Outputs`, `OutputSteps` | the published target is complete, its absence recoverable and an interruption understood; where paths are exchanged it never goes missing and user data stays |
| `RkcStoreProofs` | `Invariance`, `HistoriesDoNotFork`, `SnapshotsAreClosed`, `LimitsRespected`, `SnapshotsAreImmutable`, `PublicationIsOneStep` | what the contract promises its callers |
| `SqliteStoreProofs` | `Invariance`, `Refinement`, `LeasesEnd`, `Ownership`, `HistoriesSurviveCrashes` | the SQLite backend implements the contract, step by step, and through the contract's theorems its histories do not fork |
| `RunJournalProofs` | `Invariance`, `DependenciesFirst`, `SuccessComplete`, `RetriesFollow`, `FileIsFinal`, `Soundness` | what a reader may conclude from whatever a failed write or a dead process has left |
| `SchedulerProofs` | `Invariance`, `Batches`, `Outcome`, `Stops` | budget, inputs and progress of batches; success only with its evidence in the file; nothing starts after a failure |
| `StagedScanProofs` | `Invariance`, `Clean`, `Sound` | a scan returns what its fragments make in their fixed order, and each fragment is a clean scan's unless its adapter read a file that was changed and changed back |
| | `CacheKept`, `CacheSteps` | what a stage takes from the cache is genuine; a prune that met no scan leaves no dangling pointer and no unnamed object; pointers are never exchanged; a scan fails for one of the known reasons |
| `ScanCommandProofs` | `Soundness`, `Agreement` | the order of publications holds for any overlapping, failing and dying scans; a successful lone scan leaves its stores in agreement |
| | `Guard` | what a guarded command returns it has proved |
| | `Admission`, `Admitted` | an admission rests on a measurement that covers it; the lease was free, every thread is confined, an unguarded run prints its usage only |
| | `Generations`, `Pinned` | the registry names complete generations only and is honest about "current"; what a reader has pinned stays |
| | `Providers` | one model at a time, within its memory, on bound files, none after Close; batches whole and of one dimension |
| `WorkbenchProofs` | `Invariance`, `Table`, `Reports`, `Connections` | the table of jobs, their outcomes, the dataset and the connections |
| | `Permits` | a running handler of the MCP HTTP server holds a permit of its own |

### Assumptions

They are named in the modules, and TLC evaluates them for every instance it
checks.

- `None` is none of the values it is compared with. It is the absence of a value
  in the code (nil, an empty string), which is none either.
- Sets that the code counts are finite: builds, stages, files, jobs, callers and
  requests. Limits are natural numbers; a worker limit, a table and the attempts
  of a stage are at least one, as the constructors check.
- Clocks, numbers of passes and of faults are natural numbers; the process
  numbers that a host hands out are finitely many (`BoundsAssumption`).
  `TimingAssumption`: the service manager registers a delivered request sooner
  than the samples that prove it inactive are over.
- `OutputAssumption`: the directories that publications create are not those the
  user brings, and `NoDir` is neither. `CacheAssumption`: a stage's key has the
  outputs it may have; scans and prunes are different processes.
- `ProviderAssumption`: memory sizes and budget are integers up to `Top`, the
  largest there is, and dimensions are positive.
- `RefsAssumption`: references go from records to records. `HomeAssumption`: a
  client belongs to one process. `OrderAssumption`: the registration order lists
  every stage once.

Edits of the sources are not restricted: a file may get back what it held before.

Hypotheses are `ASSUME`s of the theorem where the module is also a contract that
others instantiate (`StoreAssumption`, `JournalAssumption`,
`SchedulerAssumption`), and of the module otherwise.

### The arguments

In each module an inductive invariant `IInv` is proved with one lemma per
action, or per conjunct where the conjuncts do not need each other, and the
properties follow from it. Why the properties alone are not inductive:

- *SnapshotStore.* A live build's safety rests on the lease, and the lease on
  where everybody stands. `BeginInv`: the directory of a transaction is private
  until its marker is written. `LeaseInv` ties the lock to the phases: the owner
  holds it in all phases in which it relies on it, an administrator that has
  passed its try-lock holds it until it has finished, and whoever holds it finds
  the directory where its phase expects it. `FailedInv` covers the owner that has
  lost its lease in a failed Abort: its record says failed, in memory and on
  disk, so it can only abort again. `RecordInv` binds coverage to its bundle, and
  says that from `CommitVerify` to the rename each object of the record is in the
  store or among those that went since (`lost`); nothing keeps objects from going
  in between, and the theorem does not say that nothing does. `PublishInv`:
  a transaction whose directory is published takes no step that could touch it.
- *RkcStore.* The conjuncts of `IInv` are inductive one beside the other.
  `NoFork` needs that a commit looked at the head of its build's base;
  `BuildsKnown` that the counter equals the number of open builds, which rests on
  cardinality lemmas for opening, closing and recovering builds; `CloseFact`
  says what one closing does to counter and tombstones, for Commit, Abort and
  Recover alike.
- *SqliteStore.* `LeaseInv` says for every phase of every client which lease,
  lock and mutex it holds and what is then true of its build; `FinishedOnce` that
  `finished` lists each closed build once. Under it every transaction of the
  backend is a step of the contract, every other step leaves the contract's
  variables alone (`ContractStep`), and the contract's own theory, instantiated
  under the refinement mapping, carries its invariant over.
- *RunJournal.* The reader's `Replay` is a recursive function of the file. That
  such a function exists and is unique for every file is proved by induction
  over prefixes (`ReplayExists`, `ReplayUnique`), then that appending a line
  advances it (`ReplayAppend`). The library's induction theorems take an operator
  as a parameter, so induction is stated here for sets (`NatSetInduction`, from
  the well-foundedness of <). `Invariance` is that the reader accepts what is
  left and sees what the writer has in memory, save for one record; the other
  theorems are about every prefix of an accepted file, and so hold for a reader
  that knows nothing of the writer.
- *Scheduler.* `StageInv` says for each goroutine which records it has written
  and may still write; `MainInv` and `BatchInv` what the main goroutine knows in
  each phase; `EndsRecorded` that completions in the file happened. The journal's
  theory is instantiated for the scheduler's file. Budgets are sums over a batch,
  a recursive function whose laws (`SumExists`, `SumRemove`, `SumMono`) are
  proved by induction on finite sets; that an acyclic plan never stalls is
  `SomeReady`: an unfinished stage with an unfinished dependency reaches more
  stages than that dependency does, so they cannot all have one.
- *StagedScan.* Two history variables remember which contents an edit took away
  (`gone`) and which another brought back (`back`). What a file had it has or had
  (`Was`), and an inventoried content that is there and never came back was never
  away (`Kept`, `Sure`). So a fragment or a cache entry is genuine *unless* one of
  its files has changed since (`FragmentsInv`, `CacheInv`), and then either the
  reverification fails or the content is among those that came back, which is the
  exception that the theorem names and `staged_restored` shows. The SCIP adapter,
  which compares what it reads with the inventory, needs no exception (`Closed`).
  `BundleInv` says of every moment after the merge what the bundle is made of.
  `AdapterEnds` is the common core of the three ways in which an adapter ends.
  `FailureForgotten` has
  an inductive form of its own (`Forgetful`).
- *StageCache.* `KeptInv` says for each station of a scan or prune what it has in
  hand and why; that an object which is held open and has not lost its name is
  there; and, as long as no prune has met a scan and storage has kept its objects,
  that a scan holds good objects only and a prune has selected or retained every
  pointer it has passed. The step properties need the first two parts only.
- *ScanPublication.* `ScanSound` is inductive: `StepInv` says what a scan has
  established when it stands at a step, `AloneInv` the same for scans that nothing
  overlaps, with all stores named.
- *GuardedCommand.* The counting argument is `WindowInv`: every sample that finds a
  unit inactive while its request is under way uses up one of the observations
  that the manager has left, so the samples end after the registration. `WhyInv`
  and `OutcomeInv` carry the reason for a stop to the result.
- *Admission.* The auxiliary variable `before` records events only: which of the
  sampled processes still run, and the ticks each has used since it was read.
  `WatchInv` relates it to the table (start times tell processes apart: what was
  read of a number is of the process that has it now exactly when that one has
  never ended), `KeptInv` to the sample under way, `HostInv`, `LookInv` and
  `BaselineInv` say what table, walk and baseline hold. The lease and the confinement
  are about numbers that may be reused and threads
  that may start: the proof has the last complete pass cover every thread that
  exists. The two grammars of command lines are functions over the words still to
  read; that the cautious one never admits what the command would run is an
  induction over the length of the line (`Leads`, `Agree`, `Together`).
- *Workspace.* `RegistryInv` is about the disk, `WriterInv` about a writer's
  memory by where it stands, `PinInv` about leases. One lock makes the writer
  unique; Prune reads the registry under it and takes a generation's own lock
  before it removes the generation.
- *ModelProvider.* `Turns` (one call has the process), `Shut` (a closed provider
  has no call inside), `Bound` (an answer is of files that matched when it began)
  and `Vectors` (every dimension a batch has had is the bound one), each by the
  station at which a call stands (`Stations`).
- *SafeOutput.* `OutputInv` has three layers. `OutputBase` is about identities and
  holds for any interleaving: a directory is at one place, has one owner, and its
  quarantine is made once. `Exchanged` is what holds beside others where paths are
  exchanged: what is removed has left its path and nothing is renamed, so no
  recovery finds the target missing. `Sequential`, until two have met, says for
  every place of a publication what target, staging and quarantine look like
  (`OnDisk`), and that what nobody works on is one of the cases the next recovery
  knows (`Unattended`). `UsersOwn` and `SetAside` keep the user's directories out of
  the way of removals.
- *Workbench.* Four parts per job (`Placed`, `Supervised`, `Reported`, `Sourced`)
  relate its goroutine, process, verdict and source; `AtlasInv` says whose work
  an atlas and the dataset are; `TableInv` counts those who wait against
  `retain`; `ConnectionInv` orders connections by the numbers of their requests;
  `CloseInv` says what Close has found so far. `PermitsInv` counts the handlers
  that hold a permit.

TLC checks the same `IInv` in the runs, alone or as part of the property it
supports, so a proof and a run never speak of different formulas.

Proving has corrected the models where a run on a small instance could not show
the fault: choices with overlapping alternatives (an error of a guarded command
that is both a timeout and a failed signal, a failed publication, a refused
command line, a cache comparison) now state their order, as the code's chain of
conditions does; `ModelProvider`'s budget is none when it is the largest integer,
as the saturating addition of the code makes it; the user of `SafeOutput` puts
only directories of their own and not over another one; and a prune's promise to
collect holds for a prune that no other prune overlaps either.

No module with a theorem updates one function twice in one EXCEPT unless the
arguments are distinct constants. The SMT translation of tlapm 1.4.5 reads
`[f EXCEPT ![a].x = u, ![b].y = v]` as if both updates started from f, which is
contradictory when a = b; `SafeOutput` replaces a journal file as a whole
(`Rewritten`).

### What is only model-checked

- Liveness (`Returns`, `LeftoversGo`, `RequestsEnd`): the proof system has no
  proof rule for fairness here, and ENABLED is out of its reach.
- What a recursive definition computes for every input: the memo of
  `NameResolution` (a RECURSIVE operator, which the provers cannot use at all), the
  traversals of `GraphIndex`, the folds of `GroundedAnswer`, `SymbolHistory`,
  `RuntimeTrace` and `ScipDocument`. It is an induction over data, and those
  modules compare the algorithm with a reference definition on bounded inputs.
- `DatabaseOpen`, `McpServer`, `ScipIndex`, `SnapshotReader` and `HttpApi`:
  `BackendsSound` (with the conjunct about the database file), `ServersSound`,
  `IndexesSound`, `ReaderSound`. Nothing but effort stands in the way; the plan in
  section 8 says in which order.
- `Resolved` and `KnowledgeSound`, which compare recursive definitions with their
  reference.
- Of `BackendsSound` and `StoreStepsSound` the conjuncts about the memory backend
  are instances of the theorems of `RkcStoreProofs`. Of `StepsSound`, `SuccessAgrees`,
  `OutputStepsSound` and `PinnedKept` are theorems (`Agreement`, `OutputSteps`,
  `Pinned`); `RenamesSound` is checked for two publishers. It is not proved because
  it is not true of three: a recovery that undoes the replacement of a live
  publisher is removing that publisher's directory from the quarantine, a third has
  moved the target away, and the publisher's put-back returns what the quarantine
  holds, partly removed, to the target.

## 6. Disagreements between the code and what it says, and observations

### With a run that shows them

- *An edit taken back poisons the stage cache* (`staged_restored`).
  pipeline/plan.go:175 says of a cached stage "verified payload matches stage,
  inputs, and configuration". A file edited between the inventory and its
  analysis leaves, under the key of the inventoried content, facts of another
  content. The scan itself is refused by validate, but the entry stays, and once
  the edit is undone a later scan restores it and publishes it.
- *Listings are not newest first* (`snapshot_order`). The SQLite store orders
  the strings of published_at, and RFC3339Nano drops trailing zeros: ".5Z" sorts
  after ".51Z". memory_reader.go:79 and store_writer_test.go:294 ask for the
  order of the times.
- *Close may return without proof* (`workbench_close`). workbench.go:1028 says
  that Close waits until each job has released its resources. A job whose cleanup
  failed can be evicted like any other, after which Close finds nothing to
  report while the job's process may still run.

### Without a run of their own

- The lease of a failed Abort: lease.go:12 says a lease is held for the complete
  lifetime of a building transaction. When Abort cannot remove the directory
  (snapshot/store.go:455) it has closed the lease, yet the transaction remains
  open. `FailedInv` shows that this is harmless: such a transaction can only
  abort again, and that Abort deletes nothing.
- Staged coverage: the contract (rkcstore/writer.go:84) says PutCoverage "stages
  or replaces derived coverage"; the SQLite backend (store_writer.go:258) refuses
  a second coverage. The refinement allows both.
- Journals of live runs: journal.go:534 calls a report without terminal record
  "a trustworthy indication that the producing process exited"; read beside a
  running process it is not.
- Corrupt objects: implementation-plan.md:4125 asks that a corrupt cache entry be
  "detected by digest and discarded". The pointer is discarded, the object is
  not, and every later Put of that content fails on it (cas/store.go:482).
- Pruning a workspace: generation.go:126 says "Call after successful registry
  publication"; cmd/rkc/workspace.go:298 calls Prune whatever has failed.
- Snapshot IDs: pipeline.go:446 wants that "changed canonical output never reuses
  an immutable snapshot ID"; the ID (:422) does not tell a bundle in which an
  adapter failed from a whole one.

### Observations

Behaviour the models have because the code has it, which nothing documents
otherwise and no property forbids.

- *Snapshot store.* Two commits may publish A, then B, and update CURRENT in the
  opposite order (store.go:424): nothing orders them, and CURRENT names A.
- *Output publication.* Some faults leave a journal that no recovery accepts: a
  crash in the middle of RemoveAll, an undoing recovery that had moved the
  staging directory, an error of the parent's sync after the journal's creation,
  a portable replacement whose put-back fails and is then aborted, an error in the
  validation after an exchange, once the exchange is undone (safeoutput.go:363):
  the journal stays and Abort removes the staging directory it names. A second
  process's Begin takes a live publisher's journal for an interrupted one. A
  put-back may overwrite what came to the target meanwhile (safeoutput.go:283
  against :406), and with three publishers it may return a directory that a
  recovery is removing.
- *Scan.* A repository that goes from A to B and back to A cannot be rescanned
  with a database, because the ID of A exists with another parent and the ID does
  not cover the parent. Scans that overlap may leave CURRENT and the atlas older
  than the database's head.
- *Workbench.* A user's cancellation during activation ends as "failed"; an Lstat
  failure after MkdirTemp leaves an empty directory; the slot is released before
  the terminal status is visible.
- *MCP.* Hits of several sources are interleaved by position, and a hit that is
  left out for its size shifts the ranks behind it.
- *Read API.* VerifyUnchangedExport compares the manifest with the pinned one
  before and after the check, but the files with the manifest it reads in
  between: a directory that leaves and comes back during the check escapes it,
  since it is the same directory afterwards, and `UnchangedSound` excludes that
  (`returned`). A search index is read a second time after its verification.
  Generations are numbered per process; what keeps a cursor of an earlier
  process out is its key.
- *Graph.* The edges of a neighborhood omit those between two nodes at its depth
  limit. A depth of 0 is not "the seed alone" but the default.
- *Readers.* canonical_snapshot_json is covered by no digest, and published_at is
  the caller's CreatedAt.
- *Host admission.* A worker that is reparented is no longer counted with its
  workload; a worker that joins it after the list was made, or ends before it is
  made again, is not seen. The
  path of a lease that was missing when opened may come into use briefly.
- *Command admission.* Work that finishes between the monitor's look and its
  message is reported as an error.
- *Models.* A file that is rewritten and restored between the two checks is not
  noticed; a failed batch of embeddings leaves its dimension bound; Close of an
  HTTP provider does not wait.
- *Grounded answers.* "verified" describes the last attempt while the answer may
  be of an earlier, better one; an abstention is verified too.
- *Compiler indexes.* A byte-identical copy of an index that is not authenticated
  and sorts first makes a scan fail with "changed during the scan"
  (scipindex/input.go:158, :190). The published path is opened again after
  publication; a deferred removal may delete a later file; the manifest is read,
  changed and written without a lock; a crash between the copy of an index and
  its manifest leaves an unlisted index. The import keeps the first kind, name
  and signature it meets for a symbol. seal.go:217 says that the sources "remained
  identical across indexing"; contents are compared, so a file that is changed and
  changed back while the indexer reads is not noticed unless the index gives the
  text it describes (`Restored`).
- *Traces.* A nested Go module that is laid out canonically gives two bindings of
  one path, and the capture is refused (affinity.go:213). Edits that are taken
  back during a capture are not noticed.
- *Histories.* A symbol that two files declare is reported removed when one of
  them loses it. HEAD moving between rev-parse and log is refused. Renames are
  whatever pairing Git chooses.

## 7. Assumptions and abstractions

- *Crashes are process crashes.* What a process has written stays, in the order
  in which it wrote it. Power loss, and so the effect of fsync, is not modelled.
- *Filesystem and kernel.* Rename, exchange, exclusive creation and advisory
  locks are atomic; a rename onto a non-empty directory fails; a lock ends with
  the process or the descriptor. These, SQLite's immediate transactions and the
  service manager are what the code relies on.
- *Names.* Two processes never draw the same random identifier. Nobody but the
  store writes below its root, except where a model says so (`Rot`, `Edit`,
  `Damage`).
- *Objects of the snapshot store.* `LoseObject` stands for objects that are
  deleted by other means (CAS().Delete) at any time, within a Commit too; the
  history variable `lost` notes those that a Commit had verified before.
- *Records* are values with references; canonical form, privacy checks and schema
  validation are outcomes of the operations. Coverage is "the coverage derived
  from this set of records". Facts of the staged pipeline are per file.
- *Digests* are the thing they are of.
- *Journal.* The hash chain is the order of the lines; a line is one record. The
  gate makes Append one step. The scheduler always has a journal, as under
  `rkc scan`.
- *Numbers* are unbounded, except where a width matters (`Top` of
  `ModelProvider`); the limits of the code are constants.
- *SQLite.* A transaction whose commit is reported as failed but has happened is
  not modelled. Migrations are versions; the catalogue digest is whether the
  schema has drifted.
- *Publishers* of generated output run with --force, as the scan does.
- *Staged pipeline.* An edit may put any content into any file at any time. SCIP
  indexes are authenticated, have a document for every file and do not change
  during a scan.
- *Resource guard.* The manager registers a delivered request within `Lag`
  observations, fewer than the `Samples` that prove quiescence.
- *Host.* The process table and the ticks are read entry by entry; the entry of
  one process is read in one step. A number is not handed on with the same start
  time. Numbers of threads are not handed on during a proof.
- *Workbench.* The proof that a process group is gone is that of Unix; elsewhere
  the code asks for the process alone. `progress` repeats a scan under one set of
  options, and its jobs see no Close.
- *MCP.* Failures of writing to the client are left out: the stream ends with
  them.

## 8. What is not modelled, and the plan

Not modelled for good: extractors, exporters, the record model, graph patches,
knowledge packs, model packets and profiles, value flow. They are functions of
their arguments and keep no state that two actors share. Plugins and acquisition
are subprocesses and network requests of one caller each.

Left out of what is modelled: headers, encodings and the static browser of the
HTTP API; tokens, scores, vectors and the fusion of rankings; flags and
acquisition of the scan command, the privacy transformation, `scanSequential`
(only tests call it), trace and history import and coverage inside the pipeline
(their inputs are fixed before the scan and their own modules model them),
restoration of
quarantined staging directories by hand.

What a continuation would add, most important first:

1. Proofs of the load and the check of `HttpApi` and of `McpServer`: an answer is
   of one generation because everything it reads is compared with what was pinned
   first, an argument like that of `ModelProvider`.
2. Proofs of `DatabaseOpen` and `ScipIndex`, whose steps touch one file each, and
   of the paging of `SnapshotReader`.
3. `SafeOutput` beside others without exchange: which target two publishers may
   leave is known from the runs only.
