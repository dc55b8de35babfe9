----------------------------- MODULE StagedScan -----------------------------
(* The scan of a source tree by internal/pipeline (staged.go): inventory,    *)
(* normalize, the concurrent analyses and their cached fragments, merge,     *)
(* value-flow, config-env and validate, one scan after another, while an     *)
(* editor changes the files.  How stages are scheduled is module Scheduler,  *)
(* how the cache stores is module StageCache; `resolve' is module            *)
(* NameResolution, and trace-import, history-import and coverage work on     *)
(* inputs fixed before the scan starts and are left out.                     *)
EXTENDS Integers, Sequences, FiniteSets, FiniteSetsExt, SequencesExt

CONSTANTS
  Files,        \* the paths, as numbers: every reader goes through them in order
  Language,     \* the language the inventory gives each file
  Enabled,      \* the analyses the options leave enabled
  Contents,     \* what a file may hold, as numbers
  MaxScans, MaxEdits, MaxFailures

ASSUME FilesAssumption ==
  /\ Files \subseteq Nat /\ Contents \subseteq Nat \ {0} /\ Contents # {}
  /\ IsFiniteSet(Files) /\ {MaxScans, MaxEdits, MaxFailures} \subseteq Nat

Missing == 0                    \* the content of a path that is not there

----------------------------------------------------------------------------
(* The adapters.  `reads' are the languages an adapter reads, `keyed' those  *)
(* its cache key covers, `marks' whether its files become syntax_parsed.     *)
(* `check' is what it does with the inventoried digest: "none" reads what is *)
(* there, "report" records a diagnostic instead of the file's facts, "ahead" *)
(* verifies every file first, fails on a mismatch, and reads them again in   *)
(* another process, "closed" fails the scan.  The SCIP indexes stay the same *)
(* (a changed one fails the scan too), have a document for every file, and   *)
(* are authenticated.                                                        *)
EveryLanguage == {Language[f] : f \in Files}

PythonSyntax == [reads |-> {"python"}, keyed |-> {"python"}, marks |-> TRUE, check |-> "ahead"]
GoSyntax     == [reads |-> {"go", "go.mod"}, keyed |-> {"go", "go.mod"}, marks |-> TRUE, check |-> "none"]
TypeScriptSyntax == [reads |-> {"typescript", "package.json"}, keyed |-> {"typescript", "package.json"},
                     marks |-> TRUE, check |-> "none"]
ScipSemantic == [reads |-> EveryLanguage, keyed |-> EveryLanguage, marks |-> FALSE, check |-> "closed"]
Markdown     == [reads |-> {"markdown"}, keyed |-> EveryLanguage, marks |-> TRUE, check |-> "none"]
SourceDocuments == [reads |-> {"text"}, keyed |-> {"text"}, marks |-> FALSE, check |-> "report"]
OpenAPI      == [reads |-> {"json"}, keyed |-> {"json"}, marks |-> FALSE, check |-> "none"]
JSONSchema   == [reads |-> {"json"}, keyed |-> {"json"}, marks |-> FALSE, check |-> "none"]
Manifests    == [reads |-> EveryLanguage, keyed |-> EveryLanguage, marks |-> FALSE, check |-> "none"]
EnvKeys      == [reads |-> {"env"}, keyed |-> {"env"}, marks |-> TRUE, check |-> "none"]
SecretScan   == [reads |-> EveryLanguage, keyed |-> EveryLanguage, marks |-> FALSE, check |-> "none"]
ConfigEnv    == [reads |-> EveryLanguage, keyed |-> EveryLanguage, marks |-> FALSE, check |-> "none"]
ValueFlow    == [reads |-> {"go"}, keyed |-> {}, marks |-> FALSE, check |-> "report"]

FragmentMergeOrder ==
  << "python-syntax", "go-syntax", "typescript-syntax", "scip-semantic", "markdown",
     "source-documents", "openapi", "json-schema", "manifests", "env-keys", "secret-scan" >>

Adapter ==
  [s \in ToSet(FragmentMergeOrder) \union {"value-flow", "config-env"} |->
     CASE s = "python-syntax"     -> PythonSyntax
       [] s = "go-syntax"         -> GoSyntax
       [] s = "typescript-syntax" -> TypeScriptSyntax
       [] s = "scip-semantic"     -> ScipSemantic
       [] s = "markdown"          -> Markdown
       [] s = "source-documents"  -> SourceDocuments
       [] s = "openapi"           -> OpenAPI
       [] s = "json-schema"       -> JSONSchema
       [] s = "manifests"         -> Manifests
       [] s = "env-keys"          -> EnvKeys
       [] s = "secret-scan"       -> SecretScan
       [] s = "value-flow"        -> ValueFlow
       [] s = "config-env"        -> ConfigEnv]

Analyses == Enabled \intersect ToSet(FragmentMergeOrder)

\* value-flow is the one adapter whose stage never uses the cache.
Cached(s) == s # "value-flow"

Stages == Analyses \union {"inventory", "normalize", "merge", "value-flow", "config-env", "validate"}

Dependencies ==
  [s \in Stages |->
     CASE s = "inventory"  -> {}
       [] s = "normalize"  -> {"inventory"}
       [] s \in Analyses   -> {"normalize"}
       [] s = "merge"      -> Analyses \union {"normalize"}
       [] s = "value-flow" -> {"merge"}
       [] s = "config-env" -> {"value-flow"}
       [] s = "validate"   -> {"config-env"}]

----------------------------------------------------------------------------
(* Facts.  A record has an identity, and two adapters may both produce it:   *)
(* dedupeBundle keeps the first node, the edge with the strongest resolution *)
(* (the first of equals), and the last document.                             *)
Rank(s) == IF s = "scip-semantic" THEN 7 ELSE IF s \in {"manifests", "go-syntax"} THEN 5 ELSE 4

\* What adapter s makes of the contents it has seen; Missing yields a diagnostic.
Facts(s, seen) ==
  LET Usable == {f \in DOMAIN seen : seen[f] # Missing}
  IN  { [id |-> <<kind, f>>, rank |-> IF kind = "edge" THEN Rank(s) ELSE 0, value |-> <<s, seen[f]>>] :
          kind \in {"node", "edge", "document"}, f \in Usable }
      \union { [id |-> <<"diagnostic", s>>, rank |-> 0, value |-> <<s, f>>] :
                 f \in DOMAIN seen \ Usable }

\* An adapter that fails as a whole leaves one diagnostic.
AdapterError(s) == {[id |-> <<"error", s>>, rank |-> 0, value |-> <<s, 0>>]}

DedupeBundle(old, new) ==
  LET Kept(r) == /\ \A q \in new : q.id = r.id => /\ r.id[1] # "document"
                                                  /\ q.rank <= r.rank
      Wins(q) == \A r \in old : r.id = q.id => \/ q.id[1] = "document"
                                               \/ q.rank > r.rank
  IN  {r \in old : Kept(r)} \union {q \in new : Wins(q)}

Status(f, parsed) == [id |-> <<"artifact", f>>, rank |-> 0, value |-> <<"status", IF f \in parsed THEN 1 ELSE 0>>]

----------------------------------------------------------------------------
VARIABLES
  disk,         \* [Files -> Contents \union {Missing}]
  identity,     \* [Files -> Nat]: the file behind the path (os.SameFile)
  gone, back,   \* history: the <<file, content>> that edits took away, and those they brought back
  scans,        \* how many scans have begun
  stage,        \* [Stages -> {"waiting", "running", "done"}]
  todo,         \* [Stages -> SUBSET Files]: the files a running stage has still to read
  ahead,        \* [Stages -> SUBSET Files]: the files an adapter has still to verify
  seen,         \* [Stages -> contents a running stage has read]
  inventory,    \* the contents the scan is bound to, by file
  identities,   \* what normalize recorded of each inventoried file
  fragments,    \* stagedScanState.fragments: [stage -> facts]
  parsed,       \* stagedScanState.parsed
  bundle,       \* stagedScanState.bundle: a set of facts
  failed,       \* the adapters that failed as a whole in this scan
  cache,        \* [<<stage, contents>> -> [facts, parsed]]
  published,    \* what the scans have returned, with what it was made of
  edits, failures

scan == <<stage, todo, ahead, seen, inventory, identities, fragments, parsed, bundle, failed>>
vars == <<disk, identity, gone, back, scans, scan, cache, published, edits, failures>>

Empty == [f \in {} |-> 0]

TypeOK ==
  /\ disk \in [Files -> Contents \union {Missing}]
  /\ identity \in [Files -> Nat]
  /\ gone \subseteq Files \X (Contents \union {Missing}) /\ back \subseteq gone
  /\ stage \in [Stages -> {"waiting", "running", "done"}]
  /\ DOMAIN seen = Stages
  /\ todo \in [Stages -> SUBSET Files] /\ ahead \in [Stages -> SUBSET Files]
  /\ DOMAIN inventory \subseteq Files /\ DOMAIN identities \subseteq DOMAIN inventory
  /\ parsed \subseteq DOMAIN inventory
  /\ DOMAIN fragments \subseteq DOMAIN Adapter
  /\ failed \subseteq DOMAIN Adapter
  /\ scans \in 0..MaxScans /\ edits \in 0..MaxEdits /\ failures \in 0..MaxFailures

\* No scan is running: every stage of a fresh stagedScanState waits.
Fresh ==
  /\ stage' = [s \in Stages |-> "waiting"]
  /\ todo' = [s \in Stages |-> {}] /\ ahead' = [s \in Stages |-> {}]
  /\ seen' = [s \in Stages |-> Empty]
  /\ inventory' = Empty /\ identities' = Empty /\ fragments' = Empty
  /\ parsed' = {} /\ bundle' = {} /\ failed' = {}

Running == \E s \in Stages : stage[s] # "waiting"

Init ==
  /\ disk \in [Files -> {Min(Contents)}]
  /\ identity = [f \in Files |-> 0]
  /\ gone = {} /\ back = {}
  /\ scans = 0
  /\ stage = [s \in Stages |-> "waiting"]
  /\ todo = [s \in Stages |-> {}] /\ ahead = [s \in Stages |-> {}]
  /\ seen = [s \in Stages |-> Empty]
  /\ inventory = Empty /\ identities = Empty /\ fragments = Empty
  /\ parsed = {} /\ bundle = {} /\ failed = {}
  /\ cache = Empty /\ published = {}
  /\ edits = 0 /\ failures = 0

----------------------------------------------------------------------------
(* The editor.                                                               *)

\* A file is written in place, replaced by another file, or removed; what it
\* holds then it may have held before.
Edit(f, c) ==
  /\ edits < MaxEdits
  /\ edits' = edits + 1
  /\ c # disk[f]
  /\ disk' = [disk EXCEPT ![f] = c]
  /\ identity' \in {identity, [identity EXCEPT ![f] = @ + 1]}
  /\ gone' = gone \union {<<f, disk[f]>>}
  /\ back' = back \union ({<<f, c>>} \intersect gone)
  /\ UNCHANGED <<scans, scan, cache, published, failures>>

----------------------------------------------------------------------------
(* The stages.                                                               *)

Next1(s) == Min(todo[s])        \* files are read in the order of their paths

Ready(s) == stage[s] = "waiting" /\ \A d \in Dependencies[s] : stage[d] = "done"

Reading(s) == stage[s] = "running" /\ todo[s] # {} /\ ahead[s] = {}

\* Scan: fresh state, and the inventory begins to walk the root.
BeginScan ==
  /\ ~Running
  /\ scans < MaxScans
  /\ scans' = scans + 1
  /\ stage' = [stage EXCEPT !["inventory"] = "running"]
  /\ todo' = [todo EXCEPT !["inventory"] = Files]
  /\ UNCHANGED <<disk, identity, gone, back, ahead, seen, inventory, identities, fragments,
                 parsed, bundle, failed, cache, published, edits, failures>>

\* The error of a stage, a cancellation or the death of the process ends the
\* scan.  What the cache holds stays.
EndScan ==
  /\ Fresh
  /\ UNCHANGED <<disk, identity, gone, back, scans, cache, published, edits>>

\* runInventory reads the next path; one that is not there is not inventoried.
InventoryFile ==
  LET f == Next1("inventory") IN
  /\ Reading("inventory")
  /\ todo' = [todo EXCEPT !["inventory"] = @ \ {f}]
  /\ inventory' = IF disk[f] = Missing THEN inventory
                  ELSE [g \in DOMAIN inventory \union {f} |-> IF g = f THEN disk[f] ELSE inventory[g]]
  /\ UNCHANGED <<disk, identity, gone, back, scans, stage, ahead, seen, identities, fragments,
                 parsed, bundle, failed, cache, published, edits, failures>>

RunInventory ==
  /\ stage["inventory"] = "running" /\ todo["inventory"] = {}
  /\ stage' = [stage EXCEPT !["inventory"] = "done", !["normalize"] = "running"]
  /\ todo' = [todo EXCEPT !["normalize"] = DOMAIN inventory]
  /\ UNCHANGED <<disk, identity, gone, back, scans, ahead, seen, inventory, identities, fragments,
                 parsed, bundle, failed, cache, published, edits, failures>>

\* readInventoriedSource: the content is that of the inventory.
Inventoried(f) == disk[f] = inventory[f]

\* collectSensitiveLiteralsAndIdentity records which file it has read.
CollectIdentity ==
  LET f == Next1("normalize") IN
  /\ Reading("normalize")
  /\ Inventoried(f)
  /\ todo' = [todo EXCEPT !["normalize"] = @ \ {f}]
  /\ identities' = [g \in DOMAIN identities \union {f} |-> IF g = f THEN identity[f] ELSE identities[g]]
  /\ UNCHANGED <<disk, identity, gone, back, scans, stage, ahead, seen, inventory, fragments,
                 parsed, bundle, failed, cache, published, edits, failures>>

RunNormalize ==
  /\ stage["normalize"] = "running" /\ todo["normalize"] = {}
  /\ stage' = [stage EXCEPT !["normalize"] = "done"]
  /\ UNCHANGED <<disk, identity, gone, back, scans, todo, ahead, seen, inventory, identities,
                 fragments, parsed, bundle, failed, cache, published, edits, failures>>

----------------------------------------------------------------------------
(* An analysis: restored from the cache, or run.                             *)

Of(languages) == {f \in DOMAIN inventory : Language[f] \in languages}

\* DynamicInputDigests: the inventoried contents of the files the key covers.
Key(s) == <<s, [f \in Of(Adapter[s].keyed) |-> inventory[f]]>>

Adapters == Analyses \union {"value-flow", "config-env"}

\* The adapter takes nothing but the inventoried content.
Closed(s) == Adapter[s].check = "closed"

\* Only config-env and value-flow run after merge and join the bundle at once.
PostMerge(s) == s \in {"value-flow", "config-env"}

\* recordFragment and restoreFragment leave the fragment for runMerge;
\* mergeRecordedFragment merges it where there will be no runMerge.
Leave(s, facts, files) ==
  /\ stage' = [stage EXCEPT ![s] = "done"]
  /\ fragments' = [t \in DOMAIN fragments \union {s} |-> IF t = s THEN facts ELSE fragments[t]]
  /\ parsed' = parsed \union files
  /\ bundle' = IF PostMerge(s) THEN DedupeBundle(bundle, facts) ELSE bundle

\* defect: a restored fragment waits for a merge that is over
RestoreUnmerged(s) ==
  /\ s \in Adapters /\ Cached(s)
  /\ Ready(s)
  /\ Key(s) \in DOMAIN cache
  /\ stage' = [stage EXCEPT ![s] = "done"]
  /\ fragments' = [t \in DOMAIN fragments \union {s} |-> IF t = s THEN cache[Key(s)].facts ELSE fragments[t]]
  /\ parsed' = parsed \union cache[Key(s)].parsed
  /\ UNCHANGED <<disk, identity, gone, back, scans, todo, ahead, seen, inventory, identities,
                 bundle, failed, cache, published, edits, failures>>

Restore(s) ==
  /\ s \in Adapters /\ Cached(s)
  /\ Ready(s)
  /\ Key(s) \in DOMAIN cache
  /\ Leave(s, cache[Key(s)].facts, cache[Key(s)].parsed)
  /\ UNCHANGED <<disk, identity, gone, back, scans, todo, ahead, seen, inventory, identities,
                 failed, cache, published, edits, failures>>

Start(s) ==
  /\ s \in Adapters
  /\ Ready(s)
  /\ Cached(s) => Key(s) \notin DOMAIN cache
  /\ stage' = [stage EXCEPT ![s] = "running"]
  /\ todo' = [todo EXCEPT ![s] = Of(Adapter[s].reads)]
  /\ ahead' = [ahead EXCEPT ![s] = IF Adapter[s].check = "ahead" THEN Of(Adapter[s].reads) ELSE {}]
  /\ UNCHANGED <<disk, identity, gone, back, scans, seen, inventory, identities, fragments,
                 parsed, bundle, failed, cache, published, edits, failures>>

\* validatePythonFileRefs, before the worker starts.
VerifyAhead(s) ==
  LET f == Min(ahead[s]) IN
  /\ stage[s] = "running" /\ ahead[s] # {}
  /\ Inventoried(f)
  /\ ahead' = [ahead EXCEPT ![s] = @ \ {f}]
  /\ UNCHANGED <<disk, identity, gone, back, scans, stage, todo, seen, inventory, identities,
                 fragments, parsed, bundle, failed, cache, published, edits, failures>>

\* What an adapter gets of file f.
Got(s, f) == IF Adapter[s].check = "report" /\ ~Inventoried(f) THEN Missing ELSE disk[f]

ReadFile(s) ==
  LET f == Next1(s) IN
  /\ s \in Adapters /\ Reading(s)
  /\ Closed(s) => Inventoried(f)
  /\ todo' = [todo EXCEPT ![s] = @ \ {f}]
  /\ seen' = [seen EXCEPT ![s] = [g \in DOMAIN seen[s] \union {f} |-> IF g = f THEN Got(s, f) ELSE seen[s][g]]]
  /\ UNCHANGED <<disk, identity, gone, back, scans, stage, ahead, inventory, identities,
                 fragments, parsed, bundle, failed, cache, published, edits, failures>>

\* The scheduler stores what recordFragment has put under the stage's key.
Store(key, facts, files) ==
  cache' = [k \in DOMAIN cache \union {key} |->
              IF k = key THEN [facts |-> facts, parsed |-> files] ELSE cache[k]]

RecordFragment(s) ==
  LET facts == Facts(s, seen[s])
      files == IF Adapter[s].marks THEN DOMAIN seen[s] ELSE {}
  IN  /\ s \in Adapters /\ stage[s] = "running" /\ todo[s] = {}
      /\ Leave(s, facts, files)
      /\ IF Cached(s) THEN Store(Key(s), facts, files) ELSE UNCHANGED cache
      /\ UNCHANGED <<disk, identity, gone, back, scans, todo, ahead, seen, inventory, identities,
                     failed, published, edits, failures>>

\* defect: the diagnostic is cached like a fragment
CachedDiagnostic(s) ==
  /\ s \in Adapters \ {"value-flow"} /\ ~Closed(s) /\ stage[s] = "running"
  /\ IF ahead[s] # {} /\ ~Inventoried(Min(ahead[s])) THEN UNCHANGED failures
     ELSE failures < MaxFailures /\ failures' = failures + 1
  /\ Leave(s, AdapterError(s), {})
  /\ Store(Key(s), AdapterError(s), {})
  /\ failed' = failed \union {s}
  /\ todo' = [todo EXCEPT ![s] = {}] /\ ahead' = [ahead EXCEPT ![s] = {}]
  /\ UNCHANGED <<disk, identity, gone, back, scans, seen, inventory, identities, published,
                 edits>>

\* The adapter fails (a mismatch found ahead, a timeout, a full output buffer):
\* its diagnostic takes the place of the fragment and is not cached.
DiagnosticResult(s) ==
  /\ s \in Adapters \ {"value-flow"} /\ ~Closed(s) /\ stage[s] = "running"
  /\ IF ahead[s] # {} /\ ~Inventoried(Min(ahead[s])) THEN UNCHANGED failures
     ELSE failures < MaxFailures /\ failures' = failures + 1
  /\ Leave(s, AdapterError(s), {})
  /\ failed' = failed \union {s}
  /\ todo' = [todo EXCEPT ![s] = {}] /\ ahead' = [ahead EXCEPT ![s] = {}]
  /\ UNCHANGED <<disk, identity, gone, back, scans, seen, inventory, identities, cache, published,
                 edits>>

----------------------------------------------------------------------------
(* Merge and validate.                                                       *)

\* The facts of the inventoried files and of the given fragments, in the fixed order.
Merged(files, frags, marked) ==
  FoldLeft(LAMBDA b, s : IF s \in DOMAIN frags THEN DedupeBundle(b, frags[s]) ELSE b,
           {Status(f, marked) : f \in files}, FragmentMergeOrder)

RunMerge ==
  /\ Ready("merge")
  /\ bundle' = Merged(DOMAIN inventory, fragments, parsed)
  /\ stage' = [stage EXCEPT !["merge"] = "done"]
  /\ UNCHANGED <<disk, identity, gone, back, scans, todo, ahead, seen, inventory, identities,
                 fragments, parsed, failed, cache, published, edits, failures>>

BeginValidate ==
  /\ Ready("validate")
  /\ stage' = [stage EXCEPT !["validate"] = "running"]
  /\ todo' = [todo EXCEPT !["validate"] = DOMAIN inventory]
  /\ UNCHANGED <<disk, identity, gone, back, scans, ahead, seen, inventory, identities, fragments,
                 parsed, bundle, failed, cache, published, edits, failures>>

\* reverifyInventoriedSources: the inventoried content, in the same file.
Verified(f) == Inventoried(f) /\ identity[f] = identities[f]

Reverify ==
  LET f == Next1("validate") IN
  /\ Reading("validate")
  /\ Verified(f)
  /\ todo' = [todo EXCEPT !["validate"] = @ \ {f}]
  /\ UNCHANGED <<disk, identity, gone, back, scans, stage, ahead, seen, inventory, identities,
                 fragments, parsed, bundle, failed, cache, published, edits, failures>>

\* The scan returns its bundle, under an ID made of the inventory.
Publish ==
  /\ stage["validate"] = "running" /\ todo["validate"] = {}
  /\ published' = published \union
       {[sources |-> inventory, fragments |-> fragments, failed |-> failed, bundle |-> bundle, back |-> back]}
  /\ Fresh
  /\ UNCHANGED <<disk, identity, gone, back, scans, cache, edits, failures>>

\* normalize, the SCIP adapter or validate has met a file that is not the
\* inventoried one.
SourceChanged ==
  /\ \/ Reading("normalize") /\ ~Inventoried(Next1("normalize"))
     \/ \E s \in Adapters : Reading(s) /\ Closed(s) /\ ~Inventoried(Next1(s))
     \/ Reading("validate") /\ ~Verified(Next1("validate"))
  /\ EndScan /\ UNCHANGED failures

\* A cancellation, a crash, or a stage that fails closed.
Interrupt ==
  /\ Running
  /\ failures < MaxFailures
  /\ failures' = failures + 1
  /\ EndScan

----------------------------------------------------------------------------
Next ==
  \/ \E f \in Files, c \in Contents \union {Missing} : Edit(f, c)
  \/ BeginScan \/ InventoryFile \/ RunInventory \/ CollectIdentity \/ RunNormalize
  \/ \E s \in Adapters : \/ Restore(s) \/ Start(s) \/ VerifyAhead(s) \/ ReadFile(s)
                         \/ RecordFragment(s) \/ DiagnosticResult(s)
  \/ RunMerge \/ BeginValidate \/ Reverify \/ Publish \/ SourceChanged \/ Interrupt

Spec == Init /\ [][Next]_vars

----------------------------------------------------------------------------
\* What one adapter after the other makes of the given sources, with no cache
\* and no editor, when the adapters of `broken' fail.
Read(s, files) == {f \in files : Language[f] \in Adapter[s].reads}

Genuine(s, sources) == Facts(s, [f \in Read(s, DOMAIN sources) |-> sources[f]])

CleanFragment(s, sources, broken) == IF s \in broken THEN AdapterError(s) ELSE Genuine(s, sources)

Marks(sources, broken) ==
  {f \in DOMAIN sources : \E s \in Analyses \ broken : Adapter[s].marks /\ Language[f] \in Adapter[s].reads}

\* The bundle made of what the adapters have left, in the fixed order.
MergeOf(sources, frags, broken) ==
  Merged(DOMAIN sources, [s \in Analyses |-> frags[s]], Marks(sources, broken))

FlowOf(sources, frags, broken) == DedupeBundle(MergeOf(sources, frags, broken), frags["value-flow"])

BundleOf(sources, frags, broken) == DedupeBundle(FlowOf(sources, frags, broken), frags["config-env"])

CleanBundle(sources, broken) ==
  BundleOf(sources, [s \in Adapters |-> CleanFragment(s, sources, broken)], broken)

\* A bundle a scan returns is what the fragments make in their fixed order,
\* however the concurrent analyses ended, and a fragment, run or restored, is
\* what a clean scan of the inventoried sources makes, unless it reads a file
\* whose inventoried content an edit had taken away and another brought back and
\* does not insist on the inventoried content, as the SCIP adapter does.
\* When no source came back, the bundle is that of a clean scan
\* (staged.go:771 runMerge, cache.go:530 restoreFragment).
PublishedIsClean ==
  \A p \in published :
    LET Back(f) == <<f, p.sources[f]>> \in p.back
    IN  /\ p.bundle = BundleOf(p.sources, p.fragments, p.failed)
        /\ \A s \in Adapters : (\A f \in Read(s, DOMAIN p.sources) : ~Back(f)) \/ Closed(s)
                                => p.fragments[s] = CleanFragment(s, p.sources, p.failed)
        /\ (\A f \in DOMAIN p.sources : ~Back(f)) => p.bundle = CleanBundle(p.sources, p.failed)

\* An adapter's failure leaves nothing that a later scan of the same sources
\* takes for its result (staged.go:974 diagnosticResult).
FailureForgotten ==
  \A s \in Adapters : stage[s] = "done" /\ s \in DOMAIN fragments /\ s \notin failed
                        => \A r \in fragments[s] : r.id[1] # "error"

\* A cached payload is what its stage makes of the inputs its key stands for
\* (plan.go:175 "verified payload matches stage, inputs, and configuration").
CachedIsGenuine ==
  \A k \in DOMAIN cache : cache[k].facts = Genuine(k[1], k[2])

----------------------------------------------------------------------------
(* Why: what an edit has taken away is there again only when another brings  *)
(* it back.                                                                  *)

\* A content the file has, or had.
Was(f, content) == disk[f] = content \/ <<f, content>> \in gone

\* A content the file has, and never lost since it was recorded.
Kept(f, content) == disk[f] = content /\ <<f, content>> \notin back

\* A stage runs and ends after those it depends on; without a scan all is fresh.
StagesInOrder ==
  /\ \A s \in Stages : stage[s] # "waiting" => \A d \in Dependencies[s] : stage[d] = "done"
  /\ stage["inventory"] = "waiting" =>
       /\ \A s \in Stages : stage[s] = "waiting"
       /\ inventory = Empty /\ fragments = Empty /\ parsed = {} /\ failed = {}
  /\ \A s \in Adapters : stage[s] = "waiting" => seen[s] = Empty

\* The inventoried content of f is there, or was when validate looked, and was
\* not away.
Sure(f) ==
  /\ disk[f] = inventory[f] \/ (stage["validate"] = "running" /\ f \notin todo["validate"])
  /\ <<f, inventory[f]>> \notin back

InventoryInv ==
  /\ DOMAIN inventory \subseteq Files
  /\ \A f \in DOMAIN inventory : Was(f, inventory[f])
  /\ stage["normalize"] = "running" => todo["normalize"] \subseteq DOMAIN inventory

\* A running adapter has read the inventoried content of what never changed.
ReadingInv ==
  \A s \in Adapters : stage[s] = "running" =>
    /\ todo[s] \subseteq Of(Adapter[s].reads)
    /\ seen[s] \in [Of(Adapter[s].reads) \ todo[s] -> Contents \union {Missing}]
    /\ \A f \in DOMAIN seen[s] : Kept(f, inventory[f]) \/ Closed(s) => seen[s][f] = inventory[f]

\* So a fragment is genuine unless one of its files has changed unverified.
FragmentsInv ==
  /\ fragments = [s \in {t \in Adapters : stage[t] = "done"} |-> fragments[s]]
  /\ failed \subseteq DOMAIN fragments \ {"value-flow"}
  /\ \A s \in DOMAIN fragments :
       (\A f \in Of(Adapter[s].reads) : Sure(f)) \/ Closed(s) => fragments[s] = CleanFragment(s, inventory, failed)
  /\ parsed = {f \in DOMAIN inventory : \E s \in (Analyses \cap DOMAIN fragments) \ failed :
                 Adapter[s].marks /\ Language[f] \in Adapter[s].reads}

BundleInv ==
  stage["merge"] = "done" =>
    bundle = IF stage["config-env"] = "done" THEN BundleOf(inventory, fragments, failed)
             ELSE IF stage["value-flow"] = "done" THEN FlowOf(inventory, fragments, failed)
             ELSE MergeOf(inventory, fragments, failed)

\* And a cache entry is genuine unless one of its files is no longer what its key
\* says, or was not for a while.
CacheInv ==
  \A k \in DOMAIN cache : LET s == k[1] content == k[2] IN
    /\ s \in Adapters /\ Cached(s)
    /\ DOMAIN content \subseteq Files /\ \A f \in DOMAIN content : Was(f, content[f])
    /\ cache[k].parsed = IF Adapter[s].marks THEN Read(s, DOMAIN content) ELSE {}
    /\ (\A f \in Read(s, DOMAIN content) : Kept(f, content[f])) \/ Closed(s) => cache[k].facts = Genuine(s, content)

IInv ==
  /\ TypeOK /\ StagesInOrder /\ InventoryInv /\ ReadingInv /\ FragmentsInv /\ BundleInv /\ CacheInv

\* The records of a scan stay well formed, and forget what failed.
StagedSound == IInv /\ FailureForgotten
=============================================================================
