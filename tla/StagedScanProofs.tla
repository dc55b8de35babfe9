-------------------------- MODULE StagedScanProofs --------------------------
(***************************************************************************)
(* Why a scan publishes what its adapters make of the inventoried sources, *)
(* whatever is edited meanwhile, whatever fails and whatever the cache     *)
(* restores, but for the facts of files that were changed and changed back.*)
(***************************************************************************)
EXTENDS StagedScan, StageCache, WellFoundedInduction, TLAPS

(***************************************************************************)
(* The adapters and the order of the stages.                               *)
(***************************************************************************)
MergeNames == {"python-syntax", "go-syntax", "typescript-syntax", "scip-semantic", "markdown",
               "source-documents", "openapi", "json-schema", "manifests", "env-keys", "secret-scan"}

LEMMA OrderNames == ToSet(FragmentMergeOrder) = MergeNames
<1>1. DOMAIN FragmentMergeOrder = 1..11
  BY DEF FragmentMergeOrder
<1>2. 1..11 = {1, 2, 3, 4, 5, 6, 7, 8, 9, 10, 11}
  OBVIOUS
<1> DEFINE F == FragmentMergeOrder
<1>3. /\ F[1] = "python-syntax" /\ F[2] = "go-syntax" /\ F[3] = "typescript-syntax" /\ F[4] = "scip-semantic"
      /\ F[5] = "markdown" /\ F[6] = "source-documents" /\ F[7] = "openapi" /\ F[8] = "json-schema"
      /\ F[9] = "manifests" /\ F[10] = "env-keys" /\ F[11] = "secret-scan"
  BY DEF FragmentMergeOrder
<1> HIDE DEF F
<1>4. {F[i] : i \in 1..11} = MergeNames
  BY <1>2, <1>3 DEF MergeNames
<1> QED BY <1>1, <1>4 DEF ToSet, F

LEMMA Names ==
  /\ Analyses \subseteq MergeNames
  /\ Adapters = Analyses \union {"value-flow", "config-env"}
  /\ Adapters \subseteq Stages /\ {"inventory", "normalize", "merge", "validate"} \subseteq Stages
  /\ \A s \in Analyses : s \notin {"inventory", "normalize", "merge", "value-flow", "config-env", "validate"}
BY OrderNames DEF Analyses, Adapters, Stages, MergeNames

\* What the proofs need of the adapters: a cached one reads only what its key
\* covers, and those that run after merge mark nothing.
LEMMA AdapterFacts ==
  /\ Adapters \subseteq DOMAIN Adapter
  /\ \A s \in Adapters : Cached(s) =>
       \A f \in Files : Language[f] \in Adapter[s].reads => Language[f] \in Adapter[s].keyed
  /\ ~Adapter["value-flow"].marks /\ ~Adapter["config-env"].marks
<1> DEFINE D == MergeNames \union {"value-flow", "config-env"}
<1>1. DOMAIN Adapter = D
  BY OrderNames DEF Adapter
<1>2. Adapters \subseteq D
  BY Names
<1>3. /\ Adapter["python-syntax"] = PythonSyntax /\ Adapter["go-syntax"] = GoSyntax
      /\ Adapter["typescript-syntax"] = TypeScriptSyntax /\ Adapter["markdown"] = Markdown
      /\ Adapter["source-documents"] = SourceDocuments /\ Adapter["openapi"] = OpenAPI
      /\ Adapter["json-schema"] = JSONSchema /\ Adapter["manifests"] = Manifests
      /\ Adapter["env-keys"] = EnvKeys /\ Adapter["secret-scan"] = SecretScan
      /\ Adapter["scip-semantic"] = ScipSemantic
      /\ Adapter["value-flow"] = ValueFlow /\ Adapter["config-env"] = ConfigEnv
  BY OrderNames DEF Adapter, MergeNames
<1>4. \A f \in Files : Language[f] \in EveryLanguage
  BY DEF EveryLanguage
<1>5. ASSUME NEW s \in D, s # "value-flow"
      PROVE  Adapter[s].reads \subseteq Adapter[s].keyed \/ Adapter[s].keyed = EveryLanguage
  <2> DEFINE Covers(A) == A.reads = A.keyed \/ A.keyed = EveryLanguage
  <2>1. Covers(PythonSyntax) /\ Covers(GoSyntax) /\ Covers(TypeScriptSyntax) /\ Covers(Markdown)
    BY DEF PythonSyntax, GoSyntax, TypeScriptSyntax, Markdown
  <2>2. Covers(SourceDocuments) /\ Covers(OpenAPI) /\ Covers(JSONSchema) /\ Covers(Manifests)
    BY DEF SourceDocuments, OpenAPI, JSONSchema, Manifests
  <2>3. Covers(EnvKeys) /\ Covers(SecretScan) /\ Covers(ConfigEnv) /\ Covers(ScipSemantic)
    BY DEF EnvKeys, SecretScan, ConfigEnv, ScipSemantic
  <2> HIDE DEF Covers
  <2>4. Covers(Adapter[s])
    BY <1>3, <1>5, <2>1, <2>2, <2>3, Zenon DEF MergeNames
  <2> QED BY <2>4 DEF Covers
<1>6. ~Adapter["value-flow"].marks /\ ~Adapter["config-env"].marks
  BY <1>3 DEF ValueFlow, ConfigEnv
<1> HIDE DEF D
<1>7. ASSUME NEW s \in Adapters, Cached(s), NEW f \in Files, Language[f] \in Adapter[s].reads
      PROVE  Language[f] \in Adapter[s].keyed
  <2>1. s \in D /\ s # "value-flow"
    BY <1>2, <1>7 DEF Cached
  <2> QED BY <1>4, <1>5, <1>7, <2>1
<1> QED BY <1>1, <1>2, <1>6, <1>7

\* The order of the stages, spelt out.
Ordered ==
  /\ stage["normalize"] # "waiting" => stage["inventory"] = "done"
  /\ \A s \in Analyses : stage[s] # "waiting" => stage["normalize"] = "done"
  /\ stage["merge"] # "waiting" => stage["normalize"] = "done" /\ \A s \in Analyses : stage[s] = "done"
  /\ stage["value-flow"] # "waiting" => stage["merge"] = "done"
  /\ stage["config-env"] # "waiting" => stage["value-flow"] = "done"
  /\ stage["validate"] # "waiting" => stage["config-env"] = "done"

LEMMA DependencyFacts ==
  /\ Dependencies["inventory"] = {} /\ Dependencies["normalize"] = {"inventory"}
  /\ \A s \in Analyses : Dependencies[s] = {"normalize"}
  /\ Dependencies["merge"] = Analyses \union {"normalize"}
  /\ Dependencies["value-flow"] = {"merge"} /\ Dependencies["config-env"] = {"value-flow"}
  /\ Dependencies["validate"] = {"config-env"}
<1> DEFINE D(s) == CASE s = "inventory"  -> {}
                     [] s = "normalize"  -> {"inventory"}
                     [] s \in Analyses   -> {"normalize"}
                     [] s = "merge"      -> Analyses \union {"normalize"}
                     [] s = "value-flow" -> {"merge"}
                     [] s = "config-env" -> {"value-flow"}
                     [] s = "validate"   -> {"config-env"}
<1>1. \A s \in Stages : Dependencies[s] = D(s)
  BY DEF Dependencies
<1>2. \A s \in Analyses : D(s) = {"normalize"}
  BY Names
<1>3. /\ D("inventory") = {} /\ D("normalize") = {"inventory"} /\ D("merge") = Analyses \union {"normalize"}
      /\ D("value-flow") = {"merge"} /\ D("config-env") = {"value-flow"} /\ D("validate") = {"config-env"}
  BY Names
<1> HIDE DEF D
<1> QED BY <1>1, <1>2, <1>3, Names
  
LEMMA OrderFact == (\A s \in Stages : stage[s] # "waiting" => \A d \in Dependencies[s] : stage[d] = "done") <=> Ordered
<1>1. Stages = Analyses \union {"inventory", "normalize", "merge", "value-flow", "config-env", "validate"}
  BY DEF Stages
<1> QED BY <1>1, DependencyFacts DEF Ordered

-----------------------------------------------------------------------------
(***************************************************************************)
(* What a file has been stays known, and what it lost stays lost or shows.  *)
(***************************************************************************)
Onward ==
  /\ \A f \in Files : \A c : Was(f, c) => Was(f, c)' /\ (Kept(f, c)' => Kept(f, c))
  /\ back \subseteq back'

LEMMA StillOnward == UNCHANGED <<disk, gone, back>> => Onward
BY DEF Onward, Was, Kept

LEMMA EditOnward ==
  ASSUME TypeOK, NEW f \in Files, NEW c \in Contents \union {Missing}, Edit(f, c)
  PROVE  Onward
<1>1. /\ disk' = [disk EXCEPT ![f] = c] /\ disk \in [Files -> Contents \union {Missing}]
      /\ gone' = gone \union {<<f, disk[f]>>}
      /\ back' = back \union ({<<f, c>>} \intersect gone)
  BY DEF Edit, TypeOK
<1>2. ASSUME NEW g \in Files, NEW d, Was(g, d) PROVE Was(g, d)' /\ (Kept(g, d)' => Kept(g, d))
  <2>1. disk[g] = d \/ <<g, d>> \in gone
    BY <1>2 DEF Was
  <2>2. disk'[g] = IF g = f THEN c ELSE disk[g]
    BY <1>1
  <2>3. disk'[g] = d \/ <<g, d>> \in gone'
    BY <1>1, <2>1, <2>2
  <2>4. ASSUME disk'[g] = d, <<g, d>> \notin back' PROVE disk[g] = d /\ <<g, d>> \notin back
    BY <1>1, <2>1, <2>2, <2>4
  <2> QED BY <2>3, <2>4 DEF Was, Kept
<1>3. back \subseteq back'
  BY <1>1
<1> QED BY <1>2, <1>3 DEF Onward

\* What became uncertain stays so, unless validate looks.
LEMMA SureBack ==
  ASSUME Onward, InventoryInv, inventory' = inventory, NEW f \in DOMAIN inventory,
         stage'["validate"] = "running" /\ f \notin todo'["validate"] =>
           disk[f] = inventory[f] \/ (stage["validate"] = "running" /\ f \notin todo["validate"])
  PROVE  Sure(f)' => Sure(f)
<1>1. f \in Files /\ Was(f, inventory[f])
  BY DEF InventoryInv
<1>2. /\ Kept(f, inventory[f])' => Kept(f, inventory[f])
      /\ <<f, inventory[f]>> \notin back' => <<f, inventory[f]>> \notin back
  BY <1>1 DEF Onward
<1> QED BY <1>2 DEF Sure, Kept

\* Nothing more is uncertain than before.
NoSurer == inventory' = inventory /\ \A f \in DOMAIN inventory : Sure(f)' => Sure(f)

LEMMA NoSurerStill ==
  ASSUME Onward, InventoryInv, inventory' = inventory,
         stage'["validate"] = "running" => stage["validate"] = "running" /\ todo'["validate"] = todo["validate"]
  PROVE  NoSurer
<1>1. ASSUME NEW f \in DOMAIN inventory PROVE Sure(f)' => Sure(f)
  <2> QED BY SureBack
<1> QED BY <1>1 DEF NoSurer

(***************************************************************************)
(* The parts of the invariant that a step leaves alone.                    *)
(***************************************************************************)
LEMMA OrderKept ==
  ASSUME StagesInOrder, stage["inventory"] # "waiting", stage'["inventory"] # "waiting",
         \A s \in Stages : stage[s] = "done" => stage'[s] = "done",
         \A s \in Stages : stage'[s] # "waiting" =>
           stage[s] # "waiting" \/ \A d \in Dependencies[s] : stage'[d] = "done",
         \A s \in Adapters : stage'[s] = "waiting" => stage[s] = "waiting" /\ seen'[s] = seen[s]
  PROVE  StagesInOrder'
<1>1. \A s \in Stages : \A d \in Dependencies[s] : d \in Stages
  <2>1. Stages = Analyses \union {"inventory", "normalize", "merge", "value-flow", "config-env", "validate"}
    BY DEF Stages
  <2> QED BY <2>1, DependencyFacts
<1>2. \A s \in Stages : stage'[s] # "waiting" => \A d \in Dependencies[s] : stage'[d] = "done"
  BY <1>1 DEF StagesInOrder
<1>3. \A s \in Adapters : stage'[s] = "waiting" => seen'[s] = Empty
  BY DEF StagesInOrder
<1>4. Dependencies' = Dependencies
  BY DEF Dependencies
<1>5. Empty' = Empty
  BY DEF Empty
<1> QED BY <1>2, <1>3, <1>4, <1>5 DEF StagesInOrder

LEMMA InventoryRests ==
  ASSUME InventoryInv, Onward, inventory' = inventory,
         stage'["normalize"] = "running" => todo'["normalize"] \subseteq DOMAIN inventory
  PROVE  InventoryInv'
BY DEF InventoryInv, Onward

LEMMA CacheRests ==
  ASSUME CacheInv, Onward, cache' = cache
  PROVE  CacheInv'
<1> SUFFICES ASSUME NEW k \in DOMAIN cache
             PROVE  /\ k[1] \in Adapters /\ Cached(k[1])
                    /\ DOMAIN k[2] \subseteq Files /\ \A f \in DOMAIN k[2] : Was(f, k[2][f])'
                    /\ cache[k].parsed = IF Adapter[k[1]].marks THEN Read(k[1], DOMAIN k[2]) ELSE {}
                    /\ (\A f \in Read(k[1], DOMAIN k[2]) : Kept(f, k[2][f])') \/ Closed(k[1]) => cache[k].facts = Genuine(k[1], k[2])
  BY DEF CacheInv
<1>1. /\ k[1] \in Adapters /\ Cached(k[1])
      /\ DOMAIN k[2] \subseteq Files /\ \A f \in DOMAIN k[2] : Was(f, k[2][f])
      /\ cache[k].parsed = IF Adapter[k[1]].marks THEN Read(k[1], DOMAIN k[2]) ELSE {}
      /\ (\A f \in Read(k[1], DOMAIN k[2]) : Kept(f, k[2][f])) \/ Closed(k[1]) => cache[k].facts = Genuine(k[1], k[2])
  BY DEF CacheInv
<1>2. \A f \in DOMAIN k[2] : Was(f, k[2][f])' /\ (Kept(f, k[2][f])' => Kept(f, k[2][f]))
  BY <1>1 DEF Onward
<1>3. Read(k[1], DOMAIN k[2]) \subseteq DOMAIN k[2]
  BY DEF Read
<1> QED BY <1>1, <1>2, <1>3

LEMMA ReadingRests ==
  ASSUME ReadingInv, InventoryInv, Onward, inventory' = inventory,
         \A s \in Adapters : stage'[s] = "running" =>
           stage[s] = "running" /\ seen'[s] = seen[s] /\ todo'[s] = todo[s]
  PROVE  ReadingInv'
<1>1. \A S : Of(S)' = Of(S) /\ Of(S) \subseteq DOMAIN inventory
  BY DEF Of
<1>2. ASSUME NEW s \in Adapters, stage'[s] = "running"
      PROVE  /\ todo'[s] \subseteq Of(Adapter[s].reads)
             /\ seen'[s] \in [Of(Adapter[s].reads) \ todo'[s] -> Contents \union {Missing}]
             /\ \A f \in DOMAIN seen'[s] : Kept(f, inventory[f])' \/ Closed(s) => seen'[s][f] = inventory[f]
  <2>1. /\ stage[s] = "running" /\ seen'[s] = seen[s] /\ todo'[s] = todo[s]
        /\ todo[s] \subseteq Of(Adapter[s].reads)
        /\ seen[s] \in [Of(Adapter[s].reads) \ todo[s] -> Contents \union {Missing}]
        /\ \A f \in DOMAIN seen[s] : Kept(f, inventory[f]) \/ Closed(s) => seen[s][f] = inventory[f]
    BY <1>2 DEF ReadingInv
  <2>2. \A f \in DOMAIN seen[s] : f \in Files /\ Was(f, inventory[f])
    BY <1>1, <2>1 DEF InventoryInv
  <2> QED BY <2>1, <2>2 DEF Onward
<1> QED BY <1>1, <1>2 DEF ReadingInv

LEMMA FragmentsRest ==
  ASSUME FragmentsInv, NoSurer, UNCHANGED <<fragments, failed, parsed>>,
         \A s \in Adapters : stage'[s] = "done" <=> stage[s] = "done"
  PROVE  FragmentsInv'
<1>1. \A S : Of(S)' = Of(S) /\ Of(S) \subseteq DOMAIN inventory
  BY DEF Of, NoSurer
<1>2. {t \in Adapters : stage'[t] = "done"} = {t \in Adapters : stage[t] = "done"}
  OBVIOUS
<1>3. ASSUME NEW s \in DOMAIN fragments, (\A f \in Of(Adapter[s].reads) : Sure(f)') \/ Closed(s)
      PROVE  fragments[s] = CleanFragment(s, inventory, failed)
  BY <1>1, <1>3 DEF FragmentsInv, NoSurer
<1>4. inventory' = inventory
  BY DEF NoSurer
<1> QED BY <1>1, <1>2, <1>3, <1>4 DEF FragmentsInv

LEMMA BundleRests ==
  ASSUME BundleInv, NoSurer, UNCHANGED <<fragments, bundle, failed>>,
         \A s \in {"merge", "value-flow", "config-env"} : stage'[s] = "done" <=> stage[s] = "done"
  PROVE  BundleInv'
BY DEF BundleInv, NoSurer

\* The next file a stage reads is one it has to read.
LEMMA LeastOf ==
  ASSUME NEW S \in SUBSET Nat, S # {}
  PROVE  Min(S) \in S
<1> DEFINE R == {p \in Nat \X Nat : p[1] < p[2]}
<1>1. IsWellFoundedOn(R, Nat)
  <2>1. R = OpToRel(<, Nat)
    BY DEF OpToRel
  <2> QED BY <2>1, NatLessThanWellFounded
<1>2. PICK x \in S : \A y \in S : ~(<<y, x>> \in R)
  <2> HIDE DEF R
  <2> QED BY <1>1, WFMin
<1>3. ASSUME NEW y \in S PROVE x <= y
  <2>1. x \in Nat /\ y \in Nat /\ ~(<<y, x>> \in R)
    BY <1>2
  <2>2. ~(y < x)
    BY <2>1
  <2> QED BY <2>1, <2>2
<1> QED BY <1>3 DEF Min

LEMMA NextFile ==
  ASSUME NEW S \in SUBSET Files, S # {}
  PROVE  Min(S) \in S
BY LeastOf, FilesAssumption

-----------------------------------------------------------------------------
(***************************************************************************)
(* No scan is running.                                                     *)
(***************************************************************************)
NothingRuns ==
  /\ stage = [s \in Stages |-> "waiting"]
  /\ seen = [s \in Stages |-> Empty]
  /\ inventory = Empty /\ fragments = Empty
  /\ parsed = {} /\ failed = {}

LEMMA FreshFact == NothingRuns => StagesInOrder /\ InventoryInv /\ ReadingInv /\ FragmentsInv /\ BundleInv
<1> SUFFICES ASSUME NothingRuns PROVE StagesInOrder /\ InventoryInv /\ ReadingInv /\ FragmentsInv /\ BundleInv
  OBVIOUS
<1>1. \A s \in Stages : stage[s] = "waiting" /\ seen[s] = Empty
  BY DEF NothingRuns
<1>2. inventory = Empty /\ fragments = Empty /\ parsed = {} /\ failed = {} /\ DOMAIN Empty = {}
  BY DEF NothingRuns, Empty
<1>3. StagesInOrder
  BY <1>1, <1>2, Names DEF StagesInOrder
<1>4. InventoryInv
  BY <1>1, <1>2, Names DEF InventoryInv
<1>5. ReadingInv
  BY <1>1, Names DEF ReadingInv
<1>6. FragmentsInv
  <2>1. {t \in Adapters : stage[t] = "done"} = {}
    BY <1>1, Names
  <2>2. Empty = [s \in {} |-> fragments[s]]
    BY DEF Empty
  <2>3. parsed = {f \in DOMAIN inventory : \E s \in (Analyses \cap DOMAIN fragments) \ failed :
                   Adapter[s].marks /\ Language[f] \in Adapter[s].reads}
    BY <1>2
  <2> QED BY <1>2, <2>1, <2>2, <2>3 DEF FragmentsInv
<1>7. BundleInv
  BY <1>1, Names DEF BundleInv
<1> QED BY <1>3, <1>4, <1>5, <1>6, <1>7

LEMMA FreshNext ==
  NothingRuns' => StagesInOrder' /\ InventoryInv' /\ ReadingInv' /\ FragmentsInv' /\ BundleInv'
BY FreshFact, PTL

LEMMA InitInv ==
  ASSUME Init
  PROVE  IInv /\ PublishedIsClean
<1>1. NothingRuns
  BY DEF Init, NothingRuns
<1>2. TypeOK
  <2>1. Min(Contents) \in Contents
    BY LeastOf, FilesAssumption
  <2>2. disk \in [Files -> Contents \union {Missing}]
    BY <2>1 DEF Init
  <2>3. MaxScans \in Nat /\ MaxEdits \in Nat /\ MaxFailures \in Nat
    BY FilesAssumption
  <2> QED BY <2>2, <2>3 DEF Init, TypeOK, Empty
<1>3. CacheInv
  BY DEF Init, CacheInv, Empty
<1>4. PublishedIsClean
  BY DEF Init, PublishedIsClean
<1> QED BY <1>1, <1>2, <1>3, <1>4, FreshFact DEF IInv

LEMMA EndStep ==
  ASSUME IInv, Fresh, UNCHANGED <<disk, identity, gone, back, scans, cache, edits>>, failures' \in 0..MaxFailures
  PROVE  IInv'
<1>1. NothingRuns'
  BY DEF Fresh, NothingRuns, Empty
<1>2. TypeOK'
  BY DEF IInv, TypeOK, Fresh, Empty
<1>3. CacheInv'
  BY CacheRests, StillOnward DEF IInv
<1> QED BY <1>1, <1>2, <1>3, FreshNext DEF IInv

-----------------------------------------------------------------------------
(***************************************************************************)
(* The editor and the inventory.                                           *)
(***************************************************************************)
LEMMA EditStep ==
  ASSUME IInv, NEW f \in Files, NEW c \in Contents \union {Missing}, Edit(f, c)
  PROVE  IInv'
<1>1. /\ UNCHANGED <<scans, scan, cache, published, failures>>
      /\ disk' = [disk EXCEPT ![f] = c] /\ edits < MaxEdits /\ edits' = edits + 1
      /\ identity' \in {identity, [identity EXCEPT ![f] = @ + 1]}
  BY DEF Edit
<1>2. /\ stage' = stage /\ todo' = todo /\ ahead' = ahead /\ seen' = seen /\ inventory' = inventory
      /\ identities' = identities /\ fragments' = fragments /\ parsed' = parsed /\ bundle' = bundle
      /\ failed' = failed /\ cache' = cache /\ scans' = scans /\ failures' = failures
  BY <1>1 DEF scan
<1>3. Onward
  BY EditOnward DEF IInv
<1>4. TypeOK'
  <2>1. identity' \in [Files -> Nat]
    BY <1>1 DEF IInv, TypeOK
  <2>2. disk' \in [Files -> Contents \union {Missing}] /\ edits' \in 0..MaxEdits
    BY <1>1, FilesAssumption DEF IInv, TypeOK
  <2>3. gone' \subseteq Files \X (Contents \union {Missing}) /\ back' \subseteq gone'
    <3>1. /\ gone' = gone \union {<<f, disk[f]>>} /\ back' = back \union ({<<f, c>>} \intersect gone)
          /\ disk[f] \in Contents \union {Missing}
      BY DEF Edit, IInv, TypeOK
    <3> QED BY <3>1 DEF IInv, TypeOK
  <2> QED BY <1>2, <2>1, <2>2, <2>3 DEF IInv, TypeOK
<1>5. StagesInOrder'
  BY <1>2 DEF IInv, StagesInOrder, Dependencies, Empty
<1>6. InventoryInv' /\ NoSurer
  BY <1>2, <1>3, InventoryRests, NoSurerStill DEF IInv, InventoryInv
<1>7. ReadingInv' /\ FragmentsInv' /\ BundleInv' /\ CacheInv'
  BY <1>2, <1>3, <1>6, ReadingRests, FragmentsRest, BundleRests, CacheRests DEF IInv
<1> QED BY <1>4, <1>5, <1>6, <1>7 DEF IInv

\* A step that changes neither the disk nor the cache nor what adapters left.
LEMMA ScanMoves ==
  ASSUME IInv, UNCHANGED <<disk, gone, back, inventory, fragments, parsed, bundle, failed, cache>>,
         TypeOK', StagesInOrder', NoSurer,
         stage'["normalize"] = "running" => todo'["normalize"] \subseteq DOMAIN inventory,
         \A s \in Adapters : stage'[s] = "done" <=> stage[s] = "done", stage'["merge"] = stage["merge"],
         ReadingInv'
  PROVE  IInv'
<1>1. Onward
  BY StillOnward
<1>2. InventoryInv' /\ CacheInv'
  BY <1>1, InventoryRests, CacheRests DEF IInv
<1>3. FragmentsInv'
  BY FragmentsRest DEF IInv
<1>4. BundleInv'
  BY BundleRests, Names DEF IInv
<1> QED BY <1>2, <1>3, <1>4 DEF IInv

\* Until the inventory is complete nothing else has started.
LEMMA InventoryFirst ==
  ASSUME IInv, stage["inventory"] # "done"
  PROVE  /\ \A s \in Stages \ {"inventory"} : stage[s] = "waiting"
         /\ fragments = Empty /\ parsed = {} /\ failed = {} /\ (stage["inventory"] = "waiting" => inventory = Empty)
<1>1. Ordered
  BY OrderFact DEF IInv, StagesInOrder
<1>2. \A s \in Stages \ {"inventory"} : stage[s] = "waiting"
  <2>1. Stages = Analyses \union {"inventory", "normalize", "merge", "value-flow", "config-env", "validate"}
    BY DEF Stages
  <2>2. stage["normalize"] = "waiting"
    BY <1>1 DEF Ordered
  <2>3. (\A s \in Analyses : stage[s] = "waiting") /\ stage["merge"] = "waiting"
    BY <1>1, <2>2 DEF Ordered
  <2>4. stage["value-flow"] = "waiting" /\ stage["config-env"] = "waiting" /\ stage["validate"] = "waiting"
    BY <1>1, <2>3 DEF Ordered
  <2> QED BY <2>1, <2>2, <2>3, <2>4
<1>3. {t \in Adapters : stage[t] = "done"} = {}
  BY <1>2, Names
<1>4. /\ fragments = [s \in {t \in Adapters : stage[t] = "done"} |-> fragments[s]]
      /\ failed \subseteq DOMAIN fragments \ {"value-flow"}
      /\ parsed = {f \in DOMAIN inventory : \E s \in (Analyses \cap DOMAIN fragments) \ failed :
                     Adapter[s].marks /\ Language[f] \in Adapter[s].reads}
  BY DEF IInv, FragmentsInv
<1>5. DOMAIN fragments = {}
  BY <1>3, <1>4
<1>6. fragments = Empty
  BY <1>3, <1>4 DEF Empty
<1>7. parsed = {} /\ failed = {}
  BY <1>4, <1>5
<1>8. stage["inventory"] = "waiting" => inventory = Empty
  BY DEF IInv, StagesInOrder
<1> QED BY <1>2, <1>6, <1>7, <1>8

LEMMA BeginScanStep ==
  ASSUME IInv, BeginScan
  PROVE  IInv'
<1>1. /\ \A s \in Stages : stage[s] = "waiting"
      /\ scans < MaxScans /\ scans' = scans + 1
      /\ stage' = [stage EXCEPT !["inventory"] = "running"]
      /\ todo' = [todo EXCEPT !["inventory"] = Files]
      /\ UNCHANGED <<disk, identity, gone, back, ahead, seen, inventory, identities, fragments,
                     parsed, bundle, failed, cache, published, edits, failures>>
  BY DEF BeginScan, Running
<1>2. stage \in [Stages -> {"waiting", "running", "done"}] /\ todo \in [Stages -> SUBSET Files]
  BY DEF IInv, TypeOK
<1>3. /\ stage' \in [Stages -> {"waiting", "running", "done"}] /\ todo' \in [Stages -> SUBSET Files]
      /\ \A s \in Stages : stage'[s] = IF s = "inventory" THEN "running" ELSE "waiting"
  BY <1>1, <1>2
<1>4. TypeOK'
  <2>1. scans' \in 0..MaxScans
    BY <1>1, FilesAssumption DEF IInv, TypeOK
  <2> QED BY <1>1, <1>3, <2>1 DEF IInv, TypeOK
<1>5. StagesInOrder'
  <2>1. Dependencies' = Dependencies /\ Empty' = Empty
    BY DEF Dependencies, Empty
  <2>2. \A s \in Stages : stage'[s] # "waiting" => \A d \in Dependencies[s] : stage'[d] = "done"
    BY <1>3, DependencyFacts
  <2>3. \A s \in Adapters : seen'[s] = Empty
    BY <1>1, Names DEF IInv, StagesInOrder
  <2> QED BY <1>3, <2>1, <2>2, <2>3, Names DEF StagesInOrder
<1>6. NoSurer
  BY <1>1, <1>3, StillOnward, NoSurerStill, Names DEF IInv
<1>7. ReadingInv'
  BY <1>3, Names DEF ReadingInv
<1>8. \A s \in Adapters : stage'[s] = "done" <=> stage[s] = "done"
  BY <1>1, <1>3, Names
<1>9. stage'["merge"] = stage["merge"] /\ stage'["normalize"] # "running"
  BY <1>1, <1>3, Names
<1> QED BY <1>1, <1>4, <1>5, <1>6, <1>7, <1>8, <1>9, ScanMoves

LEMMA InventoryFileStep ==
  ASSUME IInv, InventoryFile
  PROVE  IInv'
<1> DEFINE f == Min(todo["inventory"])
<1>1. /\ stage["inventory"] = "running" /\ todo["inventory"] # {}
      /\ todo' = [todo EXCEPT !["inventory"] = @ \ {f}]
      /\ inventory' = IF disk[f] = Missing THEN inventory
                      ELSE [g \in DOMAIN inventory \union {f} |-> IF g = f THEN disk[f] ELSE inventory[g]]
      /\ UNCHANGED <<disk, identity, gone, back, scans, stage, ahead, seen, identities, fragments,
                     parsed, bundle, failed, cache, published, edits, failures>>
  BY DEF InventoryFile, Reading, Next1
<1>2. f \in Files
  <2>1. todo["inventory"] \in SUBSET Files
    BY Names DEF IInv, TypeOK
  <2> QED BY <1>1, <2>1, NextFile
<1> HIDE DEF f
<1>3. /\ \A s \in Stages \ {"inventory"} : stage'[s] = "waiting"
      /\ fragments' = Empty /\ parsed' = {} /\ failed' = {} /\ stage'["inventory"] = "running"
  BY <1>1, InventoryFirst
<1>4. /\ DOMAIN inventory' \subseteq Files /\ DOMAIN inventory \subseteq DOMAIN inventory'
      /\ \A g \in DOMAIN inventory' : Was(g, inventory'[g])
  <2>1. DOMAIN inventory \subseteq Files /\ \A g \in DOMAIN inventory : Was(g, inventory[g])
    BY DEF IInv, InventoryInv
  <2>2. CASE disk[f] = Missing
    BY <1>1, <2>1, <2>2
  <2>3. CASE disk[f] # Missing
    <3>1. disk[f] \in Contents
      BY <1>2, <2>3 DEF IInv, TypeOK
    <3>2. Was(f, disk[f])
      BY DEF Was
    <3> QED BY <1>1, <1>2, <2>1, <2>3, <3>2
  <2> QED BY <2>2, <2>3
<1>5. TypeOK'
  <2>1. todo' \in [Stages -> SUBSET Files]
    BY <1>1 DEF IInv, TypeOK
  <2>2. DOMAIN identities' \subseteq DOMAIN inventory' /\ parsed' \subseteq DOMAIN inventory'
    BY <1>1, <1>3, <1>4 DEF IInv, TypeOK
  <2> QED BY <1>1, <1>4, <2>1, <2>2 DEF IInv, TypeOK
<1>6. StagesInOrder'
  BY <1>1, <1>3 DEF IInv, StagesInOrder, Dependencies, Empty
<1>7. InventoryInv'
  BY <1>1, <1>3, <1>4, Names DEF InventoryInv, Was
<1>8. ReadingInv' /\ BundleInv'
  BY <1>3, Names DEF ReadingInv, BundleInv
<1>9. FragmentsInv'
  <2>1. {t \in Adapters : stage'[t] = "done"} = {}
    BY <1>3, Names
  <2>2. Empty = [s \in {} |-> fragments'[s]] /\ DOMAIN Empty = {}
    BY DEF Empty
  <2>3. parsed' = {g \in DOMAIN inventory' : \E s \in (Analyses \cap DOMAIN fragments') \ failed' :
                    Adapter[s].marks /\ Language[g] \in Adapter[s].reads}
    BY <1>3, <2>2
  <2> QED BY <1>3, <2>1, <2>2, <2>3 DEF FragmentsInv
<1>10. CacheInv'
  BY <1>1, StillOnward, CacheRests DEF IInv
<1> QED BY <1>5, <1>6, <1>7, <1>8, <1>9, <1>10 DEF IInv

LEMMA RunInventoryStep ==
  ASSUME IInv, RunInventory
  PROVE  IInv'
<1>1. /\ stage["inventory"] = "running"
      /\ stage' = [stage EXCEPT !["inventory"] = "done", !["normalize"] = "running"]
      /\ todo' = [todo EXCEPT !["normalize"] = DOMAIN inventory]
      /\ UNCHANGED <<disk, identity, gone, back, scans, ahead, seen, inventory, identities, fragments,
                     parsed, bundle, failed, cache, published, edits, failures>>
  BY DEF RunInventory
<1>2. \A s \in Stages \ {"inventory"} : stage[s] = "waiting"
  BY <1>1, InventoryFirst
<1>3. /\ stage' \in [Stages -> {"waiting", "running", "done"}] /\ todo' \in [Stages -> SUBSET Files]
      /\ \A s \in Stages : stage'[s] = IF s = "inventory" THEN "done" ELSE IF s = "normalize" THEN "running" ELSE stage[s]
      /\ todo'["normalize"] = DOMAIN inventory
  <2>1. stage \in [Stages -> {"waiting", "running", "done"}] /\ todo \in [Stages -> SUBSET Files]
        /\ DOMAIN inventory \subseteq Files
    BY DEF IInv, TypeOK
  <2> QED BY <1>1, <2>1, Names
<1>4. TypeOK'
  BY <1>1, <1>3 DEF IInv, TypeOK
<1>5. StagesInOrder'
  BY <1>1, <1>2, <1>3, DependencyFacts, Names, OrderKept DEF IInv
<1>6. NoSurer
  BY <1>1, <1>2, <1>3, StillOnward, NoSurerStill, Names DEF IInv
<1>7. ReadingInv'
  BY <1>2, <1>3, Names DEF ReadingInv
<1>8. \A s \in Adapters \union {"merge"} : stage'[s] = stage[s]
  BY <1>3, Names
<1> QED BY <1>1, <1>3, <1>4, <1>5, <1>6, <1>7, <1>8, ScanMoves

\* Steps of a stage that change no stage.
LEMMA CollectIdentityStep ==
  ASSUME IInv, CollectIdentity
  PROVE  IInv'
<1> DEFINE f == Min(todo["normalize"])
<1>1. /\ stage["normalize"] = "running" /\ todo["normalize"] # {}
      /\ todo' = [todo EXCEPT !["normalize"] = @ \ {f}]
      /\ identities' = [g \in DOMAIN identities \union {f} |-> IF g = f THEN identity[f] ELSE identities[g]]
      /\ UNCHANGED <<disk, identity, gone, back, scans, stage, ahead, seen, inventory, fragments,
                     parsed, bundle, failed, cache, published, edits, failures>>
  BY DEF CollectIdentity, Reading, Next1
<1>2. todo["normalize"] \subseteq DOMAIN inventory /\ todo["normalize"] \in SUBSET Files
  BY <1>1, Names DEF IInv, TypeOK, InventoryInv
<1>3. f \in todo["normalize"]
  BY <1>1, <1>2, NextFile
<1> HIDE DEF f
<1>4. /\ todo' \in [Stages -> SUBSET Files] /\ todo'["normalize"] = todo["normalize"] \ {f}
      /\ \A s \in Stages \ {"normalize"} : todo'[s] = todo[s]
  BY <1>1, Names DEF IInv, TypeOK
<1>5. TypeOK'
  BY <1>1, <1>2, <1>3, <1>4 DEF IInv, TypeOK
<1>6. StagesInOrder'
  BY <1>1 DEF IInv, StagesInOrder, Dependencies, Empty
<1>7. NoSurer
  BY <1>1, <1>4, StillOnward, NoSurerStill, Names DEF IInv
<1>8. ReadingInv'
  BY <1>1, <1>4, StillOnward, ReadingRests, Names DEF IInv
<1> QED BY <1>1, <1>2, <1>4, <1>5, <1>6, <1>7, <1>8, ScanMoves

LEMMA RunNormalizeStep ==
  ASSUME IInv, RunNormalize
  PROVE  IInv'
<1>1. /\ stage["normalize"] = "running" /\ stage' = [stage EXCEPT !["normalize"] = "done"]
      /\ UNCHANGED <<disk, identity, gone, back, scans, todo, ahead, seen, inventory, identities,
                     fragments, parsed, bundle, failed, cache, published, edits, failures>>
  BY DEF RunNormalize
<1>2. /\ stage' \in [Stages -> {"waiting", "running", "done"}]
      /\ \A s \in Stages : stage'[s] = IF s = "normalize" THEN "done" ELSE stage[s]
  BY <1>1 DEF IInv, TypeOK
<1>3. TypeOK'
  BY <1>1, <1>2 DEF IInv, TypeOK
<1>4. Ordered
  BY OrderFact DEF IInv, StagesInOrder
<1>5. StagesInOrder'
  BY <1>1, <1>2, <1>4, Names, OrderKept DEF IInv, Ordered
<1>6. NoSurer
  BY <1>1, <1>2, StillOnward, NoSurerStill, Names DEF IInv
<1>7. ReadingInv'
  BY <1>1, <1>2, StillOnward, ReadingRests, Names DEF IInv
<1>8. \A s \in Adapters \union {"merge"} : stage'[s] = stage[s]
  BY <1>2, Names
<1> QED BY <1>1, <1>2, <1>3, <1>5, <1>6, <1>7, <1>8, ScanMoves, Names

-----------------------------------------------------------------------------
(***************************************************************************)
(* The adapters.                                                           *)
(***************************************************************************)
\* Before an adapter has ended, what depends on it waits, and nothing is verified.
LEMMA AdapterPlace ==
  ASSUME IInv, NEW s \in Adapters, stage[s] # "done", stage[s] = "running" \/ Ready(s)
  PROVE  /\ \A d \in Dependencies[s] : stage[d] = "done"
         /\ stage["inventory"] = "done" /\ stage["normalize"] = "done" /\ stage["validate"] = "waiting"
         /\ s \in Analyses => stage["merge"] = "waiting"
         /\ s = "value-flow" => stage["merge"] = "done" /\ stage["config-env"] = "waiting"
         /\ s = "config-env" => stage["merge"] = "done" /\ stage["value-flow"] = "done"
<1>1. Ordered /\ \A d \in Dependencies[s] : stage[d] = "done"
  BY OrderFact, Names DEF IInv, StagesInOrder, Ready
<1>2. CASE s \in Analyses
  <2>1. stage["normalize"] = "done"
    BY <1>1, <1>2, DependencyFacts
  <2>2. stage["merge"] = "waiting"
    BY <1>1, <1>2 DEF Ordered
  <2> QED BY <1>1, <1>2, <2>1, <2>2, Names DEF Ordered
<1>3. CASE s = "value-flow"
  <2>1. stage["merge"] = "done"
    BY <1>1, <1>3, DependencyFacts
  <2> QED BY <1>1, <1>3, <2>1, Names DEF Ordered
<1>4. CASE s = "config-env"
  <2>1. stage["value-flow"] = "done"
    BY <1>1, <1>4, DependencyFacts
  <2> QED BY <1>1, <1>4, <2>1, Names DEF Ordered
<1> QED BY <1>2, <1>3, <1>4, Names

LEMMA StartStep ==
  ASSUME IInv, NEW s \in Adapters, Start(s)
  PROVE  IInv'
<1>1. /\ Ready(s) /\ stage[s] = "waiting"
      /\ stage' = [stage EXCEPT ![s] = "running"]
      /\ todo' = [todo EXCEPT ![s] = Of(Adapter[s].reads)]
      /\ ahead' = [ahead EXCEPT ![s] = IF Adapter[s].check = "ahead" THEN Of(Adapter[s].reads) ELSE {}]
      /\ UNCHANGED <<disk, identity, gone, back, scans, seen, inventory, identities, fragments,
                     parsed, bundle, failed, cache, published, edits, failures>>
  BY DEF Start, Ready
<1>2. Of(Adapter[s].reads) \subseteq Files /\ s \in Stages
  BY Names DEF Of, IInv, TypeOK
<1>3. /\ stage' \in [Stages -> {"waiting", "running", "done"}] /\ todo' \in [Stages -> SUBSET Files]
      /\ ahead' \in [Stages -> SUBSET Files]
      /\ \A t \in Stages : stage'[t] = IF t = s THEN "running" ELSE stage[t]
      /\ \A t \in Stages : todo'[t] = IF t = s THEN Of(Adapter[s].reads) ELSE todo[t]
  BY <1>1, <1>2 DEF IInv, TypeOK
<1>4. TypeOK'
  BY <1>1, <1>3 DEF IInv, TypeOK
<1>5. /\ \A d \in Dependencies[s] : stage[d] = "done"
      /\ stage["inventory"] = "done" /\ stage["normalize"] = "done" /\ stage["validate"] = "waiting"
  BY <1>1, AdapterPlace
<1>6. StagesInOrder'
  <2>1. \A d \in Dependencies[s] : d \in Stages /\ d # s
    BY <1>1, <1>5, DependencyFacts, Names
  <2> QED BY <1>1, <1>2, <1>3, <1>5, <2>1, Names, OrderKept DEF IInv
<1>7. s \notin {"inventory", "normalize", "merge", "validate"}
  BY Names
<1>8. NoSurer
  BY <1>1, <1>3, <1>5, <1>7, StillOnward, NoSurerStill, Names DEF IInv
<1>9. ReadingInv'
  <2>1. \A S : Of(S)' = Of(S)
    BY <1>1 DEF Of
  <2>2. ASSUME NEW t \in Adapters, stage'[t] = "running"
        PROVE  /\ todo'[t] \subseteq Of(Adapter[t].reads)
               /\ seen'[t] \in [Of(Adapter[t].reads) \ todo'[t] -> Contents \union {Missing}]
               /\ \A f \in DOMAIN seen'[t] : Kept(f, inventory[f])' \/ Closed(t) => seen'[t][f] = inventory'[f]
    <3>1. CASE t = s
      <4>1. seen'[t] = Empty /\ DOMAIN Empty = {}
        BY <1>1, <3>1 DEF IInv, StagesInOrder, Empty
      <4>2. Empty \in [{} -> Contents \union {Missing}]
        BY DEF Empty
      <4>3. todo'[t] = Of(Adapter[t].reads)
        BY <1>2, <1>3, <3>1
      <4>4. Of(Adapter[t].reads) \ todo'[t] = {}
        BY <4>3
      <4> QED BY <4>1, <4>2, <4>3, <4>4
    <3>2. CASE t # s
      <4>1. t \in Stages
        BY Names
      <4>2. stage[t] = "running" /\ todo'[t] = todo[t] /\ seen'[t] = seen[t]
        BY <1>1, <1>3, <2>2, <3>2, <4>1
      <4> QED BY <1>1, <4>2 DEF IInv, ReadingInv, Kept
    <3> QED BY <3>1, <3>2
  <2> QED BY <2>1, <2>2 DEF ReadingInv
<1>10. (\A t \in Adapters : stage'[t] = "done" <=> stage[t] = "done") /\ stage'["merge"] = stage["merge"]
       /\ stage'["normalize"] # "running"
  BY <1>1, <1>3, <1>5, <1>7, Names
<1> QED BY <1>1, <1>4, <1>6, <1>8, <1>9, <1>10, ScanMoves

LEMMA VerifyAheadStep ==
  ASSUME IInv, NEW s \in Adapters, VerifyAhead(s)
  PROVE  IInv'
<1>1. /\ \E f : ahead' = [ahead EXCEPT ![s] = @ \ {f}]
      /\ UNCHANGED <<disk, identity, gone, back, scans, stage, todo, seen, inventory, identities,
                     fragments, parsed, bundle, failed, cache, published, edits, failures>>
  BY DEF VerifyAhead
<1>2. TypeOK'
  <2>1. ahead \in [Stages -> SUBSET Files]
    BY DEF IInv, TypeOK
  <2>2. ahead' \in [Stages -> SUBSET Files]
    BY <1>1, <2>1
  <2> QED BY <1>1, <2>2 DEF IInv, TypeOK
<1>3. StagesInOrder'
  BY <1>1 DEF IInv, StagesInOrder, Dependencies, Empty
<1>4. NoSurer
  BY <1>1, StillOnward, NoSurerStill, Names DEF IInv
<1>5. ReadingInv'
  BY <1>1, StillOnward, ReadingRests DEF IInv
<1> QED BY <1>1, <1>2, <1>3, <1>4, <1>5, ScanMoves DEF IInv, InventoryInv

LEMMA ReadFileStep ==
  ASSUME IInv, NEW s \in Adapters, ReadFile(s)
  PROVE  IInv'
<1> DEFINE f == Min(todo[s])
<1>1. /\ stage[s] = "running" /\ todo[s] # {} /\ (Closed(s) => Inventoried(f))
      /\ todo' = [todo EXCEPT ![s] = @ \ {f}]
      /\ seen' = [seen EXCEPT ![s] = [g \in DOMAIN seen[s] \union {f} |-> IF g = f THEN Got(s, f) ELSE seen[s][g]]]
      /\ UNCHANGED <<disk, identity, gone, back, scans, stage, ahead, inventory, identities,
                     fragments, parsed, bundle, failed, cache, published, edits, failures>>
  BY DEF ReadFile, Reading, Next1
<1>2. s \in Stages /\ todo[s] \in SUBSET Files
  BY Names DEF IInv, TypeOK
<1>3. f \in todo[s] /\ f \in Files
  BY <1>1, <1>2, NextFile
<1> HIDE DEF f
<1>4. /\ todo' \in [Stages -> SUBSET Files]
      /\ \A t \in Stages : todo'[t] = IF t = s THEN todo[s] \ {f} ELSE todo[t]
  BY <1>1, <1>2 DEF IInv, TypeOK
<1>5. /\ DOMAIN seen' = Stages
      /\ seen'[s] = [g \in DOMAIN seen[s] \union {f} |-> IF g = f THEN Got(s, f) ELSE seen[s][g]]
      /\ \A t \in Stages : t # s => seen'[t] = seen[t]
  BY <1>1, <1>2 DEF IInv, TypeOK
<1>6. TypeOK'
  BY <1>1, <1>4, <1>5 DEF IInv, TypeOK
<1>7. StagesInOrder'
  <2>1. stage["inventory"] = "done" /\ stage' = stage
    BY <1>1, AdapterPlace
  <2>2. \A t \in Adapters : stage[t] = "waiting" => seen'[t] = seen[t]
    BY <1>1, <1>5, Names
  <2> QED BY <2>1, <2>2, OrderKept DEF IInv, StagesInOrder
<1>8. s \notin {"inventory", "normalize", "merge", "validate"}
  BY Names
<1>9. NoSurer
  BY <1>1, <1>4, <1>8, StillOnward, NoSurerStill, Names DEF IInv
<1>10. Got(s, f) \in Contents \union {Missing} /\ (Kept(f, inventory[f]) \/ Closed(s) => Got(s, f) = inventory[f])
  <2>1. disk[f] \in Contents \union {Missing}
    BY <1>3 DEF IInv, TypeOK
  <2> QED BY <1>1, <2>1 DEF Got, Inventoried, Kept
<1>11. ReadingInv'
  <2>1. \A S : Of(S)' = Of(S)
    BY <1>1 DEF Of
  <2>2. ASSUME NEW t \in Adapters, stage'[t] = "running"
        PROVE  /\ todo'[t] \subseteq Of(Adapter[t].reads)
               /\ seen'[t] \in [Of(Adapter[t].reads) \ todo'[t] -> Contents \union {Missing}]
               /\ \A g \in DOMAIN seen'[t] : Kept(g, inventory[g])' \/ Closed(t) => seen'[t][g] = inventory'[g]
    <3>0. /\ t \in Stages /\ stage[t] = "running" /\ todo[t] \subseteq Of(Adapter[t].reads)
          /\ seen[t] \in [Of(Adapter[t].reads) \ todo[t] -> Contents \union {Missing}]
          /\ \A g \in DOMAIN seen[t] : Kept(g, inventory[g]) \/ Closed(t) => seen[t][g] = inventory[g]
      BY <1>1, <2>2, Names DEF IInv, ReadingInv
    <3>1. CASE t = s
      <4>1. Of(Adapter[s].reads) \ todo'[s] = (Of(Adapter[s].reads) \ todo[s]) \union {f}
        BY <1>2, <1>3, <1>4, <3>0, <3>1
      <4>2. seen'[s] \in [(Of(Adapter[s].reads) \ todo[s]) \union {f} -> Contents \union {Missing}]
        BY <1>5, <1>10, <3>0, <3>1
      <4>3. \A g \in DOMAIN seen'[s] : Kept(g, inventory[g]) \/ Closed(s) => seen'[s][g] = inventory[g]
        BY <1>5, <1>10, <3>0, <3>1
      <4>4. todo'[s] \subseteq Of(Adapter[s].reads)
        BY <1>2, <1>4, <3>0, <3>1
      <4> QED BY <1>1, <3>1, <4>1, <4>2, <4>3, <4>4 DEF Kept
    <3>2. CASE t # s
      BY <1>1, <1>4, <1>5, <3>0, <3>2 DEF Kept
    <3> QED BY <3>1, <3>2
  <2> QED BY <2>1, <2>2 DEF ReadingInv
<1>12. stage'["normalize"] = "running" => todo'["normalize"] \subseteq DOMAIN inventory
  BY <1>1, <1>4, <1>8, Names DEF IInv, InventoryInv
<1> QED BY <1>1, <1>6, <1>7, <1>9, <1>11, <1>12, ScanMoves

-----------------------------------------------------------------------------
(***************************************************************************)
(* What a clean scan makes of its sources.                                 *)
(***************************************************************************)
\* What runs after merge does not show in what was merged.
LEMMA MergeKept ==
  ASSUME NEW sources, NEW s, s \notin Analyses, NEW frags, NEW frags2, NEW broken, NEW broken2,
         \A t \in Analyses : frags2[t] = frags[t],
         broken2 = broken \/ broken2 = broken \union {s}
  PROVE  MergeOf(sources, frags2, broken2) = MergeOf(sources, frags, broken)
<1>1. Analyses \ broken2 = Analyses \ broken
  OBVIOUS
<1>2. Marks(sources, broken2) = Marks(sources, broken)
  BY <1>1 DEF Marks
<1>3. [t \in Analyses |-> frags2[t]] = [t \in Analyses |-> frags[t]]
  OBVIOUS
<1> QED BY <1>2, <1>3 DEF MergeOf

\* An adapter ends, with facts that are genuine if its files have not changed.
LEMMA AdapterEnds ==
  ASSUME IInv, NEW s \in Adapters, NEW facts, NEW files, Leave(s, facts, files),
         stage[s] = "running" \/ Ready(s),
         UNCHANGED <<disk, gone, back, inventory, seen>>,
         todo' = todo \/ todo' = [todo EXCEPT ![s] = {}],
         failed' = failed \/ (failed' = failed \union {s} /\ s # "value-flow"),
         files = IF s \notin failed' /\ Adapter[s].marks THEN Of(Adapter[s].reads) ELSE {},
         (\A f \in Of(Adapter[s].reads) : Kept(f, inventory[f])) \/ Closed(s) => facts = CleanFragment(s, inventory, failed')
  PROVE  StagesInOrder' /\ InventoryInv' /\ ReadingInv' /\ FragmentsInv' /\ BundleInv'
<1>1. /\ stage' = [stage EXCEPT ![s] = "done"]
      /\ fragments' = [t \in DOMAIN fragments \union {s} |-> IF t = s THEN facts ELSE fragments[t]]
      /\ parsed' = parsed \union files
      /\ bundle' = IF PostMerge(s) THEN DedupeBundle(bundle, facts) ELSE bundle
  BY DEF Leave
<1>2. s \in Stages /\ s \notin {"inventory", "normalize", "merge", "validate"}
  BY Names
<1>3. stage[s] # "done" /\ \A t \in Stages : stage'[t] = IF t = s THEN "done" ELSE stage[t]
  BY <1>1, <1>2 DEF IInv, TypeOK, Ready
<1>4. /\ \A d \in Dependencies[s] : stage[d] = "done"
      /\ stage["inventory"] = "done" /\ stage["normalize"] = "done" /\ stage["validate"] = "waiting"
      /\ s \in Analyses => stage["merge"] = "waiting"
      /\ s = "value-flow" => stage["merge"] = "done" /\ stage["config-env"] = "waiting"
      /\ s = "config-env" => stage["merge"] = "done" /\ stage["value-flow"] = "done"
  BY <1>3, AdapterPlace
<1>5. /\ stage'["inventory"] = "done" /\ stage'["normalize"] = "done"
      /\ stage'["validate"] = "waiting" /\ stage'["merge"] = stage["merge"]
  BY <1>2, <1>3, <1>4, Names
<1>6. StagesInOrder'
  <2>1. \A d \in Dependencies[s] : d \in Stages /\ d # s
    BY <1>3, <1>4, DependencyFacts, Names
  <2>2. \A d \in Dependencies[s] : stage'[d] = "done"
    BY <1>3, <1>4, <2>1
  <2>3. \A t \in Adapters : stage'[t] = "waiting" => stage[t] = "waiting" /\ seen'[t] = seen[t]
    BY <1>3, Names
  <2> QED BY <1>3, <1>4, <1>5, <2>2, <2>3, OrderKept DEF IInv
<1>7. InventoryInv'
  BY <1>5, StillOnward, InventoryRests DEF IInv
<1>8. \A t \in Stages : t # s => todo'[t] = todo[t]
  BY <1>2 DEF IInv, TypeOK
<1>9. ReadingInv'
  BY <1>3, <1>8, StillOnward, ReadingRests, Names DEF IInv
<1>10. \A f : (Sure(f) <=> Kept(f, inventory[f])) /\ (Sure(f)' <=> Kept(f, inventory[f]))
  BY <1>4, <1>5 DEF Sure, Kept
<1> DEFINE Done == {t \in Adapters : stage[t] = "done"}
<1>11. /\ fragments = [t \in Done |-> fragments[t]] /\ s \notin Done
       /\ failed \subseteq Done \ {"value-flow"}
       /\ \A t \in Done : (\A f \in Of(Adapter[t].reads) : Kept(f, inventory[f])) \/ Closed(t) =>
            fragments[t] = CleanFragment(t, inventory, failed)
       /\ parsed = {f \in DOMAIN inventory : \E t \in (Analyses \cap Done) \ failed :
                      Adapter[t].marks /\ Language[f] \in Adapter[t].reads}
  <2>1. /\ fragments = [t \in Done |-> fragments[t]]
        /\ failed \subseteq DOMAIN fragments \ {"value-flow"}
        /\ \A t \in DOMAIN fragments : (\A f \in Of(Adapter[t].reads) : Sure(f)) \/ Closed(t) =>
             fragments[t] = CleanFragment(t, inventory, failed)
        /\ parsed = {f \in DOMAIN inventory : \E t \in (Analyses \cap DOMAIN fragments) \ failed :
                       Adapter[t].marks /\ Language[f] \in Adapter[t].reads}
    BY DEF IInv, FragmentsInv
  <2>2. DOMAIN fragments = Done
    BY <2>1
  <2> QED BY <1>3, <1>10, <2>1, <2>2
<1> HIDE DEF Done
<1>12. DOMAIN fragments = Done
  BY <1>11
<1>13. FragmentsInv'
  <2>1. {t \in Adapters : stage'[t] = "done"} = Done \union {s}
    BY <1>3, Names DEF Done
  <2>2. fragments' = [t \in Done \union {s} |-> fragments'[t]]
    BY <1>1, <1>12
  <2>3. DOMAIN fragments' = Done \union {s}
    BY <1>1, <1>12
  <2>4. failed' \subseteq DOMAIN fragments' \ {"value-flow"}
    BY <1>11, <2>3
  <2>5. \A S : Of(S)' = Of(S)
    BY DEF Of
  <2>6. ASSUME NEW t \in DOMAIN fragments', (\A f \in Of(Adapter[t].reads) : Sure(f)') \/ Closed(t)
        PROVE  fragments'[t] = CleanFragment(t, inventory, failed')
    <3>1. CASE t = s
      BY <1>1, <1>10, <2>6, <3>1
    <3>2. CASE t # s
      <4>1. t \in Done /\ fragments'[t] = fragments[t]
        BY <1>1, <1>12, <2>3, <3>2
      <4>2. fragments[t] = CleanFragment(t, inventory, failed)
        BY <1>10, <1>11, <2>6, <4>1
      <4>3. t \in failed' <=> t \in failed
        BY <3>2
      <4> QED BY <4>1, <4>2, <4>3 DEF CleanFragment
    <3> QED BY <3>1, <3>2
  <2>7. parsed' = {f \in DOMAIN inventory : \E t \in (Analyses \cap DOMAIN fragments') \ failed' :
                    Adapter[t].marks /\ Language[f] \in Adapter[t].reads}
    <3>1. (Analyses \cap Done) \ failed = ((Analyses \cap DOMAIN fragments') \ failed') \ {s}
      BY <1>11, <2>3
    <3>2. files = IF s \in (Analyses \cap DOMAIN fragments') \ failed' /\ Adapter[s].marks
                  THEN Of(Adapter[s].reads) ELSE {}
      BY <2>3, AdapterFacts, Names
    <3>3. Of(Adapter[s].reads) = {f \in DOMAIN inventory : Language[f] \in Adapter[s].reads}
      BY DEF Of
    <3> QED BY <1>1, <1>11, <3>1, <3>2, <3>3
  <2> QED BY <2>1, <2>2, <2>4, <2>5, <2>6, <2>7 DEF FragmentsInv
<1>14. BundleInv'
  <2>1. SUFFICES ASSUME stage'["merge"] = "done"
                 PROVE  bundle' = IF stage'["config-env"] = "done" THEN BundleOf(inventory, fragments', failed')
                                  ELSE IF stage'["value-flow"] = "done" THEN FlowOf(inventory, fragments', failed')
                                  ELSE MergeOf(inventory, fragments', failed')
    BY DEF BundleInv
  <2>2. bundle = IF stage["config-env"] = "done" THEN BundleOf(inventory, fragments, failed)
                 ELSE IF stage["value-flow"] = "done" THEN FlowOf(inventory, fragments, failed)
                 ELSE MergeOf(inventory, fragments, failed)
    BY <1>5, <2>1 DEF IInv, BundleInv
  <2>3. s \notin Analyses /\ PostMerge(s) /\ (s = "value-flow" \/ s = "config-env")
    BY <1>4, <1>5, <2>1, Names DEF PostMerge
  <2>4. Ordered
    BY OrderFact DEF IInv, StagesInOrder
  <2>5. stage["merge"] = "done" /\ \A t \in Analyses : stage[t] = "done"
    BY <1>5, <2>1, <2>4, Names DEF Ordered
  <2>6. /\ \A t \in Analyses : t \in Done /\ fragments'[t] = fragments[t]
        /\ fragments'[s] = facts /\ bundle' = DedupeBundle(bundle, facts)
    BY <1>1, <1>12, <2>3, <2>5, Names DEF Done
  <2>7. MergeOf(inventory, fragments', failed') = MergeOf(inventory, fragments, failed)
    BY <2>3, <2>6, MergeKept
  <2>8. CASE s = "value-flow"
    <3>1. stage[s] # "done" /\ stage["config-env"] = "waiting" /\ stage'["config-env"] = "waiting"
          /\ stage'["value-flow"] = "done"
      BY <1>3, <1>4, <2>8, Names
    <3>2. bundle = MergeOf(inventory, fragments, failed)
      BY <2>2, <2>8, <3>1
    <3> QED BY <2>6, <2>7, <2>8, <3>1, <3>2 DEF FlowOf
  <2>9. CASE s = "config-env"
    <3>1. stage["config-env"] # "done" /\ stage["value-flow"] = "done" /\ stage'["config-env"] = "done"
      BY <1>3, <1>4, <2>9, Names
    <3>2. bundle = FlowOf(inventory, fragments, failed)
      BY <2>2, <3>1
    <3>3. fragments'["value-flow"] = fragments["value-flow"]
      BY <1>1, <1>12, <2>9, <3>1, Names DEF Done
    <3>4. FlowOf(inventory, fragments', failed') = FlowOf(inventory, fragments, failed)
      BY <2>7, <3>3 DEF FlowOf
    <3> QED BY <2>6, <2>9, <3>1, <3>2, <3>4 DEF BundleOf
  <2> QED BY <2>3, <2>8, <2>9
<1> QED BY <1>6, <1>7, <1>9, <1>13, <1>14

LEMMA FilesOf ==
  ASSUME NEW s \in Adapters
  PROVE  /\ \A S : Of(S) \subseteq DOMAIN inventory
         /\ Read(s, DOMAIN inventory) = Of(Adapter[s].reads)
         /\ Genuine(s, inventory) = Facts(s, [f \in Of(Adapter[s].reads) |-> inventory[f]])
BY DEF Of, Read, Genuine

\* A cache key stands for what its adapter makes of the inventory.
LEMMA KeyFact ==
  ASSUME InventoryInv, NEW s \in Adapters, Cached(s)
  PROVE  /\ Key(s)[1] = s /\ DOMAIN Key(s)[2] \subseteq DOMAIN inventory
         /\ \A f \in DOMAIN Key(s)[2] : Key(s)[2][f] = inventory[f]
         /\ Read(s, DOMAIN Key(s)[2]) = Of(Adapter[s].reads)
         /\ Genuine(s, Key(s)[2]) = Genuine(s, inventory)
<1> DEFINE keyed == [f \in Of(Adapter[s].keyed) |-> inventory[f]]
<1>1. Key(s)[1] = s /\ Key(s)[2] = keyed
  BY DEF Key
<1>2. DOMAIN keyed = Of(Adapter[s].keyed) /\ \A f \in DOMAIN keyed : keyed[f] = inventory[f]
  OBVIOUS
<1>3. Of(Adapter[s].keyed) \subseteq DOMAIN inventory /\ DOMAIN inventory \subseteq Files
  BY FilesOf DEF InventoryInv
<1> HIDE DEF keyed
<1>4. Read(s, DOMAIN keyed) = Of(Adapter[s].reads)
  BY <1>2, <1>3, AdapterFacts DEF Of, Read
<1>5. [f \in Of(Adapter[s].reads) |-> keyed[f]] = [f \in Of(Adapter[s].reads) |-> inventory[f]]
  <2>1. \A f \in Of(Adapter[s].reads) : f \in DOMAIN keyed
    BY <1>4 DEF Read
  <2> QED BY <1>2, <2>1
<1>6. Genuine(s, keyed) = Genuine(s, inventory)
  BY <1>4, <1>5, FilesOf DEF Genuine
<1> QED BY <1>1, <1>2, <1>3, <1>4, <1>6

\* What has not ended has left nothing, and has not failed.
LEMMA NothingLeft ==
  ASSUME FragmentsInv, NEW s, stage[s] # "done"
  PROVE  s \notin DOMAIN fragments /\ s \notin failed
<1> DEFINE Done == {t \in Adapters : stage[t] = "done"}
<1>1. fragments = [t \in Done |-> fragments[t]] /\ failed \subseteq DOMAIN fragments \ {"value-flow"}
  BY DEF FragmentsInv
<1>2. DOMAIN fragments = Done /\ s \notin Done
  BY <1>1
<1> QED BY <1>1, <1>2

LEMMA LeaveTypes ==
  ASSUME TypeOK, NEW s \in Adapters, NEW facts, NEW files, Leave(s, facts, files),
         files \subseteq DOMAIN inventory, inventory' = inventory
  PROVE  /\ stage' \in [Stages -> {"waiting", "running", "done"}]
         /\ parsed' \subseteq DOMAIN inventory' /\ DOMAIN fragments' \subseteq DOMAIN Adapter
BY AdapterFacts, Names DEF TypeOK, Leave

LEMMA RestoreStep ==
  ASSUME IInv, NEW s \in Adapters, Restore(s)
  PROVE  IInv'
<1> DEFINE facts == cache[Key(s)].facts
           files == cache[Key(s)].parsed
<1>1. /\ Cached(s) /\ Ready(s) /\ Key(s) \in DOMAIN cache /\ Leave(s, facts, files)
      /\ UNCHANGED <<disk, identity, gone, back, scans, todo, ahead, seen, inventory, identities,
                     failed, cache, published, edits, failures>>
  BY DEF Restore
<1>2. s \notin failed
  BY <1>1, NothingLeft DEF Ready, IInv
<1>3. /\ files = IF Adapter[s].marks THEN Of(Adapter[s].reads) ELSE {}
      /\ (\A f \in Of(Adapter[s].reads) : Kept(f, inventory[f])) \/ Closed(s) => facts = Genuine(s, inventory)
  <2>1. /\ Key(s)[1] = s
        /\ files = IF Adapter[s].marks THEN Read(s, DOMAIN Key(s)[2]) ELSE {}
        /\ (\A f \in Read(s, DOMAIN Key(s)[2]) : Kept(f, Key(s)[2][f])) \/ Closed(s) => facts = Genuine(s, Key(s)[2])
    BY <1>1, KeyFact DEF IInv, CacheInv
  <2>2. /\ \A f \in DOMAIN Key(s)[2] : Key(s)[2][f] = inventory[f]
        /\ Read(s, DOMAIN Key(s)[2]) = Of(Adapter[s].reads)
        /\ Genuine(s, Key(s)[2]) = Genuine(s, inventory)
    BY <1>1, KeyFact DEF IInv
  <2>3. Read(s, DOMAIN Key(s)[2]) \subseteq DOMAIN Key(s)[2]
    BY DEF Read
  <2> QED BY <2>1, <2>2, <2>3
<1> HIDE DEF facts, files
<1>4. StagesInOrder' /\ InventoryInv' /\ ReadingInv' /\ FragmentsInv' /\ BundleInv'
  BY <1>1, <1>2, <1>3, AdapterEnds DEF CleanFragment
<1>5. TypeOK'
  <2>1. files \subseteq DOMAIN inventory
    BY <1>3, FilesOf
  <2> QED BY <1>1, <2>1, LeaveTypes DEF IInv, TypeOK
<1>6. CacheInv'
  BY <1>1, StillOnward, CacheRests DEF IInv
<1> QED BY <1>4, <1>5, <1>6 DEF IInv

LEMMA RecordFragmentStep ==
  ASSUME IInv, NEW s \in Adapters, RecordFragment(s)
  PROVE  IInv'
<1> DEFINE facts == Facts(s, seen[s])
           files == IF Adapter[s].marks THEN DOMAIN seen[s] ELSE {}
<1>1. /\ stage[s] = "running" /\ todo[s] = {} /\ Leave(s, facts, files)
      /\ IF Cached(s) THEN Store(Key(s), facts, files) ELSE UNCHANGED cache
      /\ UNCHANGED <<disk, identity, gone, back, scans, todo, ahead, seen, inventory, identities,
                     failed, published, edits, failures>>
  BY DEF RecordFragment
<1>2. s \notin failed
  BY <1>1, NothingLeft DEF IInv
<1>3. /\ seen[s] \in [Of(Adapter[s].reads) -> Contents \union {Missing}]
      /\ \A f \in DOMAIN seen[s] : Kept(f, inventory[f]) \/ Closed(s) => seen[s][f] = inventory[f]
  <2>1. Of(Adapter[s].reads) \ todo[s] = Of(Adapter[s].reads)
    BY <1>1
  <2> QED BY <1>1, <2>1 DEF IInv, ReadingInv
<1>4. files = IF Adapter[s].marks THEN Of(Adapter[s].reads) ELSE {}
  BY <1>3
<1>5. (\A f \in Of(Adapter[s].reads) : Kept(f, inventory[f])) \/ Closed(s) => facts = Genuine(s, inventory)
  <2> SUFFICES ASSUME (\A f \in Of(Adapter[s].reads) : Kept(f, inventory[f])) \/ Closed(s)
               PROVE  facts = Genuine(s, inventory)
    OBVIOUS
  <2>1. seen[s] = [f \in Of(Adapter[s].reads) |-> inventory[f]]
    BY <1>3
  <2> QED BY <2>1, FilesOf
<1> HIDE DEF facts, files
<1>6. StagesInOrder' /\ InventoryInv' /\ ReadingInv' /\ FragmentsInv' /\ BundleInv'
  BY <1>1, <1>2, <1>4, <1>5, AdapterEnds DEF CleanFragment
<1>7. TypeOK'
  <2>1. files \subseteq DOMAIN inventory
    BY <1>4, FilesOf
  <2> QED BY <1>1, <2>1, LeaveTypes DEF IInv, TypeOK
<1>8. CacheInv'
  <2>1. CASE ~Cached(s)
    BY <1>1, <2>1, StillOnward, CacheRests DEF IInv
  <2>2. CASE Cached(s)
    <3> DEFINE Good(k, entry) == /\ k[1] \in Adapters /\ Cached(k[1])
                                 /\ DOMAIN k[2] \subseteq Files /\ \A f \in DOMAIN k[2] : Was(f, k[2][f])
                                 /\ entry.parsed = IF Adapter[k[1]].marks THEN Read(k[1], DOMAIN k[2]) ELSE {}
                                 /\ (\A f \in Read(k[1], DOMAIN k[2]) : Kept(f, k[2][f])) \/ Closed(k[1]) =>
                                      entry.facts = Genuine(k[1], k[2])
    <3>1. \A k \in DOMAIN cache : Good(k, cache[k])
      BY DEF IInv, CacheInv
    <3>2. Good(Key(s), [facts |-> facts, parsed |-> files])
      <4>1. DOMAIN inventory \subseteq Files /\ \A f \in DOMAIN inventory : Was(f, inventory[f])
        BY DEF IInv, InventoryInv
      <4>2. /\ Key(s)[1] = s /\ DOMAIN Key(s)[2] \subseteq DOMAIN inventory
            /\ \A f \in DOMAIN Key(s)[2] : Key(s)[2][f] = inventory[f]
            /\ Read(s, DOMAIN Key(s)[2]) = Of(Adapter[s].reads)
            /\ Genuine(s, Key(s)[2]) = Genuine(s, inventory)
        BY <2>2, KeyFact DEF IInv
      <4>3. Read(s, DOMAIN Key(s)[2]) \subseteq DOMAIN Key(s)[2]
        BY DEF Read
      <4>4. \A f \in DOMAIN Key(s)[2] : Was(f, Key(s)[2][f])
        BY <4>1, <4>2
      <4>5. (\A f \in Read(s, DOMAIN Key(s)[2]) : Kept(f, Key(s)[2][f])) \/ Closed(s) => facts = Genuine(s, Key(s)[2])
        BY <1>5, <4>2, <4>3
      <4> QED BY <1>4, <2>2, <4>1, <4>2, <4>4, <4>5
    <3> HIDE DEF Good
    <3>3. cache' = [k \in DOMAIN cache \union {Key(s)} |->
                      IF k = Key(s) THEN [facts |-> facts, parsed |-> files] ELSE cache[k]]
      BY <1>1, <2>2 DEF Store
    <3>4. \A k \in DOMAIN cache' : Good(k, cache'[k])
      BY <3>1, <3>2, <3>3
    <3>5. \A f, c : (Was(f, c)' <=> Was(f, c)) /\ (Kept(f, c)' <=> Kept(f, c))
      BY <1>1 DEF Was, Kept
    <3> QED BY <1>1, <3>4, <3>5 DEF CacheInv, Good
  <2> QED BY <2>1, <2>2
<1> QED BY <1>6, <1>7, <1>8 DEF IInv

LEMMA DiagnosticStep ==
  ASSUME IInv, NEW s \in Adapters, DiagnosticResult(s)
  PROVE  IInv'
<1>1. /\ s # "value-flow" /\ stage[s] = "running"
      /\ failures' = failures \/ (failures < MaxFailures /\ failures' = failures + 1)
      /\ Leave(s, AdapterError(s), {}) /\ failed' = failed \union {s}
      /\ todo' = [todo EXCEPT ![s] = {}] /\ ahead' = [ahead EXCEPT ![s] = {}]
      /\ UNCHANGED <<disk, identity, gone, back, scans, seen, inventory, identities, cache, published,
                     edits>>
  BY DEF DiagnosticResult
<1>2. StagesInOrder' /\ InventoryInv' /\ ReadingInv' /\ FragmentsInv' /\ BundleInv'
  BY <1>1, AdapterEnds DEF CleanFragment
<1>3. TypeOK'
  <2>1. failures' \in 0..MaxFailures
    BY <1>1, FilesAssumption DEF IInv, TypeOK
  <2>2. failed' \subseteq DOMAIN Adapter /\ todo' \in [Stages -> SUBSET Files] /\ ahead' \in [Stages -> SUBSET Files]
    BY <1>1, AdapterFacts, Names DEF IInv, TypeOK
  <2> QED BY <1>1, <2>1, <2>2, LeaveTypes DEF IInv, TypeOK
<1>4. CacheInv'
  BY <1>1, StillOnward, CacheRests DEF IInv
<1> QED BY <1>2, <1>3, <1>4 DEF IInv

-----------------------------------------------------------------------------
(***************************************************************************)
(* Merge and validate.                                                     *)
(***************************************************************************)
LEMMA RunMergeStep ==
  ASSUME IInv, RunMerge
  PROVE  IInv'
<1>1. /\ Ready("merge") /\ bundle' = Merged(DOMAIN inventory, fragments, parsed)
      /\ stage' = [stage EXCEPT !["merge"] = "done"]
      /\ UNCHANGED <<disk, identity, gone, back, scans, todo, ahead, seen, inventory, identities,
                     fragments, parsed, failed, cache, published, edits, failures>>
  BY DEF RunMerge
<1>2. /\ stage["merge"] = "waiting" /\ stage["normalize"] = "done" /\ \A s \in Analyses : stage[s] = "done"
  BY <1>1, DependencyFacts DEF Ready
<1>3. /\ stage["inventory"] = "done" /\ stage["value-flow"] = "waiting" /\ stage["config-env"] = "waiting"
      /\ stage["validate"] = "waiting"
  <2>1. Ordered /\ stage \in [Stages -> {"waiting", "running", "done"}]
    BY OrderFact DEF IInv, StagesInOrder, TypeOK
  <2>2. {"inventory", "value-flow", "config-env", "validate"} \subseteq Stages
    BY Names
  <2>3. stage["inventory"] = "done" /\ stage["value-flow"] = "waiting"
    BY <1>2, <2>1, <2>2 DEF Ordered
  <2>4. stage["config-env"] = "waiting"
    BY <2>1, <2>2, <2>3 DEF Ordered
  <2> QED BY <2>1, <2>2, <2>3, <2>4 DEF Ordered
<1>4. \A s \in Stages : stage'[s] = IF s = "merge" THEN "done" ELSE stage[s]
  BY <1>1 DEF IInv, TypeOK
<1>5. TypeOK'
  BY <1>1, Names DEF IInv, TypeOK
<1>6. StagesInOrder'
  <2>1. \A d \in Dependencies["merge"] : stage'[d] = "done"
    BY <1>2, <1>4, DependencyFacts, Names
  <2> QED BY <1>1, <1>2, <1>3, <1>4, <2>1, Names, OrderKept DEF IInv
<1>7. NoSurer
  BY <1>1, <1>3, <1>4, StillOnward, NoSurerStill, Names DEF IInv
<1>8. InventoryInv' /\ CacheInv'
  BY <1>1, <1>2, <1>4, StillOnward, InventoryRests, CacheRests, Names DEF IInv
<1>9. ReadingInv'
  BY <1>1, <1>4, StillOnward, ReadingRests, Names DEF IInv
<1>10. FragmentsInv'
  BY <1>1, <1>4, <1>7, FragmentsRest, Names DEF IInv
<1>11. BundleInv'
  <2>1. stage'["config-env"] = "waiting" /\ stage'["value-flow"] = "waiting"
    BY <1>3, <1>4, Names
  <2>2. SUFFICES bundle' = MergeOf(inventory, fragments, failed)
    BY <1>1, <2>1 DEF BundleInv
  <2> DEFINE Done == {t \in Adapters : stage[t] = "done"}
  <2>3. Done = Analyses
    BY <1>2, <1>3, Names
  <2>4. /\ fragments = [s \in Done |-> fragments[s]]
        /\ parsed = {f \in DOMAIN inventory : \E s \in (Analyses \cap DOMAIN fragments) \ failed :
                       Adapter[s].marks /\ Language[f] \in Adapter[s].reads}
    BY DEF IInv, FragmentsInv
  <2> HIDE DEF Done
  <2>5. DOMAIN fragments = Analyses
    BY <2>3, <2>4
  <2>6. fragments = [s \in Analyses |-> fragments[s]]
    BY <2>3, <2>4
  <2>7. parsed = Marks(inventory, failed)
    <3>1. (Analyses \cap DOMAIN fragments) \ failed = Analyses \ failed
      BY <2>5
    <3> QED BY <2>4, <3>1 DEF Marks
  <2> QED BY <1>1, <2>6, <2>7 DEF MergeOf
<1> QED BY <1>5, <1>6, <1>8, <1>9, <1>10, <1>11 DEF IInv

LEMMA BeginValidateStep ==
  ASSUME IInv, BeginValidate
  PROVE  IInv'
<1>1. /\ Ready("validate")
      /\ stage' = [stage EXCEPT !["validate"] = "running"]
      /\ todo' = [todo EXCEPT !["validate"] = DOMAIN inventory]
      /\ UNCHANGED <<disk, identity, gone, back, scans, ahead, seen, inventory, identities, fragments,
                     parsed, bundle, failed, cache, published, edits, failures>>
  BY DEF BeginValidate
<1>2. stage["validate"] = "waiting" /\ stage["config-env"] = "done"
  BY <1>1, DependencyFacts DEF Ready
<1>3. stage["inventory"] = "done" /\ stage["normalize"] = "done"
  BY <1>2, OrderFact, Names DEF IInv, StagesInOrder, Ordered
<1>4. DOMAIN inventory \subseteq Files
  BY DEF IInv, TypeOK
<1>5. /\ stage' \in [Stages -> {"waiting", "running", "done"}] /\ todo' \in [Stages -> SUBSET Files]
      /\ \A s \in Stages : stage'[s] = IF s = "validate" THEN "running" ELSE stage[s]
      /\ \A s \in Stages : todo'[s] = IF s = "validate" THEN DOMAIN inventory ELSE todo[s]
  BY <1>1, <1>4, Names DEF IInv, TypeOK
<1>6. TypeOK'
  BY <1>1, <1>5 DEF IInv, TypeOK
<1>7. StagesInOrder'
  <2>1. \A d \in Dependencies["validate"] : stage'[d] = "done"
    BY <1>2, <1>5, DependencyFacts, Names
  <2> QED BY <1>1, <1>2, <1>3, <1>5, <2>1, Names, OrderKept DEF IInv
<1>8. NoSurer
  <2>1. ASSUME NEW f \in DOMAIN inventory PROVE Sure(f)' => Sure(f)
    <3>1. f \in todo'["validate"]
      BY <1>5, Names
    <3> QED BY <1>1, <3>1, StillOnward, SureBack DEF IInv
  <2> QED BY <1>1, <2>1 DEF NoSurer
<1>9. ReadingInv'
  BY <1>1, <1>5, StillOnward, ReadingRests, Names DEF IInv
<1>10. /\ \A s \in Adapters : stage'[s] = "done" <=> stage[s] = "done"
       /\ stage'["merge"] = stage["merge"] /\ stage'["normalize"] # "running"
  BY <1>3, <1>5, Names
<1> QED BY <1>1, <1>6, <1>7, <1>8, <1>9, <1>10, ScanMoves

LEMMA ReverifyStep ==
  ASSUME IInv, Reverify
  PROVE  IInv'
<1> DEFINE g == Min(todo["validate"])
<1>1. /\ stage["validate"] = "running" /\ disk[g] = inventory[g]
      /\ todo' = [todo EXCEPT !["validate"] = @ \ {g}]
      /\ UNCHANGED <<disk, identity, gone, back, scans, stage, ahead, seen, inventory, identities,
                     fragments, parsed, bundle, failed, cache, published, edits, failures>>
  BY DEF Reverify, Reading, Next1, Verified, Inventoried
<1> HIDE DEF g
<1>2. /\ todo' \in [Stages -> SUBSET Files] /\ todo'["validate"] = todo["validate"] \ {g}
      /\ \A s \in Stages \ {"validate"} : todo'[s] = todo[s]
  BY <1>1, Names DEF IInv, TypeOK
<1>3. TypeOK'
  BY <1>1, <1>2 DEF IInv, TypeOK
<1>4. StagesInOrder'
  BY <1>1 DEF IInv, StagesInOrder, Dependencies, Empty
<1>5. NoSurer
  <2>1. ASSUME NEW f \in DOMAIN inventory PROVE Sure(f)' => Sure(f)
    <3>1. f \notin todo'["validate"] => disk[f] = inventory[f] \/ f \notin todo["validate"]
      BY <1>1, <1>2
    <3> QED BY <1>1, <3>1, StillOnward, SureBack DEF IInv
  <2> QED BY <1>1, <2>1 DEF NoSurer
<1>6. ReadingInv'
  BY <1>1, <1>2, StillOnward, ReadingRests, Names DEF IInv
<1>7. stage'["normalize"] = "running" => todo'["normalize"] \subseteq DOMAIN inventory
  BY <1>1, <1>2, Names DEF IInv, InventoryInv
<1> QED BY <1>1, <1>3, <1>4, <1>5, <1>6, <1>7, ScanMoves

\* When validate has looked at every file, a fragment is genuine unless one of
\* its files was changed back.
LEMMA PublishStep ==
  ASSUME IInv, PublishedIsClean, Publish
  PROVE  IInv' /\ PublishedIsClean'
<1> DEFINE p == [sources |-> inventory, fragments |-> fragments, failed |-> failed, bundle |-> bundle, back |-> back]
           Back(f) == <<f, inventory[f]>> \in back
<1>1. /\ stage["validate"] = "running" /\ todo["validate"] = {}
      /\ published' = published \union {p}
      /\ Fresh /\ UNCHANGED <<disk, identity, gone, back, scans, cache, edits, failures>>
  BY DEF Publish
<1>2. IInv'
  BY <1>1, EndStep DEF IInv, TypeOK
<1>3. \A f \in DOMAIN inventory : ~Back(f) => Sure(f)
  BY <1>1 DEF Sure
<1>4. Ordered
  BY OrderFact DEF IInv, StagesInOrder
<1>5. /\ stage["config-env"] = "done" /\ stage["value-flow"] = "done" /\ stage["merge"] = "done"
      /\ \A s \in Analyses : stage[s] = "done"
  BY <1>1, <1>4, Names DEF Ordered
<1>6. bundle = BundleOf(inventory, fragments, failed)
  BY <1>5 DEF IInv, BundleInv
<1>7. DOMAIN fragments = Adapters
  <2>1. {t \in Adapters : stage[t] = "done"} = Adapters
    BY <1>5, Names
  <2> QED BY <2>1 DEF IInv, FragmentsInv
<1>8. ASSUME NEW s \in Adapters, (\A f \in Read(s, DOMAIN inventory) : ~Back(f)) \/ Closed(s)
      PROVE  fragments[s] = CleanFragment(s, inventory, failed)
  <2>1. (\A f \in Of(Adapter[s].reads) : Sure(f)) \/ Closed(s)
    BY <1>3, <1>8, FilesOf
  <2> QED BY <1>7, <2>1 DEF IInv, FragmentsInv
<1>9. ASSUME \A f \in DOMAIN inventory : ~Back(f)
      PROVE  bundle = CleanBundle(inventory, failed)
  <2> DEFINE clean == [s \in Adapters |-> CleanFragment(s, inventory, failed)]
  <2>1. \A s \in Adapters : fragments[s] = clean[s]
    BY <1>8, <1>9, FilesOf
  <2>2. MergeOf(inventory, clean, failed) = MergeOf(inventory, fragments, failed)
    <3>1. [s \in Analyses |-> clean[s]] = [s \in Analyses |-> fragments[s]]
      BY <2>1, Names
    <3> HIDE DEF clean
    <3> QED BY <3>1 DEF MergeOf
  <2> HIDE DEF clean
  <2>3. BundleOf(inventory, clean, failed) = BundleOf(inventory, fragments, failed)
    BY <2>1, <2>2, Names DEF BundleOf, FlowOf
  <2> QED BY <1>6, <2>3 DEF CleanBundle, clean
<1>10. /\ p.bundle = BundleOf(p.sources, p.fragments, p.failed)
       /\ \A s \in Adapters : (\A f \in Read(s, DOMAIN p.sources) : <<f, p.sources[f]>> \notin p.back) \/ Closed(s)
                               => p.fragments[s] = CleanFragment(s, p.sources, p.failed)
       /\ (\A f \in DOMAIN p.sources : <<f, p.sources[f]>> \notin p.back) => p.bundle = CleanBundle(p.sources, p.failed)
  BY <1>6, <1>8, <1>9
<1> HIDE DEF p
<1>11. PublishedIsClean'
  BY <1>1, <1>10 DEF PublishedIsClean
<1> QED BY <1>2, <1>11

\* Every other step publishes nothing.
LEMMA NextInv ==
  ASSUME IInv, PublishedIsClean, [Next]_vars
  PROVE  IInv' /\ PublishedIsClean'
<1> DEFINE Goal == IInv' /\ PublishedIsClean'
<1>0. ASSUME published' = published PROVE PublishedIsClean'
  BY <1>0 DEF PublishedIsClean
<1>1. ASSUME NEW f \in Files, NEW c \in Contents \union {Missing}, Edit(f, c) PROVE Goal
  BY <1>0, <1>1, EditStep DEF Edit
<1>2. ASSUME BeginScan PROVE Goal
  BY <1>0, <1>2, BeginScanStep DEF BeginScan
<1>3. ASSUME InventoryFile PROVE Goal
  BY <1>0, <1>3, InventoryFileStep DEF InventoryFile
<1>4. ASSUME RunInventory PROVE Goal
  BY <1>0, <1>4, RunInventoryStep DEF RunInventory
<1>5. ASSUME CollectIdentity PROVE Goal
  BY <1>0, <1>5, CollectIdentityStep DEF CollectIdentity
<1>6. ASSUME RunNormalize PROVE Goal
  BY <1>0, <1>6, RunNormalizeStep DEF RunNormalize
<1>7. ASSUME NEW s \in Adapters, Restore(s) PROVE Goal
  BY <1>0, <1>7, RestoreStep DEF Restore
<1>8. ASSUME NEW s \in Adapters, Start(s) PROVE Goal
  BY <1>0, <1>8, StartStep DEF Start
<1>9. ASSUME NEW s \in Adapters, VerifyAhead(s) PROVE Goal
  BY <1>0, <1>9, VerifyAheadStep DEF VerifyAhead
<1>10. ASSUME NEW s \in Adapters, ReadFile(s) PROVE Goal
  BY <1>0, <1>10, ReadFileStep DEF ReadFile
<1>11. ASSUME NEW s \in Adapters, RecordFragment(s) PROVE Goal
  BY <1>0, <1>11, RecordFragmentStep DEF RecordFragment
<1>12. ASSUME NEW s \in Adapters, DiagnosticResult(s) PROVE Goal
  BY <1>0, <1>12, DiagnosticStep DEF DiagnosticResult
<1>13. ASSUME RunMerge PROVE Goal
  BY <1>0, <1>13, RunMergeStep DEF RunMerge
<1>14. ASSUME BeginValidate PROVE Goal
  BY <1>0, <1>14, BeginValidateStep DEF BeginValidate
<1>15. ASSUME Reverify PROVE Goal
  BY <1>0, <1>15, ReverifyStep DEF Reverify
<1>16. ASSUME Publish PROVE Goal
  BY <1>16, PublishStep
<1>17. ASSUME SourceChanged PROVE Goal
  <2>1. failures' \in 0..MaxFailures /\ Fresh /\ UNCHANGED <<disk, identity, gone, back, scans, cache,
                                                             published, edits>>
    BY <1>17 DEF SourceChanged, EndScan, IInv, TypeOK
  <2> QED BY <1>0, <2>1, EndStep
<1>18. ASSUME Interrupt PROVE Goal
  <2>1. Fresh /\ UNCHANGED <<disk, identity, gone, back, scans, cache, published, edits>>
        /\ failures < MaxFailures /\ failures' = failures + 1
    BY <1>18 DEF Interrupt, EndScan
  <2>2. failures' \in 0..MaxFailures
    BY <2>1, FilesAssumption DEF IInv, TypeOK
  <2> QED BY <1>0, <2>1, <2>2, EndStep
<1>19. ASSUME UNCHANGED vars PROVE Goal
  <2>1. UNCHANGED <<disk, identity, gone, back, scans, stage, todo, ahead, seen, inventory,
                    identities, fragments, parsed, bundle, failed, cache, published, edits, failures>>
    BY <1>19 DEF vars, scan
  <2>2. TypeOK' /\ StagesInOrder'
    BY <2>1 DEF IInv, TypeOK, StagesInOrder, Dependencies, Empty
  <2>3. NoSurer /\ ReadingInv'
    BY <2>1, StillOnward, NoSurerStill, ReadingRests DEF IInv
  <2>4. IInv'
    BY <2>1, <2>2, <2>3, ScanMoves DEF IInv, InventoryInv
  <2> QED BY <1>0, <2>1, <2>4
<1> HIDE DEF Goal
<1>20. Goal
  BY <1>1, <1>2, <1>3, <1>4, <1>5, <1>6, <1>7, <1>8, <1>9, <1>10, <1>11, <1>12, <1>13, <1>14, <1>15,
     <1>16, <1>17, <1>18, <1>19, Zenon DEF Next
<1> QED BY <1>20 DEF Goal

-----------------------------------------------------------------------------
(***************************************************************************)
(* What has failed is forgotten.                                           *)
(***************************************************************************)
Error(r) == r.id[1] = "error"

\* Neither a fragment of an adapter that has not failed nor a cache entry holds
\* the diagnostic of a failure.
Forgetful ==
  /\ \A s \in DOMAIN fragments \ failed : \A r \in fragments[s] : ~Error(r)
  /\ \A k \in DOMAIN cache : \A r \in cache[k].facts : ~Error(r)

LEMMA FactsFact ==
  ASSUME NEW s, NEW sources, NEW r \in Facts(s, sources)
  PROVE  ~Error(r)
<1>1. PICK id : r.id = id /\ id[1] \in {"node", "edge", "document", "diagnostic"}
  <2> DEFINE Usable == {f \in DOMAIN sources : sources[f] # Missing}
  <2>1. CASE \E kind \in {"node", "edge", "document"}, f \in Usable :
               r = [id |-> <<kind, f>>, rank |-> IF kind = "edge" THEN Rank(s) ELSE 0, value |-> <<s, sources[f]>>]
    BY <2>1
  <2>2. CASE \E f \in DOMAIN sources \ Usable : r = [id |-> <<"diagnostic", s>>, rank |-> 0, value |-> <<s, f>>]
    BY <2>2
  <2> QED BY <2>1, <2>2 DEF Facts
<1> QED BY <1>1 DEF Error

\* An adapter leaves facts, or has failed.
LEMMA LeaveForgets ==
  ASSUME Forgetful, NEW s, NEW facts, NEW files, Leave(s, facts, files),
         (failed' = failed /\ \A r \in facts : ~Error(r)) \/ failed' = failed \union {s}
  PROVE  \A t \in DOMAIN fragments' \ failed' : \A r \in fragments'[t] : ~Error(r)
<1>1. fragments' = [t \in DOMAIN fragments \union {s} |-> IF t = s THEN facts ELSE fragments[t]]
  BY DEF Leave
<1> QED BY <1>1 DEF Forgetful

LEMMA ForgetfulNext ==
  ASSUME Forgetful, [Next]_vars
  PROVE  Forgetful'
<1>0. ASSUME UNCHANGED <<fragments, failed, cache>> PROVE Forgetful'
  BY <1>0 DEF Forgetful, Error
<1>1. ASSUME Fresh, cache' = cache PROVE Forgetful'
  BY <1>1 DEF Forgetful, Error, Fresh, Empty
<1>2. ASSUME NEW s \in Adapters, Restore(s) PROVE Forgetful'
  <2>1. /\ Key(s) \in DOMAIN cache /\ Leave(s, cache[Key(s)].facts, cache[Key(s)].parsed)
        /\ failed' = failed /\ cache' = cache
    BY <1>2 DEF Restore
  <2>2. \A r \in cache[Key(s)].facts : ~Error(r)
    BY <2>1 DEF Forgetful
  <2>3. \A t \in DOMAIN fragments' \ failed' : \A r \in fragments'[t] : ~Error(r)
    BY <2>1, <2>2, LeaveForgets
  <2> QED BY <2>1, <2>3 DEF Forgetful, Error
<1>3. ASSUME NEW s \in Adapters, RecordFragment(s) PROVE Forgetful'
  <2> DEFINE facts == Facts(s, seen[s])
             files == IF Adapter[s].marks THEN DOMAIN seen[s] ELSE {}
  <2>1. /\ Leave(s, facts, files) /\ failed' = failed
        /\ IF Cached(s) THEN Store(Key(s), facts, files) ELSE UNCHANGED cache
    BY <1>3 DEF RecordFragment
  <2>2. \A r \in facts : ~Error(r)
    BY FactsFact
  <2> HIDE DEF facts, files
  <2>3. \A t \in DOMAIN fragments' \ failed' : \A r \in fragments'[t] : ~Error(r)
    BY <2>1, <2>2, LeaveForgets
  <2>4. \A k \in DOMAIN cache' : \A r \in cache'[k].facts : ~Error(r)
    <3>1. CASE cache' = cache
      BY <3>1 DEF Forgetful
    <3>2. CASE Store(Key(s), facts, files)
      BY <2>2, <3>2 DEF Forgetful, Store
    <3> QED BY <2>1, <3>1, <3>2
  <2> QED BY <2>3, <2>4 DEF Forgetful, Error
<1>4. ASSUME NEW s \in Adapters, DiagnosticResult(s) PROVE Forgetful'
  <2>1. Leave(s, AdapterError(s), {}) /\ failed' = failed \union {s} /\ cache' = cache
    BY <1>4 DEF DiagnosticResult
  <2>2. \A t \in DOMAIN fragments' \ failed' : \A r \in fragments'[t] : ~Error(r)
    BY <2>1, LeaveForgets
  <2> QED BY <2>1, <2>2 DEF Forgetful, Error
<1>5. ASSUME Publish \/ SourceChanged \/ Interrupt PROVE Forgetful'
  BY <1>1, <1>5 DEF Publish, SourceChanged, Interrupt, EndScan
<1>6. ASSUME BeginScan \/ InventoryFile \/ RunInventory \/ CollectIdentity \/ RunNormalize PROVE Forgetful'
  BY <1>0, <1>6 DEF BeginScan, InventoryFile, RunInventory, CollectIdentity, RunNormalize
<1>7. ASSUME RunMerge \/ BeginValidate \/ Reverify PROVE Forgetful'
  BY <1>0, <1>7 DEF RunMerge, BeginValidate, Reverify
<1>8. ASSUME NEW s \in Adapters, Start(s) \/ VerifyAhead(s) \/ ReadFile(s) PROVE Forgetful'
  BY <1>0, <1>8 DEF Start, VerifyAhead, ReadFile
<1>9. ASSUME NEW f \in Files, NEW c \in Contents \union {Missing}, Edit(f, c) PROVE Forgetful'
  BY <1>0, <1>9 DEF Edit, scan
<1>10. ASSUME UNCHANGED vars PROVE Forgetful'
  BY <1>0, <1>10 DEF vars, scan
<1> QED BY <1>2, <1>3, <1>4, <1>5, <1>6, <1>7, <1>8, <1>9, <1>10, Zenon DEF Next

-----------------------------------------------------------------------------
(***************************************************************************)
(* The theorems.                                                           *)
(***************************************************************************)
\* What a scan has inventoried, read, left, merged and cached belongs together
\* in every state, of any number of scans (staged.go, cache.go).
THEOREM Invariance == Spec => []IInv
<1>1. Init => IInv /\ PublishedIsClean
  BY InitInv
<1>2. IInv /\ PublishedIsClean /\ [Next]_vars => (IInv /\ PublishedIsClean)'
  BY NextInv
<1> QED BY <1>1, <1>2, PTL DEF Spec

\* A scan returns what its fragments make in their fixed order, and the fragments
\* are those of a clean scan of the same sources, but for adapters that read a file
\* which was changed and changed back (staged.go:771 runMerge, cache.go:530
\* restoreFragment).
THEOREM Clean == Spec => []PublishedIsClean
<1>1. Init => IInv /\ PublishedIsClean
  BY InitInv
<1>2. IInv /\ PublishedIsClean /\ [Next]_vars => (IInv /\ PublishedIsClean)'
  BY NextInv
<1> QED BY <1>1, <1>2, PTL DEF Spec

\* The records of a scan stay well formed, and an adapter's failure leaves
\* nothing that a later scan takes for its result (staged.go:974 diagnosticResult).
THEOREM Sound == Spec => []StagedSound
<1>1. Init => Forgetful
  BY DEF Init, Forgetful, Empty
<1>2. Forgetful /\ [Next]_vars => Forgetful'
  BY ForgetfulNext
<1>3. Spec => []Forgetful
  BY <1>1, <1>2, PTL DEF Spec
<1>4. IInv /\ Forgetful => StagedSound
  BY DEF StagedSound, FailureForgotten, Forgetful, Error
<1>5. Spec => []IInv
  BY Invariance
<1> QED BY <1>3, <1>4, <1>5, PTL

(***************************************************************************)
(* The stage cache, shared by any number of scans and prunes: its          *)
(* invariant KeptInv, step by step, and what follows from it.              *)
(***************************************************************************)

\* Where a scan and a prune may stand.
ScanStations == States \ {"list", "delete", "sweep"}
PruneStations == {"idle", "list", "delete", "unlink", "sweep", "dropping", "done", "failed"}

\* What a scan that stands somewhere has in hand, and why.
ScanStands(s) ==
  /\ at[s] \notin {"list", "delete", "sweep"}
  /\ at[s] \notin {"idle", "load", "run", "done", "failed"} => digest[s] \in Objects
  /\ at[s] \in {"open", "hash"} => reason[s] # "rot" /\ (reason[s] \in {"put", "store"} => value[s] = "good")
  /\ at[s] \in {"link", "linked", "ran", "temp", "install", "cleanup", "done"} => value[s] = "good"
  /\ at[s] = "link" => reason[s] = "put"

ScanQuiet(s) ==
  /\ reason[s] # "rot" /\ at[s] \notin {"discard", "unlink", "drop", "dropping"}
  /\ GoodInHand(s) => content[digest[s]] = "good"
  /\ at[s] \in {"pointer", "hash", "linked"} => s \notin lost

PruneStands(p) ==
  /\ at[p] \in PruneStations
  /\ at[p] = "dropping" => digest[p] \in Objects
  /\ at[p] = "list" => left[p] \subseteq Keys \ selected[p]
  /\ at[p] \in {"sweep", "dropping"} => left[p] \subseteq Objects

LEMMA CacheParts ==
  /\ Stations /\ Reasons <=> (\A s \in Scans : ScanStands(s)) /\ (\A p \in Pruners : PruneStands(p))
  /\ ScansQuiet <=> \A s \in Scans : ScanQuiet(s)
<1>1. Stations /\ Reasons <=> (\A s \in Scans : ScanStands(s)) /\ (\A p \in Pruners : PruneStands(p))
  BY Zenon DEF Stations, Reasons, ScanStands, PruneStands, PruneStations
<1>2. ScansQuiet <=> \A s \in Scans : ScanQuiet(s)
  BY Zenon DEF ScansQuiet, ScanQuiet
<1> QED BY <1>1, <1>2

\* As long as no prune has met a scan, no prune runs beside a scan that runs.
LEMMA ScanAlone ==
  ASSUME Apart, NEW s \in Scans, ~Over(s), "scan" \notin overlapped
  PROVE  Active(Pruners) = {}
BY DEF Apart, Active

LEMMA PruneAlone ==
  ASSUME Apart, NEW p \in Pruners, ~Over(p), "scan" \notin overlapped
  PROVE  \A s \in Scans : Over(s)
BY DEF Apart, Active

\* A step of a scan that runs: what prunes rely on is not at stake.
LEMMA ScanStep ==
  ASSUME CacheAssumption, KeptInv, NEW s \in Scans, ~Over(s),
         NEW where \in ScanStations, at' = [at EXCEPT ![s] = where],
         UNCHANGED <<litter, key, pruneVars, faultsSoFar>>,
         pointer' \in [Keys -> Objects \cup {None}], content' \in [Objects -> {"absent", "good", "bad"}],
         digest' \in [Procs -> Objects \cup {None}], lost' \subseteq Procs,
         reason' \in [Scans -> {"load", "restore", "put", "store", "rot"}],
         value' \in [Scans -> {"none", "good", "bad", "lost"}],
         \A q \in Procs \ {s} : digest'[q] = digest[q],
         \A r \in Scans \ {s} : reason'[r] = reason[r] /\ value'[r] = value[r],
         \A q \in Procs \ {s} : Holds(q) /\ q \notin lost' =>
           q \notin lost /\ (content'[digest[q]] = "absent" => content[digest[q]] = "absent"),
         Holds(s)' /\ s \notin lost' => content'[digest'[s]] # "absent",
         ScanStands(s)',
         Quiet => ScanQuiet(s)',
         Quiet => lost' \subseteq lost /\ \A o \in Objects : content'[o] # "bad" /\ (content[o] = "good" => content'[o] = "good"),
         Quiet => \A k \in Keys : pointer'[k] = pointer[k] \/ content'[pointer'[k]] = "good"
  PROVE  KeptInv'
<1> USE DEF faultsSoFar, pruneVars
<1>1. CacheTypeOK /\ Apart
  BY DEF KeptInv
<1>2. /\ at' \in [Procs -> States] /\ at'[s] = where /\ \A q \in Procs \ {s} : at'[q] = at[q]
      /\ s \in Procs /\ s \notin Pruners
  BY <1>1 DEF CacheTypeOK, Procs, ScanStations, CacheAssumption, ProcsAssumption
<1>3. CacheTypeOK'
  BY <1>1, <1>2 DEF CacheTypeOK
<1>4. Active(Pruners)' = Active(Pruners)
  BY <1>2 DEF Active, Over, Procs
<1>5. (\A r \in Scans : ScanStands(r)') /\ (\A p \in Pruners : PruneStands(p)')
  <2>1. \A r \in Scans \ {s} : ScanStands(r)'
    BY <1>2, CacheParts DEF KeptInv, ScanStands, Procs
  <2>2. \A p \in Pruners : PruneStands(p)'
    BY <1>2, CacheParts DEF KeptInv, PruneStands, Procs
  <2> QED BY <2>1, <2>2
<1>6. Stations' /\ Reasons'
  BY <1>5, Zenon DEF Stations, Reasons, ScanStands, PruneStands, PruneStations
<1>7. Apart'
  BY <1>1, <1>4, ScanAlone DEF Apart
<1>8. WhileQuiet'
  <2> SUFFICES ASSUME Quiet
               PROVE  /\ ScansQuiet' /\ (\A o \in Objects : content'[o] # "bad")
                      /\ (\A k \in Keys : ~Dangling(k)') /\ Active(Pruners)' = {}
    BY Zenon DEF WhileQuiet, Quiet
  <2>1. Active(Pruners)' = {}
    BY <1>1, <1>4, ScanAlone DEF Quiet
  <2>2. \A r \in Scans \ {s} : ScanQuiet(r)'
    <3> SUFFICES ASSUME NEW r \in Scans \ {s} PROVE ScanQuiet(r)'
      OBVIOUS
    <3>1. ScanQuiet(r) /\ ScanStands(r)
      BY CacheParts DEF KeptInv, WhileQuiet
    <3>2. at'[r] = at[r] /\ digest'[r] = digest[r] /\ reason'[r] = reason[r]
      BY <1>2 DEF Procs
    <3>3. GoodInHand(r) => digest[r] \in Objects
      BY <3>1 DEF ScanStands, GoodInHand
    <3> QED BY <3>1, <3>2, <3>3 DEF ScanQuiet, GoodInHand
  <2>3. ScansQuiet'
    <3>1. \A r \in Scans : ScanQuiet(r)'
      BY <2>2
    <3> QED BY <3>1, Zenon DEF ScansQuiet, ScanQuiet
  <2>4. \A k \in Keys : ~Dangling(k)'
    <3>1. \A k \in Keys : pointer[k] # None => content[pointer[k]] = "good" /\ pointer[k] \in Objects
      BY <1>1 DEF KeptInv, WhileQuiet, Dangling, CacheTypeOK
    <3> QED BY <3>1 DEF Dangling
  <2> QED BY <2>1, <2>3, <2>4
<1>9. WhileApart' /\ WhileAlone'
  BY <1>1, <1>4, ScanAlone DEF WhileApart, WhileAlone
<1>10. Held'
  BY <1>2 DEF KeptInv, Held, Holds
<1> QED BY <1>3, <1>6, <1>7, <1>8, <1>9, <1>10 DEF KeptInv

\* A step of a prune that runs: what scans have in hand is not at stake, and no
\* pointer or object appears.
LEMMA PruneStep ==
  ASSUME CacheAssumption, KeptInv, NEW p \in Pruners, ~Over(p),
         NEW where \in PruneStations, at' = [at EXCEPT ![p] = where],
         UNCHANGED <<litter, scanVars, faultsSoFar>>,
         pointer' \in [Keys -> Objects \cup {None}], content' \in [Objects -> {"absent", "good", "bad"}],
         key' \in [Procs -> Keys], digest' \in [Procs -> Objects \cup {None}], lost' \subseteq Procs,
         left' \in [Pruners -> SUBSET (Keys \cup Objects)], selected' \in [Pruners -> SUBSET Keys],
         retained' \in [Pruners -> SUBSET Objects],
         \A q \in Procs \ {p} : digest'[q] = digest[q] /\ key'[q] = key[q],
         \A q \in Pruners \ {p} : left'[q] = left[q] /\ selected'[q] = selected[q] /\ retained'[q] = retained[q],
         where = "dropping" => digest'[p] \in Objects,
         where = "list" => left'[p] \subseteq Keys \ selected'[p],
         where \in {"sweep", "dropping"} => left'[p] \subseteq Objects,
         \A q \in Procs \ {p} : Holds(q) /\ q \notin lost' =>
           q \notin lost /\ (content'[digest[q]] = "absent" => content[digest[q]] = "absent"),
         Holds(p)' /\ p \notin lost' => content'[digest'[p]] # "absent",
         \A k \in Keys : pointer'[k] \in {pointer[k], None},
         \A o \in Objects : content'[o] \in {content[o], "absent"},
         Quiet => \A k \in Keys : pointer'[k] # None => content'[pointer'[k]] = content[pointer'[k]],
         Quiet => (where \notin {"idle", "done", "failed"} => Spared(p)' /\ Condemning(p)'),
         "scan" \notin overlapped => (where \notin {"idle", "done", "failed"} => Swept(p)'),
         overlapped = {} => (where \notin {"idle", "done", "failed"} => RetainedNamed(p)')
  PROVE  KeptInv'
<1> USE DEF faultsSoFar, scanVars
<1>1. CacheTypeOK /\ Apart
  BY DEF KeptInv
<1>2. /\ at' \in [Procs -> States] /\ at'[p] = where /\ \A q \in Procs \ {p} : at'[q] = at[q]
      /\ p \in Procs /\ p \notin Scans
  BY <1>1 DEF CacheTypeOK, Procs, PruneStations, States, CacheAssumption, ProcsAssumption
<1>3. CacheTypeOK'
  BY <1>1, <1>2 DEF CacheTypeOK
<1>4. \A s \in Scans : at'[s] = at[s] /\ digest'[s] = digest[s] /\ reason'[s] = reason[s] /\ value'[s] = value[s]
  BY <1>2 DEF Procs
<1>5. Active(Scans)' = Active(Scans) /\ Active(Pruners)' \subseteq Active(Pruners)
  BY <1>2, <1>4 DEF Active, Over, Procs
<1>6. (\A s \in Scans : ScanStands(s)') /\ (\A q \in Pruners : PruneStands(q)')
  <2>1. \A s \in Scans : ScanStands(s)'
    BY <1>4, CacheParts DEF KeptInv, ScanStands
  <2>2. \A q \in Pruners \ {p} : PruneStands(q)'
    BY <1>2, CacheParts DEF KeptInv, PruneStands, Procs
  <2>3. PruneStands(p)'
    BY <1>2 DEF PruneStands
  <2> QED BY <2>1, <2>2, <2>3
<1>7. Stations' /\ Reasons'
  BY <1>6, Zenon DEF Stations, Reasons, ScanStands, PruneStands, PruneStations
<1>8. Apart'
  BY <1>1, <1>5 DEF Apart
<1>9. ASSUME NEW q \in Active(Pruners)', q # p
      PROVE  /\ q \in Active(Pruners) /\ q \in Pruners /\ at'[q] = at[q] /\ left'[q] = left[q] /\ key'[q] = key[q]
             /\ selected'[q] = selected[q] /\ retained'[q] = retained[q] /\ digest'[q] = digest[q]
  BY <1>2, <1>5, <1>9 DEF Active, Procs
<1>10. p \in Active(Pruners)' => where \notin {"idle", "done", "failed"}
  BY <1>2 DEF Active, Over
<1>11. WhileQuiet'
  <2> SUFFICES ASSUME Quiet
               PROVE  /\ ScansQuiet' /\ (\A o \in Objects : content'[o] # "bad")
                      /\ (\A k \in Keys : ~Dangling(k)') /\ \A q \in Active(Pruners)' : Spared(q)' /\ Condemning(q)'
    BY Zenon DEF WhileQuiet, Quiet
  <2>1. ScansQuiet'
    <3>1. \A s \in Scans : Over(s) /\ ScanQuiet(s)
      BY <1>1, PruneAlone, CacheParts DEF Quiet, KeptInv, WhileQuiet
    <3>2. \A s \in Scans : ScanQuiet(s)'
      BY <1>4, <3>1 DEF ScanQuiet, GoodInHand, Over
    <3> QED BY <3>2, Zenon DEF ScansQuiet, ScanQuiet
  <2>2. \A o \in Objects : content'[o] # "bad"
    BY DEF KeptInv, WhileQuiet
  <2>3. \A k \in Keys : ~Dangling(k)'
    BY DEF KeptInv, WhileQuiet, Dangling
  <2>4. ASSUME NEW q \in Active(Pruners)', q # p
        PROVE  Spared(q)' /\ Condemning(q)'
    <3>1. Spared(q) /\ Condemning(q)
      BY <1>9, <2>4 DEF KeptInv, WhileQuiet
    <3> QED BY <1>9, <2>4, <3>1 DEF Spared, Condemning
  <2> QED BY <1>10, <2>1, <2>2, <2>3, <2>4
<1>12. WhileApart'
  <2> SUFFICES ASSUME "scan" \notin overlapped, NEW q \in Active(Pruners)'
               PROVE  Swept(q)'
    BY DEF WhileApart
  <2>1. CASE q = p
    BY <1>10, <2>1
  <2>2. CASE q # p
    <3>1. Swept(q)
      BY <1>9, <2>2 DEF KeptInv, WhileApart
    <3> QED BY <1>9, <2>2, <3>1 DEF Swept
  <2> QED BY <2>1, <2>2
<1>13. WhileAlone'
  <2> SUFFICES ASSUME overlapped = {}
               PROVE  (\A q, r \in Active(Pruners)' : q = r) /\ \A q \in Active(Pruners)' : RetainedNamed(q)'
    BY DEF WhileAlone
  <2>1. \A q, r \in Active(Pruners)' : q = r
    BY <1>5 DEF KeptInv, WhileAlone
  <2>2. \A q \in Active(Pruners)' : q = p
    BY <1>5 DEF KeptInv, WhileAlone, Active
  <2> QED BY <1>10, <2>1, <2>2
<1>14. Held'
  BY <1>2 DEF KeptInv, Held, Holds
<1> QED BY <1>3, <1>7, <1>8, <1>11, <1>12, <1>13, <1>14 DEF KeptInv

\* What a scan finds, unpacked.
LEMMA ScanFacts ==
  ASSUME CacheAssumption, KeptInv, NEW s \in Scans
  PROVE  /\ pointer \in [Keys -> Objects \cup {None}] /\ content \in [Objects -> {"absent", "good", "bad"}]
         /\ digest \in [Procs -> Objects \cup {None}] /\ lost \subseteq Procs /\ key[s] \in Keys /\ s \in Procs
         /\ reason \in [Scans -> {"load", "restore", "put", "store", "rot"}]
         /\ value \in [Scans -> {"none", "good", "bad", "lost"}]
         /\ at \in [Procs -> States] /\ None \notin Objects /\ ScanStands(s) /\ (Quiet => ScanQuiet(s))
         /\ Quiet => \A k \in Keys : pointer[k] # None => content[pointer[k]] = "good"
         /\ Quiet => \A o \in Objects : content[o] # "bad"
         /\ Holds(s) /\ s \notin lost => content[digest[s]] # "absent"
<1>1. ScanStands(s) /\ (Quiet => ScanQuiet(s))
  BY CacheParts DEF KeptInv, WhileQuiet
<1>2. CacheTypeOK /\ s \in Procs
  BY DEF KeptInv, Procs
<1>3. Quiet => \A k \in Keys : pointer[k] # None => content[pointer[k]] = "good"
  BY <1>2 DEF KeptInv, WhileQuiet, Dangling, CacheTypeOK
<1>4. Quiet => \A o \in Objects : content[o] # "bad"
  BY DEF KeptInv, WhileQuiet
<1>5. Holds(s) /\ s \notin lost => content[digest[s]] # "absent"
  BY <1>2 DEF KeptInv, Held
<1> QED BY <1>1, <1>2, <1>3, <1>4, <1>5 DEF CacheTypeOK, CacheAssumption, NoneAssumption

\* A step that only looks at the files.
LEMMA ScanLooks ==
  ASSUME CacheAssumption, KeptInv, NEW s \in Scans, ~Over(s),
         NEW where \in ScanStations, at' = [at EXCEPT ![s] = where],
         UNCHANGED <<cacheFiles, key, digest, pruneVars, faultsSoFar>>,
         lost' = lost \/ lost' = lost \ {s},
         reason' \in [Scans -> {"load", "restore", "put", "store", "rot"}],
         value' \in [Scans -> {"none", "good", "bad", "lost"}],
         \A r \in Scans \ {s} : reason'[r] = reason[r] /\ value'[r] = value[r],
         Holds(s)' /\ s \notin lost' => content[digest[s]] # "absent",
         ScanStands(s)', Quiet => ScanQuiet(s)'
  PROVE  KeptInv'
<1>1. UNCHANGED <<pointer, content, litter, key, digest, pruneVars, faultsSoFar>>
  BY DEF cacheFiles
<1>2. /\ pointer' \in [Keys -> Objects \cup {None}] /\ content' \in [Objects -> {"absent", "good", "bad"}]
      /\ digest' \in [Procs -> Objects \cup {None}] /\ lost' \subseteq Procs /\ lost' \subseteq lost
      /\ \A q \in Procs \ {s} : digest'[q] = digest[q]
  BY <1>1, ScanFacts
<1>3. Quiet => lost' \subseteq lost /\ \A o \in Objects : content'[o] # "bad" /\ (content[o] = "good" => content'[o] = "good")
  BY <1>1, <1>2, ScanFacts
<1>4. Quiet => \A k \in Keys : pointer'[k] = pointer[k] \/ content'[pointer'[k]] = "good"
  BY <1>1
<1>5. /\ \A q \in Procs \ {s} : Holds(q) /\ q \notin lost' =>
           q \notin lost /\ (content'[digest[q]] = "absent" => content[digest[q]] = "absent")
      /\ Holds(s)' /\ s \notin lost' => content'[digest'[s]] # "absent"
  BY <1>1
<1> QED BY <1>1, <1>2, <1>3, <1>4, <1>5, ScanStep

LEMMA ReadPointerKeeps ==
  ASSUME CacheAssumption, KeptInv, NEW s \in Scans, ReadPointer(s) PROVE KeptInv'
<1> DEFINE where == IF s \in lost THEN "failed" ELSE "open"
<1>1. /\ at' = [at EXCEPT ![s] = where] /\ where \in ScanStations /\ ~Over(s)
      /\ UNCHANGED <<cacheFiles, key, digest, pruneVars, faultsSoFar>> /\ lost' = lost
  BY DEF ReadPointer, Goto, Over, ScanStations, States
<1>2. /\ reason' \in [Scans -> {"load", "restore", "put", "store", "rot"}]
      /\ value' \in [Scans -> {"none", "good", "bad", "lost"}]
      /\ \A r \in Scans \ {s} : reason'[r] = reason[r] /\ value'[r] = value[r]
  BY ScanFacts DEF ReadPointer
<1>3. at'[s] = where /\ reason'[s] = "load" /\ digest' = digest
  BY <1>1, ScanFacts DEF ReadPointer
<1>4. ScanStands(s)'
  BY <1>3, ScanFacts DEF ScanStands, ReadPointer
<1>5. Quiet => ScanQuiet(s)'
  BY <1>1, <1>3, ScanFacts DEF ScanQuiet, GoodInHand, ReadPointer, cacheFiles
<1>6. ~Holds(s)'
  BY <1>3 DEF Holds
<1> QED BY <1>1, <1>2, <1>4, <1>5, <1>6, ScanLooks

LEMMA OpenObjectKeeps ==
  ASSUME CacheAssumption, KeptInv, NEW s \in Scans, OpenObject(s) PROVE KeptInv'
<1> DEFINE where == IF content[digest[s]] = "absent" THEN AfterRead(reason[s], "absent") ELSE "hash"
<1>1. /\ at' = [at EXCEPT ![s] = where] /\ ~Over(s)
      /\ UNCHANGED <<cacheFiles, key, digest, scanVars, pruneVars, faultsSoFar>> /\ lost' = lost \ {s}
  BY DEF OpenObject, Goto, Over
<1>2. /\ ScanStands(s) /\ at[s] = "open" /\ reason[s] \in {"load", "restore", "put", "store"}
      /\ UNCHANGED <<content, digest, reason, value>>
  BY ScanFacts DEF OpenObject, cacheFiles, scanVars, ScanStands
<1>3. /\ where \in {"hash", "discard", "link", "failed"}
      /\ where = "link" => reason[s] = "put"
  BY <1>2 DEF AfterRead, LoadNext, RestoreNext, PutNext, StoreNext
<1>4. Quiet /\ reason[s] # "put" => where = "hash"
  BY <1>2, ScanFacts DEF ScanQuiet, GoodInHand
<1>5. Quiet => where \in {"hash", "link"}
  BY <1>2, <1>4 DEF AfterRead, PutNext
<1>6. at'[s] = where /\ where \in ScanStations
  BY <1>1, <1>3, ScanFacts DEF ScanStations, States
<1>7. /\ Quiet /\ where = "hash" => content[digest[s]] = "good"
      /\ where = "hash" => content[digest[s]] # "absent"
  <2>1. digest[s] \in Objects
    BY <1>2 DEF ScanStands
  <2>2. content[digest[s]] \in {"absent", "good", "bad"} /\ (Quiet => content[digest[s]] # "bad")
    BY <2>1, ScanFacts
  <2>3. where = "hash" => content[digest[s]] # "absent"
    BY <1>2 DEF AfterRead, LoadNext, RestoreNext, PutNext, StoreNext
  <2> QED BY <2>2, <2>3
<1> HIDE DEF where
<1>8. ScanStands(s)'
  BY <1>2, <1>3, <1>6 DEF ScanStands
<1>9. Quiet => ScanQuiet(s)'
  BY <1>1, <1>2, <1>5, <1>6, <1>7, ScanFacts DEF ScanQuiet, GoodInHand
<1>10. UNCHANGED <<reason, value>> /\ (Holds(s)' => content[digest[s]] # "absent")
  BY <1>2, <1>3, <1>6, <1>7 DEF Holds
<1> QED BY <1>1, <1>6, <1>8, <1>9, <1>10, ScanFacts, ScanLooks

LEMMA ReadObjectKeeps ==
  ASSUME CacheAssumption, KeptInv, NEW s \in Scans, ReadObject(s) PROVE KeptInv'
<1> DEFINE found == IF s \in lost THEN "lost" ELSE content[digest[s]]
           where == AfterRead(reason[s], found)
           passed == IF reason[s] = "restore" THEN found ELSE value[s]
           why == CASE reason[s] = "load" /\ found = "good" -> "restore"
                    [] reason[s] = "load" /\ found = "bad"  -> "rot"
                    [] OTHER -> reason[s]
<1>1. /\ at' = [at EXCEPT ![s] = where] /\ ~Over(s) /\ at[s] = "hash" /\ lost' = lost
      /\ value' = [value EXCEPT ![s] = passed] /\ reason' = [reason EXCEPT ![s] = why]
      /\ UNCHANGED <<cacheFiles, content, key, digest, pruneVars, faultsSoFar>>
  BY DEF ReadObject, Goto, Over, cacheFiles
<1>2. /\ ScanStands(s) /\ reason[s] \in {"load", "restore", "put", "store"}
      /\ digest[s] \in Objects /\ found \in {"lost", "good", "bad"}
      /\ reason[s] \in {"put", "store"} => value[s] = "good"
  BY <1>1, ScanFacts DEF ScanStands, Holds
<1>3. Quiet => found = "good" /\ content[digest[s]] = "good"
  BY <1>1, ScanFacts DEF ScanQuiet, GoodInHand
<1> HIDE DEF found
<1>4. /\ where \in {"open", "failed", "discard", "done", "ran", "link", "temp"}
      /\ where = "done" => reason[s] = "restore" /\ found = "good"
      /\ where = "open" => reason[s] = "load" /\ found = "good"
      /\ where \in {"ran", "temp", "link"} => reason[s] \in {"put", "store"}
      /\ where = "link" => reason[s] = "put" /\ found = "absent"
      /\ found = "good" => where \in {"open", "done", "ran", "temp"}
  BY <1>2 DEF AfterRead, LoadNext, RestoreNext, PutNext, StoreNext
<1>5. /\ why \in {"load", "restore", "put", "store", "rot"}
      /\ why = "rot" => found = "bad"
      /\ where = "open" => why = "restore"
      /\ where = "link" => why = "put"
  BY <1>2, <1>4
<1>6. /\ passed \in {"none", "good", "bad", "lost"}
      /\ where \in {"done", "ran", "temp", "link"} => passed = "good"
  BY <1>2, <1>4, ScanFacts
<1> HIDE DEF where, why, passed
<1>7. at'[s] = where /\ value'[s] = passed /\ reason'[s] = why /\ digest' = digest /\ content' = content
  BY <1>1, ScanFacts
<1>8. /\ reason' \in [Scans -> {"load", "restore", "put", "store", "rot"}]
      /\ value' \in [Scans -> {"none", "good", "bad", "lost"}]
      /\ \A r \in Scans \ {s} : reason'[r] = reason[r] /\ value'[r] = value[r]
      /\ where \in ScanStations
  BY <1>1, <1>4, <1>5, <1>6, ScanFacts DEF ScanStations, States
<1>9. ScanStands(s)'
  BY <1>2, <1>4, <1>5, <1>6, <1>7 DEF ScanStands
<1>10. Quiet => ScanQuiet(s)'
  BY <1>3, <1>4, <1>5, <1>7 DEF ScanQuiet, GoodInHand
<1>11. ~Holds(s)'
  BY <1>4, <1>7 DEF Holds
<1> QED BY <1>1, <1>8, <1>9, <1>10, <1>11, ScanLooks

LEMMA DiscardKeeps ==
  ASSUME CacheAssumption, KeptInv, NEW s \in Scans, Discard(s) PROVE KeptInv'
<1> DEFINE where == IF pointer[key[s]] = None THEN AfterDiscard(s) ELSE "unlink"
<1>1. /\ at' = [at EXCEPT ![s] = where] /\ ~Over(s) /\ at[s] = "discard"
      /\ UNCHANGED <<cacheFiles, key, digest, scanVars, pruneVars, faultsSoFar>> /\ lost' = lost
  BY DEF Discard, Goto, Over
<1>2. where \in {"drop", "run", "unlink"} /\ where \in ScanStations
  BY DEF AfterDiscard, ScanStations, States
<1> HIDE DEF where
<1>3. at'[s] = where /\ UNCHANGED <<digest, reason, value>>
  BY <1>1, ScanFacts DEF scanVars
<1>4. ScanStands(s)' /\ ~Holds(s)'
  BY <1>1, <1>2, <1>3, ScanFacts DEF ScanStands, Holds
<1>5. ~Quiet
  BY <1>1, ScanFacts DEF ScanQuiet
<1> QED BY <1>1, <1>2, <1>3, <1>4, <1>5, ScanFacts, ScanLooks

LEMMA DropObjectKeeps ==
  ASSUME CacheAssumption, KeptInv, NEW s \in Scans, DropObject(s) PROVE KeptInv'
<1> DEFINE where == IF content[digest[s]] = "absent" THEN "run" ELSE "dropping"
<1>1. /\ at' = [at EXCEPT ![s] = where] /\ ~Over(s) /\ at[s] = "drop"
      /\ UNCHANGED <<cacheFiles, key, digest, scanVars, pruneVars, faultsSoFar>> /\ lost' = lost \ {s}
  BY DEF DropObject, Goto, Over
<1>2. /\ where \in {"run", "dropping"} /\ where \in ScanStations
      /\ where = "dropping" => content[digest[s]] # "absent"
  BY DEF ScanStations, States
<1> HIDE DEF where
<1>3. at'[s] = where /\ UNCHANGED <<digest, reason, value>>
  BY <1>1, ScanFacts DEF scanVars
<1>4. ScanStands(s)' /\ (Holds(s)' => content[digest[s]] # "absent")
  BY <1>1, <1>2, <1>3, ScanFacts DEF ScanStands, Holds
<1>5. ~Quiet
  BY <1>1, ScanFacts DEF ScanQuiet
<1> QED BY <1>1, <1>2, <1>3, <1>4, <1>5, ScanFacts, ScanLooks

LEMMA LinkedKeeps ==
  ASSUME CacheAssumption, KeptInv, NEW s \in Scans, Linked(s) PROVE KeptInv'
<1> DEFINE where == IF s \in lost THEN "failed" ELSE "ran"
<1>1. /\ at' = [at EXCEPT ![s] = where] /\ ~Over(s) /\ at[s] = "linked"
      /\ UNCHANGED <<cacheFiles, key, digest, scanVars, pruneVars, faultsSoFar>> /\ lost' = lost
  BY DEF Linked, Goto, Over
<1>2. where \in {"failed", "ran"} /\ where \in ScanStations
  BY DEF ScanStations, States
<1> HIDE DEF where
<1>3. at'[s] = where /\ UNCHANGED <<content, digest, reason, value>>
  BY <1>1, ScanFacts DEF scanVars, cacheFiles
<1>4. ScanStands(s)' /\ ~Holds(s)'
  BY <1>1, <1>2, <1>3, ScanFacts DEF ScanStands, Holds
<1>5. Quiet => ScanQuiet(s)'
  BY <1>1, <1>2, <1>3, ScanFacts DEF ScanQuiet, GoodInHand
<1> QED BY <1>1, <1>2, <1>3, <1>4, <1>5, ScanFacts, ScanLooks

LEMMA RanKeeps ==
  ASSUME CacheAssumption, KeptInv, NEW s \in Scans, Ran(s) PROVE KeptInv'
<1>1. /\ ~Over(s) /\ at[s] = "ran" /\ lost' = lost /\ value' = value
      /\ UNCHANGED <<cacheFiles, content, key, digest, pruneVars, faultsSoFar>>
  BY DEF Ran, Over, cacheFiles
<1>2. PICK where \in {"done", "open"} :
        /\ at' = [at EXCEPT ![s] = where]
        /\ where = "done" => reason' = reason
        /\ where = "open" => reason' = [reason EXCEPT ![s] = "store"]
  BY DEF Ran, Goto
<1>3. /\ at'[s] = where /\ where \in ScanStations
      /\ where = "open" => reason'[s] = "store"
      /\ reason' \in [Scans -> {"load", "restore", "put", "store", "rot"}]
      /\ \A r \in Scans \ {s} : reason'[r] = reason[r]
  BY <1>2, ScanFacts DEF ScanStations, States
<1>4. ScanStands(s)' /\ ~Holds(s)'
  BY <1>1, <1>2, <1>3, ScanFacts DEF ScanStands, Holds
<1>5. Quiet => ScanQuiet(s)'
  BY <1>1, <1>2, <1>3, ScanFacts DEF ScanQuiet, GoodInHand
<1> QED BY <1>1, <1>2, <1>3, <1>4, <1>5, ScanFacts, ScanLooks

LEMMA CompareKeeps ==
  ASSUME CacheAssumption, KeptInv, NEW s \in Scans, Compare(s) PROVE KeptInv'
<1> DEFINE where == IF pointer[key[s]] = None THEN "install" ELSE IF Agrees(s) THEN "done" ELSE "failed"
<1>1. /\ at' = [at EXCEPT ![s] = where] /\ ~Over(s) /\ at[s] = "temp"
      /\ UNCHANGED <<cacheFiles, key, digest, scanVars, pruneVars, faultsSoFar>> /\ lost' = lost
  BY DEF Compare, Goto, Over
<1>2. where \in {"install", "done", "failed"} /\ where \in ScanStations
  BY DEF ScanStations, States
<1> HIDE DEF where
<1>3. at'[s] = where /\ UNCHANGED <<content, digest, reason, value>>
  BY <1>1, ScanFacts DEF scanVars, cacheFiles
<1>4. ScanStands(s)' /\ ~Holds(s)'
  BY <1>1, <1>2, <1>3, ScanFacts DEF ScanStands, Holds
<1>5. Quiet => ScanQuiet(s)'
  BY <1>1, <1>2, <1>3, ScanFacts DEF ScanQuiet, GoodInHand
<1> QED BY <1>1, <1>2, <1>3, <1>4, <1>5, ScanFacts, ScanLooks

LEMMA CleanupKeeps ==
  ASSUME CacheAssumption, KeptInv, NEW s \in Scans, Cleanup(s) PROVE KeptInv'
<1>1. /\ at' = [at EXCEPT ![s] = "done"] /\ ~Over(s) /\ at[s] = "cleanup" /\ "done" \in ScanStations
      /\ UNCHANGED <<cacheFiles, key, digest, scanVars, pruneVars, faultsSoFar>> /\ lost' = lost
  BY DEF Cleanup, Goto, Over, ScanStations, States
<1>2. at'[s] = "done" /\ UNCHANGED <<content, digest, reason, value>>
  BY <1>1, ScanFacts DEF scanVars, cacheFiles
<1>3. ScanStands(s)' /\ ~Holds(s)'
  BY <1>1, <1>2, ScanFacts DEF ScanStands, Holds
<1>4. Quiet => ScanQuiet(s)'
  BY <1>1, <1>2, ScanFacts DEF ScanQuiet, GoodInHand
<1> QED BY <1>1, <1>2, <1>3, <1>4, ScanFacts, ScanLooks

LEMMA OpenPointerKeeps ==
  ASSUME CacheAssumption, KeptInv, NEW s \in Scans, OpenPointer(s) PROVE KeptInv'
<1> DEFINE named == pointer[key[s]]
           where == IF named = None THEN "run" ELSE "pointer"
<1>1. /\ at' = [at EXCEPT ![s] = where] /\ digest' = [digest EXCEPT ![s] = named] /\ ~Over(s)
      /\ at[s] = "load" /\ lost' = lost \ {s}
      /\ UNCHANGED <<pointer, content, litter, key, reason, value, pruneVars, faultsSoFar>>
  BY DEF OpenPointer, Goto, Over, cacheFiles, scanVars
<1>2. /\ where \in {"run", "pointer"} /\ where \in ScanStations
      /\ named \in Objects \cup {None} /\ (where = "pointer" => named \in Objects)
      /\ Quiet /\ where = "pointer" => content[named] = "good"
  BY ScanFacts DEF ScanStations, States
<1> HIDE DEF where, named
<1>3. /\ at'[s] = where /\ digest'[s] = named /\ digest' \in [Procs -> Objects \cup {None}]
      /\ \A q \in Procs \ {s} : digest'[q] = digest[q]
      /\ lost' \subseteq Procs
  BY <1>1, <1>2, ScanFacts
<1>4. ScanStands(s)' /\ ~Holds(s)'
  BY <1>1, <1>2, <1>3, ScanFacts DEF ScanStands, Holds
<1>5. Quiet => ScanQuiet(s)'
  BY <1>1, <1>2, <1>3, ScanFacts DEF ScanQuiet, GoodInHand
<1>6. \A q \in Procs \ {s} : Holds(q) /\ q \notin lost' => q \notin lost
  BY <1>1
<1> QED BY <1>1, <1>2, <1>3, <1>4, <1>5, <1>6, ScanFacts, ScanStep

LEMMA RunKeeps ==
  ASSUME CacheAssumption, KeptInv, NEW s \in Scans, Run(s) PROVE KeptInv'
<1>1. PICK o \in Outputs[key[s]] : digest' = [digest EXCEPT ![s] = o]
  BY DEF Run
<1>2. /\ at' = [at EXCEPT ![s] = "open"] /\ ~Over(s) /\ at[s] = "run" /\ lost' = lost
      /\ reason' = [reason EXCEPT ![s] = "put"] /\ value' = [value EXCEPT ![s] = "good"]
      /\ UNCHANGED <<pointer, content, litter, key, pruneVars, faultsSoFar>> /\ "open" \in ScanStations
  BY DEF Run, Goto, Over, cacheFiles, ScanStations, States
<1>3. o \in Objects
  BY ScanFacts DEF CacheAssumption, OutputsAssumption
<1>4. /\ at'[s] = "open" /\ digest'[s] = o /\ reason'[s] = "put" /\ value'[s] = "good"
      /\ digest' \in [Procs -> Objects \cup {None}] /\ \A q \in Procs \ {s} : digest'[q] = digest[q]
      /\ reason' \in [Scans -> {"load", "restore", "put", "store", "rot"}]
      /\ value' \in [Scans -> {"none", "good", "bad", "lost"}]
      /\ \A r \in Scans \ {s} : reason'[r] = reason[r] /\ value'[r] = value[r]
  BY <1>1, <1>2, <1>3, ScanFacts
<1>5. ScanStands(s)' /\ ~Holds(s)'
  BY <1>3, <1>4 DEF ScanStands, Holds
<1>6. Quiet => ScanQuiet(s)'
  BY <1>4 DEF ScanQuiet, GoodInHand
<1>7. /\ pointer' \in [Keys -> Objects \cup {None}] /\ content' \in [Objects -> {"absent", "good", "bad"}]
      /\ lost' \subseteq Procs
      /\ Quiet => lost' \subseteq lost /\ \A x \in Objects : content'[x] # "bad" /\ (content[x] = "good" => content'[x] = "good")
      /\ Quiet => \A k \in Keys : pointer'[k] = pointer[k] \/ content'[pointer'[k]] = "good"
      /\ \A q \in Procs \ {s} : Holds(q) /\ q \notin lost' =>
           q \notin lost /\ (content'[digest[q]] = "absent" => content[digest[q]] = "absent")
  BY <1>2, ScanFacts
<1> QED BY <1>2, <1>4, <1>5, <1>6, <1>7, ScanStep

LEMMA HoldsObject ==
  ASSUME KeptInv, NEW q \in Procs, Holds(q) PROVE digest[q] \in Objects
<1>1. (\A s \in Scans : ScanStands(s)) /\ (\A p \in Pruners : PruneStands(p))
  BY CacheParts DEF KeptInv
<1> QED BY <1>1 DEF ScanStands, PruneStands, PruneStations, Holds, Procs

\* Who holds an object that is unlinked loses it, and nobody else.
LEMMA Unlinks ==
  ASSUME CacheAssumption, KeptInv, NEW o \in Objects, UnlinkObject(o)
  PROVE  /\ content' \in [Objects -> {"absent", "good", "bad"}] /\ lost \subseteq lost' /\ lost' \subseteq Procs
         /\ content'[o] = "absent" /\ \A x \in Objects \ {o} : content'[x] = content[x]
         /\ \A q \in Procs : Holds(q) /\ q \notin lost' =>
              q \notin lost /\ (content'[digest[q]] = "absent" => content[digest[q]] = "absent")
<1>1. /\ content \in [Objects -> {"absent", "good", "bad"}] /\ lost \subseteq Procs
      /\ content' = [content EXCEPT ![o] = "absent"]
      /\ lost' = lost \cup {p \in Procs : Holds(p) /\ digest[p] = o}
  BY DEF UnlinkObject, KeptInv, CacheTypeOK
<1>2. ASSUME NEW q \in Procs, Holds(q), q \notin lost'
      PROVE  q \notin lost /\ (content'[digest[q]] = "absent" => content[digest[q]] = "absent")
  <2>1. q \notin lost /\ digest[q] # o
    BY <1>1, <1>2
  <2>2. digest[q] \in Objects
    BY <1>2, HoldsObject
  <2> QED BY <1>1, <2>1, <2>2
<1> QED BY <1>1, <1>2

LEMMA RemovePointerKeeps ==
  ASSUME CacheAssumption, KeptInv, NEW s \in Scans, RemovePointer(s) PROVE KeptInv'
<1>1. /\ ~Over(s) /\ at[s] = "unlink" /\ UNCHANGED <<content, litter, key, digest, reason, value, pruneVars, faultsSoFar>>
  BY DEF RemovePointer, Over, scanVars
<1>2. PICK where \in {"failed", "drop", "run"} : at' = [at EXCEPT ![s] = where]
  BY DEF RemovePointer, Goto, AfterDiscard
<1>3. /\ at'[s] = where /\ where \in ScanStations
  BY <1>2, ScanFacts DEF ScanStations, States
<1>4. /\ pointer' \in [Keys -> Objects \cup {None}] /\ lost \subseteq lost' /\ lost' \subseteq Procs
  BY ScanFacts DEF RemovePointer, UnlinkPointer, Procs
<1>5. ScanStands(s)' /\ ~Holds(s)'
  BY <1>1, <1>2, <1>3, ScanFacts DEF ScanStands, Holds
<1>6. ~Quiet
  BY <1>1, ScanFacts DEF ScanQuiet
<1>7. \A q \in Procs \ {s} : Holds(q) /\ q \notin lost' =>
        q \notin lost /\ (content'[digest[q]] = "absent" => content[digest[q]] = "absent")
  BY <1>1, <1>4
<1> QED BY <1>1, <1>2, <1>3, <1>4, <1>5, <1>6, <1>7, ScanFacts, ScanStep

LEMMA RemoveObjectKeeps ==
  ASSUME CacheAssumption, KeptInv, NEW s \in Scans, RemoveObject(s) PROVE KeptInv'
<1>1. /\ ~Over(s) /\ at[s] = "dropping" /\ UNCHANGED <<pointer, litter, key, digest, reason, value, pruneVars, faultsSoFar>>
      /\ at' = [at EXCEPT ![s] = "run"] /\ "run" \in ScanStations
  BY DEF RemoveObject, Goto, Over, scanVars, ScanStations, States
<1>2. at'[s] = "run"
  BY <1>1, ScanFacts
<1>3. /\ content' \in [Objects -> {"absent", "good", "bad"}] /\ lost \subseteq lost' /\ lost' \subseteq Procs
      /\ \A q \in Procs \ {s} : Holds(q) /\ q \notin lost' =>
           q \notin lost /\ (content'[digest[q]] = "absent" => content[digest[q]] = "absent")
  <2>1. CASE s \in lost
    BY <2>1, ScanFacts DEF RemoveObject
  <2>2. CASE s \notin lost
    <3>1. digest[s] \in Objects
      BY <1>1, ScanFacts DEF ScanStands
    <3> QED BY <2>2, <3>1, Unlinks DEF RemoveObject
  <2> QED BY <2>1, <2>2
<1>4. ScanStands(s)' /\ ~Holds(s)'
  BY <1>2 DEF ScanStands, Holds
<1>5. ~Quiet
  BY <1>1, ScanFacts DEF ScanQuiet
<1>6. /\ pointer' \in [Keys -> Objects \cup {None}] /\ digest' \in [Procs -> Objects \cup {None}]
      /\ reason' \in [Scans -> {"load", "restore", "put", "store", "rot"}]
      /\ value' \in [Scans -> {"none", "good", "bad", "lost"}]
  BY <1>1, ScanFacts
<1> QED BY <1>1, <1>3, <1>4, <1>5, <1>6, ScanStep

LEMMA LinkKeeps ==
  ASSUME CacheAssumption, KeptInv, NEW s \in Scans, Link(s) PROVE KeptInv'
<1>1. /\ ~Over(s) /\ at[s] = "link" /\ UNCHANGED <<pointer, litter, key, digest, reason, value, pruneVars, faultsSoFar>>
      /\ lost' = lost \ {s} /\ digest[s] \in Objects /\ reason[s] = "put" /\ value[s] = "good"
  BY ScanFacts DEF Link, Goto, Over, scanVars, ScanStands
<1>2. PICK where \in {"linked", "open"} :
        /\ at' = [at EXCEPT ![s] = where]
        /\ where = "linked" => content[digest[s]] = "absent" /\ content' = [content EXCEPT ![digest[s]] = "good"]
        /\ where = "open" => content' = content
  BY DEF Link, Goto
<1>3. /\ at'[s] = where /\ where \in ScanStations /\ (where = "linked" => content'[digest[s]] = "good")
      /\ content' \in [Objects -> {"absent", "good", "bad"}] /\ lost' \subseteq lost /\ lost' \subseteq Procs
      /\ \A o \in Objects : content'[o] = content[o] \/ content'[o] = "good"
  BY <1>1, <1>2, ScanFacts DEF ScanStations, States
<1>4. ScanStands(s)' /\ (Holds(s)' => content'[digest'[s]] # "absent")
  BY <1>1, <1>2, <1>3 DEF ScanStands, Holds
<1>5. Quiet => ScanQuiet(s)'
  BY <1>1, <1>2, <1>3 DEF ScanQuiet, GoodInHand
<1>6. /\ Quiet => lost' \subseteq lost /\ \A o \in Objects : content'[o] # "bad" /\ (content[o] = "good" => content'[o] = "good")
  BY <1>3, ScanFacts
<1>7. \A q \in Procs \ {s} : Holds(q) /\ q \notin lost' =>
           q \notin lost /\ (content'[digest[q]] = "absent" => content[digest[q]] = "absent")
  <2> SUFFICES ASSUME NEW q \in Procs \ {s}, Holds(q), q \notin lost'
               PROVE  q \notin lost /\ (content'[digest[q]] = "absent" => content[digest[q]] = "absent")
    OBVIOUS
  <2>1. digest[q] \in Objects
    BY HoldsObject
  <2>2. q \notin lost /\ (content'[digest[q]] = content[digest[q]] \/ content'[digest[q]] = "good")
    BY <1>1, <1>3, <2>1
  <2> QED BY <2>2
<1>8. /\ pointer' \in [Keys -> Objects \cup {None}] /\ digest' \in [Procs -> Objects \cup {None}]
      /\ reason' \in [Scans -> {"load", "restore", "put", "store", "rot"}]
      /\ value' \in [Scans -> {"none", "good", "bad", "lost"}]
  BY <1>1, ScanFacts
<1> QED BY <1>1, <1>2, <1>3, <1>4, <1>5, <1>6, <1>7, <1>8, ScanStep

LEMMA InstallKeeps ==
  ASSUME CacheAssumption, KeptInv, NEW s \in Scans, Install(s) PROVE KeptInv'
<1>1. /\ ~Over(s) /\ at[s] = "install" /\ UNCHANGED <<content, litter, key, digest, reason, value, pruneVars, faultsSoFar>>
      /\ lost' = lost /\ digest[s] \in Objects /\ value[s] = "good" /\ key[s] \in Keys
  BY ScanFacts DEF Install, Goto, Over, scanVars, ScanStands
<1>2. PICK where \in {"cleanup", "done", "failed"} :
        /\ at' = [at EXCEPT ![s] = where]
        /\ pointer' = pointer \/ pointer' = [pointer EXCEPT ![key[s]] = digest[s]]
  BY DEF Install, Goto
<1>3. /\ at'[s] = where /\ where \in ScanStations /\ pointer' \in [Keys -> Objects \cup {None}]
      /\ \A k \in Keys : pointer'[k] = pointer[k] \/ pointer'[k] = digest[s]
  BY <1>1, <1>2, ScanFacts DEF ScanStations, States
<1>4. ScanStands(s)' /\ ~Holds(s)'
  BY <1>1, <1>2, <1>3 DEF ScanStands, Holds
<1>5. Quiet => ScanQuiet(s)' /\ content[digest[s]] = "good"
  BY <1>1, <1>2, <1>3, ScanFacts DEF ScanQuiet, GoodInHand
<1>6. Quiet => \A k \in Keys : pointer'[k] = pointer[k] \/ content'[pointer'[k]] = "good"
  BY <1>1, <1>3, <1>5
<1> QED BY <1>1, <1>2, <1>3, <1>4, <1>5, <1>6, ScanFacts, ScanStep

LEMMA ScanKeeps ==
  ASSUME CacheAssumption, KeptInv, NEW s \in Scans, Scan(s) PROVE KeptInv'
BY OpenPointerKeeps, ReadPointerKeeps, OpenObjectKeeps, ReadObjectKeeps, DiscardKeeps, RemovePointerKeeps,
   DropObjectKeeps, RemoveObjectKeeps, RunKeeps, LinkKeeps, LinkedKeeps, RanKeeps, CompareKeeps, InstallKeeps,
   CleanupKeeps DEF Scan

\* What a prune that runs finds, unpacked.
LEMMA PruneFacts ==
  ASSUME CacheAssumption, KeptInv, NEW p \in Pruners, ~Over(p)
  PROVE  /\ pointer \in [Keys -> Objects \cup {None}] /\ content \in [Objects -> {"absent", "good", "bad"}]
         /\ digest \in [Procs -> Objects \cup {None}] /\ lost \subseteq Procs /\ key \in [Procs -> Keys] /\ p \in Procs
         /\ left \in [Pruners -> SUBSET (Keys \cup Objects)] /\ selected \in [Pruners -> SUBSET Keys]
         /\ retained \in [Pruners -> SUBSET Objects]
         /\ at \in [Procs -> States] /\ None \notin Objects /\ PruneStands(p)
         /\ Quiet => Spared(p) /\ Condemning(p)
         /\ "scan" \notin overlapped => Swept(p)
         /\ overlapped = {} => RetainedNamed(p)
<1>1. PruneStands(p)
  BY CacheParts DEF KeptInv
<1>2. CacheTypeOK /\ p \in Procs
  BY DEF KeptInv, Procs
<1>3. p \in Active(Pruners)
  BY DEF Active
<1>4. /\ Quiet => Spared(p) /\ Condemning(p)
      /\ "scan" \notin overlapped => Swept(p)
      /\ overlapped = {} => RetainedNamed(p)
  BY <1>3 DEF KeptInv, WhileQuiet, WhileApart, WhileAlone
<1> QED BY <1>1, <1>2, <1>4 DEF CacheTypeOK, CacheAssumption, NoneAssumption

LEMMA ListKeeps ==
  ASSUME CacheAssumption, KeptInv, NEW p \in Pruners, List(p) PROVE KeptInv'
<1>1. /\ ~Over(p) /\ at[p] = "list" /\ lost' = lost
      /\ UNCHANGED <<pointer, content, litter, key, digest, scanVars, faultsSoFar>>
  BY DEF List, Over, cacheFiles
<1>2. PICK where \in {"failed", "list", "delete"} :
        /\ at' = [at EXCEPT ![p] = where]
        /\ \/ \E k \in left[p] :
                /\ left' = [left EXCEPT ![p] = @ \ {k}]
                /\ \/ where = "failed" /\ UNCHANGED <<selected, retained>>
                   \/ where = "list" /\ pointer[k] = None /\ UNCHANGED <<selected, retained>>
                   \/ where = "list" /\ pointer[k] # None /\ SelectEntry(p, k)
                   \/ where = "list" /\ pointer[k] # None /\ RetainEntry(p, k)
           \/ left[p] = {} /\ where = "delete" /\ UNCHANGED pruneVars
  <2>1. at = [at EXCEPT ![p] = "list"]
    BY <1>1, PruneFacts
  <2> QED BY <2>1 DEF List, Goto
<1>3. at'[p] = where /\ where \in PruneStations /\ ~Holds(p)'
  BY <1>2, <1>1, PruneFacts DEF PruneStations, Holds
<1>4. /\ left[p] \subseteq Keys \ selected[p] /\ selected[p] \subseteq Keys
      /\ retained[p] \subseteq Objects
      /\ Quiet => Spared(p)
      /\ overlapped = {} => RetainedNamed(p)
  BY <1>1, PruneFacts DEF PruneStands
<1> DEFINE Walked == /\ left' \in [Pruners -> SUBSET (Keys \cup Objects)] /\ selected' \in [Pruners -> SUBSET Keys]
                     /\ retained' \in [Pruners -> SUBSET Objects]
                     /\ \A q \in Pruners \ {p} : left'[q] = left[q] /\ selected'[q] = selected[q] /\ retained'[q] = retained[q]
                     /\ where = "list" => left'[p] \subseteq Keys \ selected'[p]
                     /\ where # "failed" => (Quiet => Spared(p)') /\ (overlapped = {} => RetainedNamed(p)')
<1>5. Walked
  <2>1. ASSUME NEW k \in left[p], left' = [left EXCEPT ![p] = @ \ {k}], where \in {"failed", "list"},
               where = "list" => pointer[k] = None, UNCHANGED <<selected, retained>>
        PROVE  Walked
    <3>1. left'[p] = left[p] \ {k} /\ left' \in [Pruners -> SUBSET (Keys \cup Objects)]
      BY <2>1, <1>4, PruneFacts, <1>1
    <3>2. (where = "list" => left'[p] \subseteq Keys \ selected'[p]) /\ \A q \in Pruners \ {p} : left'[q] = left[q]
      BY <2>1, <3>1, <1>4
    <3>3. where = "list" /\ Quiet => Spared(p)'
      BY <1>1, <1>3, <1>4, <2>1, <3>1 DEF Spared
    <3>4. where = "list" /\ overlapped = {} => RetainedNamed(p)'
      BY <1>1, <1>3, <1>4, <2>1, <3>1 DEF RetainedNamed
    <3> QED BY <1>1, <2>1, <3>1, <3>2, <3>3, <3>4, PruneFacts
  <2>2. ASSUME NEW k \in left[p], left' = [left EXCEPT ![p] = @ \ {k}], where = "list",
               pointer[k] # None, SelectEntry(p, k)
        PROVE  Walked
    <3>1. k \in Keys
      BY <1>4
    <3>2. /\ left'[p] = left[p] \ {k} /\ left' \in [Pruners -> SUBSET (Keys \cup Objects)]
          /\ selected'[p] = selected[p] \cup {k} /\ selected' \in [Pruners -> SUBSET Keys] /\ retained' = retained
      BY <2>2, <3>1, <1>4, PruneFacts, <1>1 DEF SelectEntry
    <3>3. /\ left'[p] \subseteq Keys \ selected'[p]
          /\ \A q \in Pruners \ {p} : left'[q] = left[q] /\ selected'[q] = selected[q] /\ retained'[q] = retained[q]
      BY <2>2, <3>2, <1>4 DEF SelectEntry
    <3>4. Quiet => Spared(p)'
      BY <1>1, <1>3, <1>4, <2>2, <3>2 DEF Spared
    <3>5. overlapped = {} => RetainedNamed(p)'
      BY <1>1, <1>3, <1>4, <2>2, <3>2 DEF RetainedNamed
    <3> QED BY <3>2, <3>3, <3>4, <3>5, <1>1, PruneFacts
  <2>3. ASSUME NEW k \in left[p], left' = [left EXCEPT ![p] = @ \ {k}], where = "list",
               pointer[k] # None, RetainEntry(p, k)
        PROVE  Walked
    <3>1. k \in Keys
      BY <1>4
    <3>2. /\ left'[p] = left[p] \ {k} /\ left' \in [Pruners -> SUBSET (Keys \cup Objects)] /\ selected' = selected
          /\ retained'[p] = retained[p] \cup {pointer[k]} /\ retained' \in [Pruners -> SUBSET Objects]
      BY <2>3, <3>1, <1>4, PruneFacts, <1>1 DEF RetainEntry
    <3>3. /\ left'[p] \subseteq Keys \ selected'[p]
          /\ \A q \in Pruners \ {p} : left'[q] = left[q] /\ selected'[q] = selected[q] /\ retained'[q] = retained[q]
      BY <2>3, <3>2, <1>4 DEF RetainEntry
    <3>4. Quiet => Spared(p)'
      BY <1>1, <1>3, <1>4, <2>3, <3>2 DEF Spared
    <3>5. overlapped = {} => RetainedNamed(p)'
      <4> SUFFICES ASSUME overlapped = {}, NEW o \in retained'[p]
                   PROVE  \E l \in Keys : pointer'[l] = o /\ l \notin left'[p] /\ l \notin selected'[p]
        BY <1>3, <2>3 DEF RetainedNamed
      <4>1. CASE o = pointer[k]
        BY <1>1, <1>4, <3>1, <3>2, <4>1
      <4>2. CASE o \in retained[p]
        BY <1>1, <1>4, <3>2, <4>2 DEF RetainedNamed
      <4> QED BY <3>2, <4>1, <4>2
    <3> QED BY <3>2, <3>3, <3>4, <3>5, <1>1, PruneFacts
  <2>4. ASSUME left[p] = {}, where = "delete", UNCHANGED pruneVars
        PROVE  Walked
    <3>1. left' = left /\ selected' = selected /\ retained' = retained
      BY <2>4 DEF pruneVars
    <3>2. Quiet => Spared(p)'
      BY <1>1, <1>3, <1>4, <2>4, <3>1 DEF Spared
    <3>3. overlapped = {} => RetainedNamed(p)'
      BY <1>1, <1>3, <1>4, <2>4, <3>1 DEF RetainedNamed
    <3> QED BY <1>1, <2>4, <3>1, <3>2, <3>3, PruneFacts
  <2> QED BY <1>2, <2>1, <2>2, <2>3, <2>4
<1>6. Swept(p)' /\ Condemning(p)'
  BY <1>2, <1>3 DEF Swept, Condemning
<1> QED BY <1>1, <1>2, <1>3, <1>5, <1>6, PruneFacts, PruneStep

LEMMA DeleteKeeps ==
  ASSUME CacheAssumption, KeptInv, NEW p \in Pruners, Delete(p) PROVE KeptInv'
<1>1. /\ ~Over(p) /\ at[p] = "delete" /\ lost' = lost /\ retained' = retained
      /\ UNCHANGED <<pointer, content, litter, digest, scanVars, faultsSoFar>>
  BY DEF Delete, Over, cacheFiles
<1>2. at = [at EXCEPT ![p] = "delete"]
  BY <1>1, PruneFacts
<1>3. /\ selected[p] \subseteq Keys /\ retained[p] \subseteq Objects
      /\ Quiet => Spared(p)
      /\ overlapped = {} => RetainedNamed(p)
  BY <1>1, PruneFacts DEF PruneStands
<1>4. ASSUME NEW k \in selected[p], key' = [key EXCEPT ![p] = k], selected' = [selected EXCEPT ![p] = @ \ {k}],
             IF pointer[k] = None THEN UNCHANGED at ELSE Goto(p, "unlink"), left' = left
      PROVE  KeptInv'
  <2> DEFINE where == IF pointer[k] = None THEN "delete" ELSE "unlink"
  <2>1. at' = [at EXCEPT ![p] = where] /\ where \in PruneStations
    BY <1>2, <1>4 DEF Goto, PruneStations
  <2>2. /\ at'[p] = where /\ ~Holds(p)' /\ where \in {"delete", "unlink"} /\ (where = "delete" <=> pointer[k] = None)
    BY <2>1, <1>1, PruneFacts DEF Holds
  <2> HIDE DEF where
  <2>3. /\ key'[p] = k /\ key' \in [Procs -> Keys] /\ \A q \in Procs \ {p} : key'[q] = key[q]
        /\ selected'[p] = selected[p] \ {k} /\ selected' \in [Pruners -> SUBSET Keys]
        /\ \A q \in Pruners \ {p} : selected'[q] = selected[q]
    BY <1>1, <1>3, <1>4, PruneFacts
  <2>4. Quiet => Spared(p)'
    BY <1>1, <1>3, <2>2, <2>3 DEF Spared
  <2>5. overlapped = {} => RetainedNamed(p)'
    BY <1>1, <1>3, <1>4, <2>2, <2>3, PruneFacts DEF RetainedNamed
  <2>6. Swept(p)' /\ Condemning(p)'
    BY <2>2 DEF Swept, Condemning
  <2> QED BY <1>1, <1>4, <2>1, <2>2, <2>3, <2>4, <2>5, <2>6, PruneFacts, PruneStep
<1>5. ASSUME selected[p] = {}, left' = [left EXCEPT ![p] = {o \in Objects : content[o] # "absent"}],
             Goto(p, "sweep"), UNCHANGED <<key, selected>>
      PROVE  KeptInv'
  <2>1. at' = [at EXCEPT ![p] = "sweep"] /\ at'[p] = "sweep" /\ "sweep" \in PruneStations /\ ~Holds(p)'
    BY <1>1, <1>5, PruneFacts DEF Goto, PruneStations, Holds
  <2>2. /\ left'[p] = {o \in Objects : content[o] # "absent"} /\ left' \in [Pruners -> SUBSET (Keys \cup Objects)]
        /\ \A q \in Pruners \ {p} : left'[q] = left[q]
    BY <1>1, <1>5, PruneFacts
  <2>3. Quiet => Spared(p)'
    BY <1>1, <1>3, <1>5, <2>1 DEF Spared
  <2>4. overlapped = {} => RetainedNamed(p)'
    BY <1>1, <1>3, <1>5, <2>1 DEF RetainedNamed
  <2>5. Swept(p)' /\ Condemning(p)'
    BY <1>1, <2>1, <2>2 DEF Swept, Condemning
  <2>6. left'[p] \subseteq Objects
    BY <2>2
  <2> QED BY <1>1, <1>5, <2>1, <2>2, <2>3, <2>4, <2>5, <2>6, PruneFacts, PruneStep
<1> QED BY <1>4, <1>5 DEF Delete

LEMMA DeletePointerKeeps ==
  ASSUME CacheAssumption, KeptInv, NEW p \in Pruners, DeletePointer(p) PROVE KeptInv'
<1>1. /\ ~Over(p) /\ at[p] = "unlink" /\ UNCHANGED <<content, litter, key, digest, scanVars, pruneVars, faultsSoFar>>
      /\ key[p] \in Keys
  BY PruneFacts DEF DeletePointer, Over
<1>2. PICK where \in {"failed", "delete"} :
        /\ at' = [at EXCEPT ![p] = where]
        /\ where = "failed" => UNCHANGED <<pointer, lost>>
        /\ where = "delete" => UnlinkPointer(key[p])
  BY DEF DeletePointer, Goto
<1>3. /\ at'[p] = where /\ where \in PruneStations /\ ~Holds(p)'
      /\ pointer' \in [Keys -> Objects \cup {None}] /\ lost \subseteq lost' /\ lost' \subseteq Procs
      /\ \A k \in Keys : pointer'[k] = (IF k = key[p] /\ where = "delete" THEN None ELSE pointer[k])
  <2>1. at'[p] = where /\ where \in PruneStations /\ ~Holds(p)'
    BY <1>1, <1>2, PruneFacts DEF PruneStations, Holds
  <2>2. CASE where = "failed"
    BY <1>1, <1>2, <2>1, <2>2, PruneFacts
  <2>3. CASE where = "delete"
    BY <1>1, <1>2, <2>1, <2>3, PruneFacts DEF UnlinkPointer, Procs
  <2> QED BY <2>2, <2>3
<1>4. /\ Quiet => Spared(p)
      /\ overlapped = {} => RetainedNamed(p)
  BY <1>1, PruneFacts DEF PruneStands
<1>5. /\ left' = left /\ selected' = selected /\ retained' = retained
  BY <1>1 DEF pruneVars
<1>6. where = "delete" /\ Quiet => Spared(p)'
  BY <1>1, <1>3, <1>4, <1>5 DEF Spared
<1>7. where = "delete" /\ overlapped = {} => RetainedNamed(p)'
  BY <1>1, <1>3, <1>4, <1>5, PruneFacts DEF RetainedNamed
<1>8. Swept(p)' /\ Condemning(p)'
  BY <1>3 DEF Swept, Condemning
<1>9. \A k \in Keys : pointer'[k] \in {pointer[k], None}
  BY <1>3
<1> QED BY <1>1, <1>2, <1>3, <1>5, <1>6, <1>7, <1>8, <1>9, PruneFacts, PruneStep

LEMMA SweepKeeps ==
  ASSUME CacheAssumption, KeptInv, NEW p \in Pruners, Sweep(p) PROVE KeptInv'
<1>1. /\ ~Over(p) /\ at[p] = "sweep" /\ selected' = selected /\ retained' = retained
      /\ UNCHANGED <<pointer, content, litter, key, scanVars, faultsSoFar>>
  BY DEF Sweep, Over, cacheFiles
<1>2. at = [at EXCEPT ![p] = "sweep"]
  BY <1>1, PruneFacts
<1>3. /\ left[p] \subseteq Objects
      /\ Quiet => Spared(p)
      /\ "scan" \notin overlapped => Swept(p)
      /\ overlapped = {} => RetainedNamed(p)
  BY <1>1, PruneFacts DEF PruneStands
<1>4. ASSUME NEW o \in Condemned(p), left' = [left EXCEPT ![p] = @ \ {o}], digest' = [digest EXCEPT ![p] = o],
             lost' = lost \ {p}, IF content[o] = "absent" THEN UNCHANGED at ELSE Goto(p, "dropping")
      PROVE  KeptInv'
  <2> DEFINE where == IF content[o] = "absent" THEN "sweep" ELSE "dropping"
  <2>1. at' = [at EXCEPT ![p] = where] /\ where \in PruneStations
    BY <1>2, <1>4 DEF Goto, PruneStations
  <2>2. /\ at'[p] = where /\ where \in {"sweep", "dropping"} /\ (where = "sweep" <=> content[o] = "absent")
        /\ o \in Objects /\ o \notin retained[p]
    BY <2>1, <1>1, <1>3, <1>4, PruneFacts DEF Condemned
  <2> HIDE DEF where
  <2>3. /\ left'[p] = left[p] \ {o} /\ left'[p] \subseteq Objects /\ left' \in [Pruners -> SUBSET (Keys \cup Objects)]
        /\ \A q \in Pruners \ {p} : left'[q] = left[q]
        /\ digest'[p] = o /\ digest' \in [Procs -> Objects \cup {None}] /\ \A q \in Procs \ {p} : digest'[q] = digest[q]
        /\ lost' \subseteq Procs /\ \A q \in Procs \ {p} : q \notin lost' => q \notin lost
    BY <1>1, <1>3, <1>4, <2>2, PruneFacts
  <2>4. Holds(p)' => content'[digest'[p]] # "absent"
    BY <1>1, <2>2, <2>3 DEF Holds
  <2>5. Quiet => Spared(p)' /\ Condemning(p)'
    BY <1>1, <1>3, <2>2, <2>3 DEF Spared, Condemning
  <2>6. overlapped = {} => RetainedNamed(p)'
    BY <1>1, <1>3, <2>2 DEF RetainedNamed
  <2>7. "scan" \notin overlapped => Swept(p)'
    BY <1>1, <1>3, <2>2, <2>3 DEF Swept
  <2> QED BY <1>1, <2>1, <2>2, <2>3, <2>4, <2>5, <2>6, <2>7, PruneFacts, PruneStep
<1>5. ASSUME Goto(p, "done"), UNCHANGED <<left, digest, lost>>
      PROVE  KeptInv'
  <2>1. at' = [at EXCEPT ![p] = "done"] /\ at'[p] = "done" /\ "done" \in PruneStations /\ ~Holds(p)'
    BY <1>1, <1>5, PruneFacts DEF Goto, PruneStations, Holds
  <2> QED BY <1>1, <1>5, <2>1, PruneFacts, PruneStep
<1> QED BY <1>4, <1>5 DEF Sweep

LEMMA SweepObjectKeeps ==
  ASSUME CacheAssumption, KeptInv, NEW p \in Pruners, SweepObject(p) PROVE KeptInv'
<1>1. /\ ~Over(p) /\ at[p] = "dropping" /\ UNCHANGED <<pointer, litter, key, digest, scanVars, pruneVars, faultsSoFar>>
      /\ digest[p] \in Objects /\ left[p] \subseteq Objects
      /\ left' = left /\ selected' = selected /\ retained' = retained
  BY PruneFacts DEF SweepObject, Over, PruneStands, pruneVars
<1>2. /\ Quiet => Spared(p) /\ Condemning(p)
      /\ "scan" \notin overlapped => Swept(p)
      /\ overlapped = {} => RetainedNamed(p)
  BY <1>1, PruneFacts
<1>3. PICK where \in {"failed", "sweep"} :
        /\ at' = [at EXCEPT ![p] = where]
        /\ \/ where = "sweep" /\ UnlinkObject(digest[p])
           \/ UNCHANGED <<content, lost>> /\ (where = "sweep" => content[digest[p]] = "absent")
  BY DEF SweepObject, Goto
<1>4. at'[p] = where /\ where \in PruneStations /\ ~Holds(p)'
  BY <1>1, <1>3, PruneFacts DEF PruneStations, Holds
<1>5. /\ content' \in [Objects -> {"absent", "good", "bad"}] /\ lost' \subseteq Procs
      /\ \A x \in Objects \ {digest[p]} : content'[x] = content[x]
      /\ content'[digest[p]] \in {content[digest[p]], "absent"}
      /\ where = "sweep" => content'[digest[p]] = "absent"
      /\ \A q \in Procs : Holds(q) /\ q \notin lost' =>
           q \notin lost /\ (content'[digest[q]] = "absent" => content[digest[q]] = "absent")
  <2>1. CASE UnlinkObject(digest[p])
    BY <1>1, <2>1, Unlinks
  <2>2. CASE UNCHANGED <<content, lost>> /\ (where = "sweep" => content[digest[p]] = "absent")
    BY <1>1, <2>2, PruneFacts
  <2> QED BY <1>3, <2>1, <2>2
<1>6. Quiet => Spared(p)' /\ Condemning(p)'
  BY <1>1, <1>2, <1>4 DEF Spared, Condemning
<1>7. overlapped = {} => RetainedNamed(p)'
  BY <1>1, <1>2, <1>4 DEF RetainedNamed
<1>8. "scan" \notin overlapped /\ where = "sweep" => Swept(p)'
  BY <1>1, <1>2, <1>4, <1>5 DEF Swept
<1>9. \A o \in Objects : content'[o] \in {content[o], "absent"}
  BY <1>5
<1>10. Quiet => \A k \in Keys : pointer'[k] # None => content'[pointer'[k]] = content[pointer'[k]]
  <2> SUFFICES ASSUME Quiet, NEW k \in Keys, pointer[k] # None
               PROVE  content'[pointer[k]] = content[pointer[k]]
    BY <1>1
  <2>1. pointer[k] \in retained[p] /\ digest[p] \notin retained[p] /\ pointer[k] \in Objects
    BY <1>1, <1>2, PruneFacts DEF Spared, Condemning
  <2> QED BY <1>5, <2>1
<1>11. /\ pointer' \in [Keys -> Objects \cup {None}] /\ key' \in [Procs -> Keys]
       /\ digest' \in [Procs -> Objects \cup {None}]
       /\ left' \in [Pruners -> SUBSET (Keys \cup Objects)] /\ selected' \in [Pruners -> SUBSET Keys]
       /\ retained' \in [Pruners -> SUBSET Objects]
  BY <1>1, PruneFacts
<1> QED BY <1>1, <1>3, <1>4, <1>5, <1>6, <1>7, <1>8, <1>9, <1>10, <1>11, PruneStep

LEMMA PruneKeeps ==
  ASSUME CacheAssumption, KeptInv, NEW p \in Pruners, Prune(p) PROVE KeptInv'
BY ListKeeps, DeleteKeeps, DeletePointerKeeps, SweepKeeps, SweepObjectKeeps DEF Prune

\* A scan starts: nothing is claimed any more of prunes, if it meets one.
LEMMA BeginKeeps ==
  ASSUME CacheAssumption, KeptInv, NEW s \in Scans, Begin(s) PROVE KeptInv'
<1>1. /\ Over(s) /\ at' = [at EXCEPT ![s] = "load"] /\ digest' = [digest EXCEPT ![s] = None]
      /\ value' = [value EXCEPT ![s] = "none"]
      /\ UNCHANGED <<pointer, content, litter, lost, reason, left, selected, retained, rots, crashes>>
      /\ \E k \in Keys : key' = [key EXCEPT ![s] = k]
      /\ overlapped' = overlapped \cup Beside(s)
  BY DEF Begin, Goto, Enter, cacheFiles, pruneVars
<1>2. CacheTypeOK /\ s \in Procs /\ s \notin Pruners
  BY DEF KeptInv, Procs, CacheAssumption, ProcsAssumption
<1>3. /\ at'[s] = "load" /\ digest'[s] = None /\ value'[s] = "none" /\ "load" \in States
      /\ \A q \in Procs \ {s} : at'[q] = at[q] /\ digest'[q] = digest[q] /\ key'[q] = key[q]
      /\ \A r \in Scans \ {s} : value'[r] = value[r]
      /\ key' \in [Procs -> Keys]
  BY <1>1, <1>2 DEF CacheTypeOK, States
<1>4. Beside(s) \subseteq {"scan", "prune"} /\ (Active(Pruners) # {} => "scan" \in Beside(s))
  BY DEF Beside
<1>5. CacheTypeOK'
  BY <1>1, <1>2, <1>3, <1>4 DEF CacheTypeOK
<1>6. Active(Pruners)' = Active(Pruners)
  BY <1>2, <1>3 DEF Active, Over, Procs
<1>7. Stations' /\ Reasons'
  <2>1. \A r \in Scans : ScanStands(r)'
    <3>1. \A r \in Scans \ {s} : ScanStands(r)'
      BY <1>1, <1>3, CacheParts DEF KeptInv, ScanStands, Procs
    <3>2. ScanStands(s)'
      BY <1>3 DEF ScanStands
    <3> QED BY <3>1, <3>2
  <2>2. \A p \in Pruners : PruneStands(p)'
    BY <1>1, <1>2, <1>3, CacheParts DEF KeptInv, PruneStands, Procs
  <2> QED BY <2>1, <2>2, Zenon DEF Stations, Reasons, ScanStands, PruneStands, PruneStations
<1>8. Held'
  BY <1>1, <1>3 DEF KeptInv, Held, Holds
<1>9. "scan" \notin overlapped' => "scan" \notin overlapped /\ Active(Pruners)' = {}
  BY <1>1, <1>4, <1>6
<1>10. Apart'
  BY <1>9 DEF Apart
<1>11. WhileQuiet'
  <2> SUFFICES ASSUME Quiet'
               PROVE  /\ ScansQuiet' /\ (\A o \in Objects : content'[o] # "bad")
                      /\ (\A k \in Keys : ~Dangling(k)') /\ Active(Pruners)' = {}
    BY Zenon DEF WhileQuiet
  <2>1. Quiet /\ Active(Pruners)' = {}
    BY <1>1, <1>9 DEF Quiet
  <2>2. \A r \in Scans : ScanQuiet(r)'
    <3>1. \A r \in Scans : ScanQuiet(r)
      BY <2>1, CacheParts DEF KeptInv, WhileQuiet
    <3>2. \A r \in Scans \ {s} : ScanQuiet(r)'
      BY <1>1, <1>3, <3>1 DEF ScanQuiet, GoodInHand, Procs
    <3>3. ScanQuiet(s)'
      BY <1>1, <1>3, <3>1 DEF ScanQuiet, GoodInHand
    <3> QED BY <3>2, <3>3
  <2>3. ScansQuiet'
    BY <2>2, Zenon DEF ScansQuiet, ScanQuiet
  <2>4. (\A o \in Objects : content'[o] # "bad") /\ (\A k \in Keys : ~Dangling(k)')
    BY <1>1, <2>1 DEF KeptInv, WhileQuiet, Dangling
  <2> QED BY <2>1, <2>3, <2>4
<1>12. WhileApart' /\ WhileAlone'
  BY <1>9 DEF WhileApart, WhileAlone
<1> QED BY <1>5, <1>7, <1>8, <1>10, <1>11, <1>12 DEF KeptInv

\* A prune starts with every key to list.
LEMMA BeginPruneKeeps ==
  ASSUME CacheAssumption, KeptInv, NEW p \in Pruners, BeginPrune(p) PROVE KeptInv'
<1>1. /\ Over(p) /\ at' = [at EXCEPT ![p] = "list"] /\ left' = [left EXCEPT ![p] = Keys]
      /\ selected' = [selected EXCEPT ![p] = {}] /\ retained' = [retained EXCEPT ![p] = {}]
      /\ UNCHANGED <<pointer, content, litter, key, digest, lost, reason, value, rots, crashes>>
      /\ overlapped' = overlapped \cup Beside(p)
  BY DEF BeginPrune, Goto, Enter, cacheFiles, scanVars
<1>2. CacheTypeOK /\ p \in Procs /\ p \notin Scans
  BY DEF KeptInv, Procs, CacheAssumption, ProcsAssumption
<1>3. /\ at'[p] = "list" /\ left'[p] = Keys /\ selected'[p] = {} /\ retained'[p] = {} /\ "list" \in States
      /\ \A q \in Procs \ {p} : at'[q] = at[q]
      /\ \A q \in Pruners \ {p} : left'[q] = left[q] /\ selected'[q] = selected[q] /\ retained'[q] = retained[q]
  BY <1>1, <1>2 DEF CacheTypeOK, States
<1>4. /\ Beside(p) \subseteq {"scan", "prune"} /\ (Active(Scans) # {} => "scan" \in Beside(p))
      /\ Active(Pruners \ {p}) # {} => "prune" \in Beside(p)
  BY <1>2 DEF Beside
<1>5. CacheTypeOK'
  BY <1>1, <1>2, <1>3, <1>4 DEF CacheTypeOK
<1>6. /\ Active(Scans)' = Active(Scans)
      /\ \A q \in Active(Pruners)' : q = p \/ q \in Active(Pruners \ {p})
      /\ Active(Pruners \ {p}) \subseteq Active(Pruners)
  BY <1>2, <1>3 DEF Active, Over, Procs
<1>7. Stations' /\ Reasons'
  <2>1. \A r \in Scans : ScanStands(r)'
    BY <1>1, <1>2, <1>3, CacheParts DEF KeptInv, ScanStands, Procs
  <2>2. \A q \in Pruners : PruneStands(q)'
    <3>1. \A q \in Pruners \ {p} : PruneStands(q)'
      BY <1>1, <1>3, CacheParts DEF KeptInv, PruneStands, Procs
    <3>2. PruneStands(p)'
      BY <1>3 DEF PruneStands, PruneStations
    <3> QED BY <3>1, <3>2
  <2> QED BY <2>1, <2>2, Zenon DEF Stations, Reasons, ScanStands, PruneStands, PruneStations
<1>8. Held'
  BY <1>1, <1>3 DEF KeptInv, Held, Holds
<1>9. /\ "scan" \notin overlapped' => "scan" \notin overlapped /\ Active(Scans)' = {}
      /\ overlapped' = {} => overlapped = {} /\ Active(Pruners \ {p}) = {}
  BY <1>1, <1>4, <1>6
<1>10. Apart'
  BY <1>9 DEF Apart
<1>11. ASSUME NEW q \in Active(Pruners)', q # p
       PROVE  /\ q \in Active(Pruners) /\ q \in Pruners /\ at'[q] = at[q] /\ left'[q] = left[q]
              /\ selected'[q] = selected[q] /\ retained'[q] = retained[q]
  BY <1>3, <1>6, <1>11 DEF Active, Procs
<1>12. WhileQuiet'
  <2> SUFFICES ASSUME Quiet'
               PROVE  /\ ScansQuiet' /\ (\A o \in Objects : content'[o] # "bad")
                      /\ (\A k \in Keys : ~Dangling(k)') /\ \A q \in Active(Pruners)' : Spared(q)' /\ Condemning(q)'
    BY Zenon DEF WhileQuiet
  <2>1. Quiet
    BY <1>1, <1>9 DEF Quiet
  <2>2. \A r \in Scans : ScanQuiet(r)'
    <3>1. \A r \in Scans : ScanQuiet(r)
      BY <2>1, CacheParts DEF KeptInv, WhileQuiet
    <3> QED BY <1>1, <1>2, <1>3, <3>1 DEF ScanQuiet, GoodInHand, Procs
  <2>3. ScansQuiet'
    BY <2>2, Zenon DEF ScansQuiet, ScanQuiet
  <2>4. (\A o \in Objects : content'[o] # "bad") /\ (\A k \in Keys : ~Dangling(k)')
    BY <1>1, <2>1 DEF KeptInv, WhileQuiet, Dangling
  <2>5. ASSUME NEW q \in Active(Pruners)', q # p
        PROVE  Spared(q)' /\ Condemning(q)'
    <3>1. Spared(q) /\ Condemning(q)
      BY <1>11, <2>1, <2>5 DEF KeptInv, WhileQuiet
    <3> QED BY <1>1, <1>11, <2>5, <3>1 DEF Spared, Condemning
  <2>6. Spared(p)' /\ Condemning(p)'
    BY <1>3 DEF Spared, Condemning
  <2> QED BY <2>3, <2>4, <2>5, <2>6
<1>13. WhileApart'
  <2> SUFFICES ASSUME "scan" \notin overlapped', NEW q \in Active(Pruners)'
               PROVE  Swept(q)'
    BY DEF WhileApart
  <2>1. CASE q = p
    BY <1>3, <2>1 DEF Swept
  <2>2. CASE q # p
    <3>1. Swept(q)
      BY <1>9, <1>11, <2>2 DEF KeptInv, WhileApart
    <3> QED BY <1>1, <1>11, <2>2, <3>1 DEF Swept
  <2> QED BY <2>1, <2>2
<1>14. WhileAlone'
  <2> SUFFICES ASSUME overlapped' = {}
               PROVE  (\A q, r \in Active(Pruners)' : q = r) /\ \A q \in Active(Pruners)' : RetainedNamed(q)'
    BY DEF WhileAlone
  <2>1. \A q \in Active(Pruners)' : q = p
    BY <1>6, <1>9
  <2>2. RetainedNamed(p)'
    BY <1>3 DEF RetainedNamed
  <2> QED BY <2>1, <2>2
<1> QED BY <1>5, <1>7, <1>8, <1>10, <1>12, <1>13, <1>14 DEF KeptInv

LEMMA RotKeeps ==
  ASSUME CacheAssumption, KeptInv, Rot PROVE KeptInv'
<1>1. /\ rots' = rots + 1 /\ rots < MaxRots
      /\ UNCHANGED <<pointer, litter, at, key, digest, lost, reason, value, left, selected, retained, crashes, overlapped>>
  BY DEF Rot, scanVars, pruneVars
<1>2. PICK o \in Objects : content[o] = "good" /\ content' = [content EXCEPT ![o] = "bad"]
  BY DEF Rot
<1>3. CacheTypeOK /\ rots \in Nat /\ MaxRots \in Nat
  BY DEF KeptInv, CacheTypeOK, CacheAssumption, BoundsAssumption
<1>4. /\ content' \in [Objects -> {"absent", "good", "bad"}]
      /\ \A x \in Objects : content'[x] = "absent" <=> content[x] = "absent"
  BY <1>2, <1>3 DEF CacheTypeOK
<1>5. CacheTypeOK'
  BY <1>1, <1>3, <1>4 DEF CacheTypeOK
<1>6. Stations' /\ Reasons' /\ Apart'
  BY <1>1 DEF KeptInv, Stations, Reasons, Apart, Active, Over
<1>7. Held'
  <2> SUFFICES ASSUME NEW q \in Procs, Holds(q), q \notin lost PROVE content'[digest[q]] # "absent"
    BY <1>1 DEF Held, Holds
  <2>1. digest[q] \in Objects /\ content[digest[q]] # "absent"
    BY HoldsObject DEF KeptInv, Held
  <2> QED BY <1>4, <2>1
<1>8. ~Quiet'
  BY <1>1, <1>3 DEF Quiet
<1>9. WhileQuiet'
  BY <1>8 DEF WhileQuiet
<1>10. WhileApart'
  BY <1>1, <1>4 DEF KeptInv, WhileApart, Active, Over, Swept
<1>11. WhileAlone'
  BY <1>1 DEF KeptInv, WhileAlone, Active, Over, RetainedNamed
<1> QED BY <1>5, <1>6, <1>7, <1>9, <1>10, <1>11 DEF KeptInv

LEMMA CrashKeeps ==
  ASSUME CacheAssumption, KeptInv, NEW p \in Procs, Crash(p) PROVE KeptInv'
<1>1. /\ crashes' = crashes + 1 /\ crashes < MaxCrashes /\ at' = [at EXCEPT ![p] = "idle"]
      /\ litter' = litter \cup {k \in {key[p]} : at[p] \in {"temp", "install", "cleanup"}}
      /\ value' = [s \in Scans |-> IF s = p THEN "none" ELSE value[s]]
      /\ UNCHANGED <<pointer, content, key, digest, lost, reason, left, selected, retained, rots, overlapped>>
  BY DEF Crash, Goto, pruneVars
<1>2. CacheTypeOK /\ crashes \in Nat /\ MaxCrashes \in Nat /\ key[p] \in Keys
  BY DEF KeptInv, CacheTypeOK, CacheAssumption, BoundsAssumption
<1>3. at'[p] = "idle" /\ "idle" \in States /\ \A q \in Procs \ {p} : at'[q] = at[q]
  BY <1>1, <1>2 DEF CacheTypeOK, States
<1>4. CacheTypeOK'
  BY <1>1, <1>2, <1>3 DEF CacheTypeOK
<1>5. /\ Active(Scans)' \subseteq Active(Scans)
      /\ \A q \in Active(Pruners)' : q \in Active(Pruners) /\ at'[q] = at[q]
  BY <1>3 DEF Active, Over, Procs
<1>6. Stations' /\ Reasons'
  <2>1. \A r \in Scans : ScanStands(r)'
    <3> SUFFICES ASSUME NEW r \in Scans PROVE ScanStands(r)'
      OBVIOUS
    <3>1. CASE r = p
      BY <1>3, <3>1 DEF ScanStands
    <3>2. CASE r # p
      BY <1>1, <1>3, <3>2, CacheParts DEF KeptInv, ScanStands, Procs
    <3> QED BY <3>1, <3>2
  <2>2. \A q \in Pruners : PruneStands(q)'
    <3> SUFFICES ASSUME NEW q \in Pruners PROVE PruneStands(q)'
      OBVIOUS
    <3>1. CASE q = p
      BY <1>3, <3>1 DEF PruneStands, PruneStations
    <3>2. CASE q # p
      BY <1>1, <1>3, <3>2, CacheParts DEF KeptInv, PruneStands, Procs
    <3> QED BY <3>1, <3>2
  <2> QED BY <2>1, <2>2, Zenon DEF Stations, Reasons, ScanStands, PruneStands, PruneStations
<1>7. Held'
  BY <1>1, <1>3 DEF KeptInv, Held, Holds
<1>8. Apart'
  BY <1>1, <1>5 DEF KeptInv, Apart
<1>9. WhileQuiet'
  <2> SUFFICES ASSUME Quiet
               PROVE  /\ ScansQuiet' /\ (\A o \in Objects : content'[o] # "bad")
                      /\ (\A k \in Keys : ~Dangling(k)') /\ \A q \in Active(Pruners)' : Spared(q)' /\ Condemning(q)'
    BY <1>1, Zenon DEF WhileQuiet, Quiet
  <2>1. \A r \in Scans : ScanQuiet(r)'
    <3> SUFFICES ASSUME NEW r \in Scans PROVE ScanQuiet(r)'
      OBVIOUS
    <3>1. ScanQuiet(r)
      BY CacheParts DEF KeptInv, WhileQuiet
    <3>2. CASE r = p
      BY <1>1, <1>3, <3>1, <3>2 DEF ScanQuiet, GoodInHand
    <3>3. CASE r # p
      BY <1>1, <1>3, <3>1, <3>3 DEF ScanQuiet, GoodInHand, Procs
    <3> QED BY <3>2, <3>3
  <2>2. ScansQuiet'
    BY <2>1, Zenon DEF ScansQuiet, ScanQuiet
  <2>3. (\A o \in Objects : content'[o] # "bad") /\ (\A k \in Keys : ~Dangling(k)')
    BY <1>1 DEF KeptInv, WhileQuiet, Dangling
  <2>4. \A q \in Active(Pruners)' : Spared(q)' /\ Condemning(q)'
    BY <1>1, <1>5 DEF KeptInv, WhileQuiet, Spared, Condemning
  <2> QED BY <2>2, <2>3, <2>4
<1>10. WhileApart'
  BY <1>1, <1>5 DEF KeptInv, WhileApart, Swept
<1>11. WhileAlone'
  BY <1>1, <1>5 DEF KeptInv, WhileAlone, RetainedNamed
<1> QED BY <1>4, <1>6, <1>7, <1>8, <1>9, <1>10, <1>11 DEF KeptInv

LEMMA CacheInitKept ==
  ASSUME CacheAssumption, Keys # {}, CacheInit PROVE KeptInv
<1>1. CacheTypeOK
  <2>1. (CHOOSE k \in Keys : TRUE) \in Keys
    OBVIOUS
  <2> QED BY <2>1 DEF CacheTypeOK, CacheInit, States, CacheAssumption, BoundsAssumption
<1>2. \A q \in Procs : at[q] = "idle"
  BY DEF CacheInit
<1>3. Active(Pruners) = {} /\ Active(Scans) = {}
  BY <1>2 DEF Active, Over, Procs
<1>4. (\A s \in Scans : ScanStands(s)) /\ (\A p \in Pruners : PruneStands(p))
  BY <1>2 DEF ScanStands, PruneStands, PruneStations, Procs
<1>5. Stations /\ Reasons
  BY <1>4, CacheParts
<1>6. Held /\ Apart
  BY <1>2, <1>3 DEF Held, Holds, Apart
<1>7. WhileQuiet
  <2>1. \A s \in Scans : ScanQuiet(s)
    BY <1>2 DEF ScanQuiet, GoodInHand, CacheInit, Procs
  <2>2. \A o \in Objects : content[o] # "bad"
    BY DEF CacheInit
  <2>3. \A k \in Keys : ~Dangling(k)
    BY DEF Dangling, CacheInit
  <2> QED BY <1>3, <2>1, <2>2, <2>3, CacheParts DEF WhileQuiet
<1>8. WhileApart /\ WhileAlone
  BY <1>3 DEF WhileApart, WhileAlone
<1> QED BY <1>1, <1>5, <1>6, <1>7, <1>8 DEF KeptInv

LEMMA CacheNextKeeps ==
  ASSUME CacheAssumption, KeptInv, [CacheNext]_cacheVars PROVE KeptInv'
<1>1. CASE UNCHANGED cacheVars
  <2>1. /\ UNCHANGED <<pointer, content, litter, at, key, digest, lost, reason, value, left, selected, retained>>
        /\ UNCHANGED <<rots, crashes, overlapped>>
    BY <1>1 DEF cacheVars, cacheFiles, scanVars, pruneVars, faultsSoFar
  <2>2. CacheTypeOK' /\ Stations' /\ Reasons' /\ Held'
    BY <2>1 DEF KeptInv, CacheTypeOK, Stations, Reasons, Held, Holds
  <2>3. Apart' /\ WhileApart' /\ WhileAlone'
    BY <2>1 DEF KeptInv, Apart, WhileApart, WhileAlone, Active, Over, Swept, RetainedNamed
  <2>4. WhileQuiet'
    BY <2>1 DEF KeptInv, WhileQuiet, Quiet, ScansQuiet, GoodInHand, Active, Over, Dangling, Spared, Condemning
  <2> QED BY <2>2, <2>3, <2>4 DEF KeptInv
<1>2. CASE CacheNext
  BY <1>2, BeginKeeps, ScanKeeps, BeginPruneKeeps, PruneKeeps, RotKeeps, CrashKeeps DEF CacheNext
<1> QED BY <1>1, <1>2

LEMMA KeptSound == KeptInv => CacheSound
<1> SUFFICES ASSUME KeptInv PROVE CacheSound
  OBVIOUS
<1>1. HitsAreGenuine
  BY DEF KeptInv, Reasons, HitsAreGenuine
<1>2. NoDanglingPointer
  <2>1. rots \in Nat
    BY DEF KeptInv, CacheTypeOK
  <2> QED BY <2>1 DEF KeptInv, WhileQuiet, Quiet, NoDanglingPointer
<1> QED BY <1>1, <1>2 DEF KeptInv, CacheSound

\* However scans, prunes, deaths and bad storage interleave, what a stage passes on
\* has been verified, and a prune that met no scan leaves no pointer without its
\* object (StageCache.Load, readPayload, `rkc cache prune`).
THEOREM CacheKept ==
  ASSUME CacheAssumption, Keys # {} PROVE CacheSpec => []CacheSound
<1>1. CacheInit => KeptInv
  BY CacheInitKept
<1>2. KeptInv /\ [CacheNext]_cacheVars => KeptInv'
  BY CacheNextKeeps
<1> QED BY <1>1, <1>2, KeptSound, PTL DEF CacheSpec

\* A step of a process moves no other process.
LEMMA MovesOne ==
  ASSUME KeptInv, NEW p \in Procs, NEW q \in Procs, q # p,
         \/ p \in Scans /\ (Begin(p) \/ Scan(p))
         \/ p \in Pruners /\ (BeginPrune(p) \/ Prune(p))
         \/ Crash(p)
  PROVE  at'[q] = at[q]
<1>1. at \in [Procs -> States]
  BY DEF KeptInv, CacheTypeOK
<1>2. ASSUME NEW where, Goto(p, where) PROVE at'[q] = at[q]
  BY <1>1, <1>2 DEF Goto
<1>3. CASE Begin(p)
  BY <1>2, <1>3 DEF Begin
<1>4. CASE Scan(p)
  <2>1. CASE OpenPointer(p) \/ ReadPointer(p) \/ OpenObject(p) \/ ReadObject(p) \/ Discard(p)
    BY <1>2, <2>1 DEF OpenPointer, ReadPointer, OpenObject, ReadObject, Discard
  <2>2. CASE RemovePointer(p) \/ DropObject(p) \/ RemoveObject(p) \/ Run(p) \/ Link(p)
    BY <1>2, <2>2 DEF RemovePointer, DropObject, RemoveObject, Run, Link
  <2>3. CASE Linked(p) \/ Ran(p) \/ Compare(p) \/ Install(p) \/ Cleanup(p)
    BY <1>2, <2>3 DEF Linked, Ran, Compare, Install, Cleanup
  <2> QED BY <1>4, <2>1, <2>2, <2>3 DEF Scan
<1>5. CASE BeginPrune(p)
  BY <1>2, <1>5 DEF BeginPrune
<1>6. CASE Prune(p)
  BY <1>2, <1>6 DEF Prune, List, Delete, DeletePointer, Sweep, SweepObject
<1>7. CASE Crash(p)
  BY <1>2, <1>7 DEF Crash
<1> QED BY <1>3, <1>4, <1>5, <1>6, <1>7

\* Who moves has taken the step.
LEMMA WhoMoves ==
  ASSUME KeptInv, CacheNext, NEW q \in Procs, at'[q] # at[q]
  PROVE  \/ q \in Scans /\ (Begin(q) \/ Scan(q))
         \/ q \in Pruners /\ (BeginPrune(q) \/ Prune(q))
         \/ Crash(q)
<1>1. ~Rot
  BY DEF Rot
<1>2. PICK p \in Procs : \/ p \in Scans /\ (Begin(p) \/ Scan(p))
                         \/ p \in Pruners /\ (BeginPrune(p) \/ Prune(p))
                         \/ Crash(p)
  BY <1>1 DEF CacheNext, Procs
<1>3. p = q
  BY <1>2, MovesOne
<1> QED BY <1>2, <1>3

LEMMA StepKeepsPointer ==
  ASSUME CacheAssumption, KeptInv, CacheNext PROVE PointerKept
<1> SUFFICES ASSUME NEW k \in Keys, pointer[k] # None PROVE pointer'[k] \in {pointer[k], None}
  BY DEF PointerKept
<1>1. pointer \in [Keys -> Objects \cup {None}]
  BY DEF KeptInv, CacheTypeOK
<1>2. ASSUME NEW l, UnlinkPointer(l) PROVE pointer'[k] \in {pointer[k], None}
  BY <1>1, <1>2 DEF UnlinkPointer
<1>3. ASSUME NEW s \in Scans, Begin(s) \/ Scan(s) PROVE pointer'[k] \in {pointer[k], None}
  <2>1. CASE RemovePointer(s)
    BY <1>2, <2>1 DEF RemovePointer
  <2>2. CASE Install(s)
    BY <1>1, <2>2 DEF Install
  <2>3. CASE Begin(s) \/ OpenPointer(s) \/ ReadPointer(s) \/ OpenObject(s) \/ ReadObject(s) \/ Discard(s) \/ DropObject(s)
    BY <2>3 DEF Begin, OpenPointer, ReadPointer, OpenObject, ReadObject, Discard, DropObject, cacheFiles
  <2>4. CASE RemoveObject(s) \/ Run(s) \/ Link(s) \/ Linked(s) \/ Ran(s) \/ Compare(s) \/ Cleanup(s)
    BY <2>4 DEF RemoveObject, Run, Link, Linked, Ran, Compare, Cleanup, cacheFiles
  <2> QED BY <1>3, <2>1, <2>2, <2>3, <2>4 DEF Scan
<1>4. ASSUME NEW p \in Pruners, BeginPrune(p) \/ Prune(p) PROVE pointer'[k] \in {pointer[k], None}
  <2>1. CASE DeletePointer(p)
    BY <1>2, <2>1 DEF DeletePointer
  <2>2. CASE BeginPrune(p) \/ List(p) \/ Delete(p) \/ Sweep(p) \/ SweepObject(p)
    BY <2>2 DEF BeginPrune, List, Delete, Sweep, SweepObject, cacheFiles
  <2> QED BY <1>4, <2>1, <2>2 DEF Prune
<1>5. ASSUME Rot \/ \E p \in Procs : Crash(p) PROVE pointer'[k] \in {pointer[k], None}
  BY <1>5 DEF Rot, Crash
<1> QED BY <1>3, <1>4, <1>5 DEF CacheNext

LEMMA StepCollects ==
  ASSUME CacheAssumption, KeptInv, CacheNext PROVE Collected
<1> SUFFICES ASSUME NEW p \in Pruners, at[p] = "sweep", at'[p] = "done", overlapped = {}, NEW o \in Objects
             PROVE  content[o] = "absent" \/ \E k \in Keys : pointer[k] = o
  BY DEF Collected
<1>1. ~Over(p) /\ p \in Procs /\ p \notin Scans
  BY DEF Over, Procs, CacheAssumption, ProcsAssumption
<1>2. at \in [Procs -> States]
  BY DEF KeptInv, CacheTypeOK
<1>3. BeginPrune(p) \/ Prune(p)
  <2>1. ~Crash(p)
    BY <1>1, <1>2 DEF Crash, Goto
  <2> QED BY <1>1, <2>1, WhoMoves
<1>4. Sweep(p)
  BY <1>1, <1>3 DEF BeginPrune, Prune, List, Delete, DeletePointer, SweepObject
<1>5. Condemned(p) = {}
  BY <1>1, <1>2, <1>4 DEF Sweep, Goto
<1>6. Swept(p) /\ RetainedNamed(p)
  BY <1>1, PruneFacts
<1>7. content[o] = "absent" \/ o \in retained[p]
  BY <1>5, <1>6 DEF Swept, Condemned
<1> QED BY <1>6, <1>7 DEF RetainedNamed

LEMMA StepExplainsFailure ==
  ASSUME CacheAssumption, KeptInv, CacheNext PROVE FailuresExplained
<1> SUFFICES ASSUME NEW s \in Scans, at[s] # "failed", at'[s] = "failed", Quiet
             PROVE  pointer[key[s]] \notin {None, digest[s]}
  <2>1. rots \in Nat
    BY DEF KeptInv, CacheTypeOK
  <2> QED BY <2>1 DEF FailuresExplained, Quiet
<1>1. s \in Procs /\ s \notin Pruners /\ at \in [Procs -> States]
  BY DEF Procs, CacheAssumption, ProcsAssumption, KeptInv, CacheTypeOK
<1>2. ASSUME NEW where, Goto(s, where) PROVE where = "failed"
  BY <1>1, <1>2 DEF Goto
<1>3. Scan(s)
  <2>1. ~Crash(s) /\ ~Begin(s)
    BY <1>2 DEF Crash, Begin
  <2> QED BY <1>1, <2>1, WhoMoves
<1>4. ScanQuiet(s) /\ ScanStands(s)
  BY ScanFacts
<1>5. ~(Discard(s) \/ RemovePointer(s) \/ DropObject(s) \/ RemoveObject(s))
  BY <1>4 DEF ScanQuiet, Discard, RemovePointer, DropObject, RemoveObject
<1>6. ~(OpenPointer(s) \/ Run(s) \/ Link(s) \/ Ran(s) \/ Cleanup(s))
  BY <1>2 DEF OpenPointer, Run, Link, Ran, Cleanup
<1>7. ~(ReadPointer(s) \/ Linked(s))
  BY <1>2, <1>4 DEF ReadPointer, Linked, ScanQuiet
<1>8. ~OpenObject(s)
  <2> SUFFICES ASSUME OpenObject(s) PROVE FALSE
    OBVIOUS
  <2>1. at[s] = "open" /\ reason[s] \in {"load", "restore", "put", "store"} /\ digest[s] \in Objects
    BY <1>4, ScanFacts DEF OpenObject, ScanStands
  <2>2. content[digest[s]] = "absent" /\ AfterRead(reason[s], "absent") = "failed"
    BY <1>2 DEF OpenObject
  <2>3. reason[s] = "put"
    BY <1>4, <2>1, <2>2 DEF ScanQuiet, GoodInHand
  <2> QED BY <2>2, <2>3 DEF AfterRead, PutNext
<1>9. ~ReadObject(s)
  <2> SUFFICES ASSUME ReadObject(s) PROVE FALSE
    OBVIOUS
  <2>1. at[s] = "hash" /\ reason[s] \in {"load", "restore", "put", "store"}
    BY <1>4, ScanFacts DEF ReadObject, ScanStands
  <2>2. s \notin lost /\ content[digest[s]] = "good"
    BY <1>4, <2>1 DEF ScanQuiet, GoodInHand
  <2>3. AfterRead(reason[s], "good") = "failed"
    BY <1>2, <2>2 DEF ReadObject
  <2> QED BY <2>1, <2>3 DEF AfterRead, LoadNext, RestoreNext, PutNext, StoreNext
<1>10. Compare(s) \/ Install(s)
  BY <1>3, <1>5, <1>6, <1>7, <1>8, <1>9 DEF Scan
<1>11. CASE Compare(s)
  BY <1>2, <1>11 DEF Compare, Agrees
<1>12. CASE Install(s)
  BY <1>2, <1>12 DEF Install, Agrees
<1> QED BY <1>10, <1>11, <1>12

\* No step exchanges a pointer, a prune that met nobody deletes every object no
\* pointer names, and no scan fails but beside a prune, over bad storage, or because
\* its key holds another payload (Put, FileCache.Store).
THEOREM CacheSteps ==
  ASSUME CacheAssumption, Keys # {} PROVE CacheSpec => CacheStepsSound
<1>1. CacheInit => KeptInv
  BY CacheInitKept
<1>2. KeptInv /\ [CacheNext]_cacheVars => KeptInv'
  BY CacheNextKeeps
<1>3. KeptInv /\ [CacheNext]_cacheVars => [PointerKept /\ Collected /\ FailuresExplained]_cacheVars
  BY StepKeepsPointer, StepCollects, StepExplainsFailure
<1> QED BY <1>1, <1>2, <1>3, PTL DEF CacheSpec, CacheStepsSound
=============================================================================
