----------------------------- MODULE MCPipeline -----------------------------
(* Instances for TLC of the staged pipeline: its scans, and the cache below   *)
(* them in five scenarios.  A behaviour exercises one, `part' says which; the *)
(* variables of the other stay as they are.                                   *)
EXTENDS StagedScan, StageCache, TLC

CONSTANTS a, b, c, p, k1, k2, o1, o2

VARIABLE part

\* Two files that several adapters read.
GoAndPython == [f \in Files |-> IF f = 1 THEN "go" ELSE "python"]

\* Two keys may share a payload; the stage of k1 does not always produce it.
Shared == [k \in {k1, k2} |-> IF k = k1 THEN {o1, o2} ELSE {o1}]

\* What a scenario does without: scans, beyond a number of them, and prunes; the
\* other key; the other payload; faults.
Unused(s) == at[s] = "idle" /\ key[s] = k1 /\ digest[s] = None /\ reason[s] = "load" /\ value[s] = "none"
AtMost(n) == Cardinality({s \in Scans : ~Unused(s)}) <= n
NoPrune == at[p] = "idle"
OneKey == \A q \in Procs : key[q] = k1
OnePayload == \A q \in Procs : digest[q] # o2
NoFault == rots = 0 /\ crashes = 0

\* Two scans of one key beside a prune.
Race == AtMost(2) /\ OneKey /\ NoFault

\* Two scans, or a scan and a prune, of one key whose object is corrupted.
Rotten == AtMost(2) /\ OneKey /\ NoPrune /\ crashes = 0
RottenPruned == AtMost(1) /\ OneKey /\ crashes = 0

\* One scan of two keys with one object beside prunes that die.
Pruned == AtMost(1) /\ OnePayload /\ rots = 0

\* Two edits, or an edit and a failing adapter, in two scans of the sources.
TwoIncidents == edits + failures <= 2

\* Three scans of two stages with equal outputs; one of them may die.
Scanned == NoPrune /\ OnePayload /\ rots = 0

ASSUME PipelineAssumption == CacheAssumption

MCInit == Init /\ CacheInit /\ part \in {"staged", "race", "rot", "rot prune", "prune", "scans"}

MCNext ==
  /\ UNCHANGED part
  /\ \/ part = "staged" /\ Next /\ TwoIncidents' /\ UNCHANGED cacheVars
     \/ /\ part # "staged" /\ CacheNext /\ UNCHANGED vars
        /\ part = "race" => Race'
        /\ part = "rot" => Rotten'
        /\ part = "rot prune" => RottenPruned'
        /\ part = "prune" => Pruned'
        /\ part = "scans" => Scanned'

MCSpec == MCInit /\ [][MCNext]_<<part, vars, cacheVars>>

\* The scans alone.
StagedSpec ==
  /\ Init /\ part = "staged" /\ CacheInit
  /\ [][Next /\ UNCHANGED <<part, cacheVars>>]_<<part, vars, cacheVars>>

Symmetry == Permutations({a, b, c})
=============================================================================
