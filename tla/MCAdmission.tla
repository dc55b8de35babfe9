----------------------------- MODULE MCAdmission -----------------------------
(* Instances for TLC of what lets work run on a shared host: the measurement  *)
(* of other workloads, the observation of a lease, the proof of the process's *)
(* own confinement, the commands that ask for all of it, and the models that  *)
(* run under it.  `part' says which one a behaviour exercises; the variables  *)
(* of the others stay put.                                                    *)
EXTENDS Admission, ModelProvider, TLC

CONSTANTS i1, i2, none, operand, dashes, g1, g2, p1, p2, good, bad, copy

VARIABLES
  part,
  source, past, tool, pins, output, shelf, manifest, proc, swaps, crashes

indexing == <<source, past, tool, pins, output, shelf, manifest, proc, swaps, crashes>>

MCShare == <<3, 4>>

\* A flag of each kind in the forms that tell the grammars apart.
Word(name, form) == [name |-> name, form |-> form]
Words ==
  {operand, dashes, Word("help", "bare"), Word("unknown", "bare"), Word("no-python", "bare"), Word("no-python", "false"),
   Word("no-python", "bad"), Word("no-plugins", "true"), Word("force", "bad"), Word("out", "bare"), Word("out", "true")}
CommandLines == UNION {[1..n -> Words] : n \in 0..3}

\* Requests within the budget, beyond it, and beyond what an integer holds.
Need(weights, context, kv) == [weights |-> weights, context |-> context, kv |-> kv, overhead |-> 1]
Requests == {Need(3, 2, 2), Need(3, 2, 4), Need(2, 4, 4)}

\* What a provider of each kind is asked for, and how often its files change.
Asked == [x \in {"cli", "embedder", "http"} |-> IF x = "cli" THEN Requests ELSE {Need(3, 2, 2)}]
Alterations == [x \in {"cli", "embedder", "http"} |-> CASE x = "cli" -> 2 [] x = "embedder" -> 1 [] OTHER -> 0]

\* One process under edits, swaps of the indexer and a crash, whose scan is also
\* given a copy, which comes first; and two with a directory in common.
LangOf == (p1 :> "go") @@ (p2 :> "rust")
OutputOf == (p1 :> "one") @@ (p2 :> "two")
GivenCopy == (p1 :> {"go", copy}) @@ (p2 :> {})
GivenBoth == (p1 :> {"go", "rust"}) @@ (p2 :> {"rust"})
PathRank == ("go" :> 1) @@ ("rust" :> 2) @@ (copy :> 0)
Indexers == {good, bad}

Alone == INSTANCE ScipIndex WITH
  Procs <- {p1}, Lang <- LangOf, NoPin <- {}, Output <- OutputOf, Selected <- GivenCopy, Rank <- PathRank, Files <- 1..3, Docs <- {1},
  Tools <- Indexers, Honest <- {good}, Legacy <- {good}, Copy <- copy, None <- none, MaxEdits <- 2, MaxSwaps <- 1, MaxCrashes <- 1
Beside == INSTANCE ScipIndex WITH
  Procs <- {p1, p2}, Lang <- LangOf, NoPin <- {p2}, Output <- OutputOf, Selected <- GivenBoth, Rank <- PathRank, Files <- 1..1, Docs <- {1},
  Tools <- Indexers, Honest <- {good}, Legacy <- {}, Copy <- copy, None <- none, MaxEdits <- 1, MaxSwaps <- 0, MaxCrashes <- 0

ASSUME AdmissionBounds ==
  /\ BoundsAssumption /\ LeaseAssumption /\ EnvelopeAssumption /\ DirectAssumption
  /\ ProviderAssumption /\ Alone!ScipAssumption /\ Beside!ScipAssumption

-----------------------------------------------------------------------------
\* A module that is not exercised is in one of its initial states.
LeaseAside == path = none /\ LeaseInit
ProofAside == group = "root" /\ within = TRUE /\ lowering = TRUE /\ EnvelopeInit /\ thread[1] = "low"
DirectAside == args = << >> /\ command = "open" /\ linux = TRUE /\ receipt = "absent" /\ DirectInit

ModelAside == provider = "http" /\ need = [c \in Calls |-> Need(3, 2, 2)] /\ ProviderInit
IndexAside == tool = [l \in {"go"} |-> good] /\ pins = [l \in {"go"} |-> good] /\ Alone!ScipInit

MCInit ==
  \/ /\ LoadInit /\ IndexAside
     /\ \/ part = "load" /\ LeaseAside /\ ProofAside /\ DirectAside /\ ModelAside
        \/ part = "lease" /\ LeaseInit /\ ProofAside /\ DirectAside /\ ModelAside
        \/ part = "envelope" /\ LeaseAside /\ EnvelopeInit /\ DirectAside /\ ModelAside
        \/ part = "direct" /\ LeaseAside /\ ProofAside /\ DirectInit /\ ModelAside
        \/ /\ part = "models" /\ LeaseAside /\ ProofAside /\ DirectAside
           /\ ProviderInit /\ \A c \in Calls : need[c] \in Asked[provider]
  \/ /\ LoadInit /\ LeaseAside /\ ProofAside /\ DirectAside /\ ModelAside
     /\ \/ part = "alone" /\ Alone!ScipInit
        \/ part = "beside" /\ Beside!ScipInit

MCNext ==
  /\ UNCHANGED part
  /\ \/ part = "load" /\ LoadNext /\ UNCHANGED <<leaseVars, envelopeVars, directVars, providerVars, indexing>>
     \/ part = "lease" /\ LeaseNext /\ UNCHANGED <<loadVars, envelopeVars, directVars, providerVars, indexing>>
     \/ part = "envelope" /\ EnvelopeNext /\ UNCHANGED <<loadVars, leaseVars, directVars, providerVars, indexing>>
     \/ part = "direct" /\ DirectNext /\ UNCHANGED <<loadVars, leaseVars, envelopeVars, providerVars, indexing>>
     \/ /\ part = "models" /\ ProviderNext /\ altered' <= Alterations[provider]
        /\ UNCHANGED <<loadVars, leaseVars, envelopeVars, directVars, indexing>>
     \/ /\ UNCHANGED <<loadVars, leaseVars, envelopeVars, directVars, providerVars>>
        /\ \/ part = "alone" /\ Alone!ScipNext
           \/ part = "beside" /\ Beside!ScipNext

MCVars == <<part, loadVars, leaseVars, envelopeVars, directVars, providerVars, indexing>>
MCSpec == MCInit /\ [][MCNext]_MCVars

-----------------------------------------------------------------------------
\* What counts as the compiler's was made by the pinned indexer of what the scan
\* inventoried.
IndexesSound ==
  /\ part = "alone" => Alone!ScipSound
  /\ part = "beside" => Beside!ScipSound
=============================================================================
