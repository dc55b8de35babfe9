------------------------- MODULE MCScanPublication -------------------------
(***************************************************************************)
(* Instances for TLC of what publishes: a scan to its three places, the    *)
(* directory replacement below it, and the workspace above it.  A          *)
(* behaviour exercises one of them, `part' says which; the others stay     *)
(* idle.                                                                   *)
(***************************************************************************)
EXTENDS ScanPublication, Workspace, SafeOutput, TLC

\* Processes, and what they publish.
CONSTANTS p1, p2, p3, r1, g1, g2, g3, g4, a, b, u

VARIABLE part

\* Three scans of which one step fails, or two and two failures.
FewFaults == faults <= 1 \/ \E s \in Scans : at[s] = "idle"

\* One publisher, three of whose publications may be hit; and two with two hits
\* and a user who edits or replaces the target.
OnePublisher == place[p2] = "idle" /\ place[p3] = "idle" /\ edits = 0
TwoPublishers == place[p3] = "idle" /\ (\A p \in Publishers : mine[p] # g4) /\ strikes <= 2

\* Two writers of one source whose policy changes, with a reader, or with a
\* writer that may be hit; and one writer that refreshes two sources in a sync,
\* with a reader.
WithoutB == disk[b] = Unregistered /\ (\A w \in Writers : mem[w][b] = Unregistered) /\ doing[p3] = "idle"
OneSource == WithoutB /\ mishaps = 0
OneHit == WithoutB /\ mishaps <= 1 /\ doing[r1] = "idle"
OnePolicy(m) == \A s \in Sources : m[s].policy = 0
TwoSources ==
  OnePolicy(disk) /\ OnePolicy(mem[p1]) /\ doing[p2] = "idle" /\ doing[p3] = "idle" /\ mishaps <= 1

ASSUME PublicationAssumption == OutputAssumption /\ WorkspaceAssumption

MCInit ==
  /\ Init /\ WorkspaceInit /\ OutputInit
  /\ part \in {"scan", "source", "source hit", "sources", "one output", "outputs"}
  /\ part \notin {"one output", "outputs"} => exchanging

MCNext ==
  /\ UNCHANGED part
  /\ \/ part = "scan" /\ Next /\ FewFaults' /\ UNCHANGED <<outputVars, workspaceVars>>
     \/ /\ part \in {"one output", "outputs"}
        /\ OutputNext
        /\ part = "one output" => OnePublisher'
        /\ part = "outputs" => TwoPublishers'
        /\ UNCHANGED <<vars, workspaceVars>>
     \/ /\ part \in {"source", "source hit", "sources"}
        /\ WorkspaceNext
        /\ part = "source" => OneSource'
        /\ part = "source hit" => OneHit'
        /\ part = "sources" => TwoSources'
        /\ UNCHANGED <<vars, outputVars>>

MCSpec == MCInit /\ [][MCNext]_<<part, vars, outputVars, workspaceVars>>

Symmetry == Permutations({p1, p2, p3}) \cup Permutations({g1, g2, g3})

-----------------------------------------------------------------------------
\* Two publishers that rename show readers complete outputs only, and keep what
\* the user touched.
RenamesSound == [](~exchanging => TargetComplete) /\ [][~exchanging => UserDataKept]_outputVars

\* Nothing that others rely on is taken away, and the stores agree at the end.
StepsSound == SuccessAgrees /\ OutputStepsSound /\ RenamesSound /\ PinnedKept
=============================================================================
