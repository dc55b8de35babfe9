--------------------------- MODULE NameResolution ---------------------------
(* The resolve stage of the scan (internal/pipeline/pipeline.go):            *)
(* resolveHeuristicEdges binds a reference to an unresolved name when one    *)
(* symbol alone can be meant, going through the edges one by one with a      *)
(* memo of the scopes found so far, and dedupeBundle joins the edges that    *)
(* have become the same.                                                     *)
EXTENDS Integers, Sequences, FiniteSets, FiniteSetsExt, SequencesExt

CONSTANTS
  Ids,          \* node identities, as numbers: parents are sorted
  Kind,         \* [Ids -> kind]
  Language,     \* [Ids -> language]
  Name,         \* [Ids -> simple name]
  Qualified,    \* [Ids -> qualified name]
  Artifact,     \* [Ids -> artifact, or "" for none]
  Bundles       \* the sets of edges the merge may have produced

ASSUME IdsAssumption == Ids \subseteq Nat /\ IsFiniteSet(Ids)

\* An edge: [kind, from, to, resolution, producer, spelling, evidence]; its
\* identity is the stable ID of kind, from and to.
EdgeId(e) == <<e.kind, e.from, e.to>>

VARIABLES
  input,        \* the edges the stage was given
  parents,      \* heuristicScopeIndex.parents
  exact,        \* the scopes of every node, by the reference definition
  nodes,        \* the nodes of the bundle
  edges,        \* its edges
  pending,      \* the edges the loop has still to look at
  memo,         \* heuristicScopeIndex.cache: [id -> [valid, ids]]
  phase         \* "edges", "nodes", "dedupe" or "done"

vars == <<input, parents, exact, nodes, edges, pending, memo, phase>>

----------------------------------------------------------------------------
\* resolutionRank, with the names of the resolutions cut short.
Rank == [compiler |-> 7, runtime |-> 6, declared |-> 5, syntax |-> 4,
         documented |-> 3, model |-> 2, unresolved |-> 1]

\* JavaScript and TypeScript are one ecosystem; "" is no domain.
Domain(id) == IF Language[id] \in {"javascript", "typescript"} THEN "javascript-typescript"
              ELSE Language[id]

IsSymbol(id) == Kind[id] \notin {"unresolved_symbol", "document"} /\ Domain(id) # ""

\* newHeuristicScopeIndex: who declares or contains whom, beyond doubt.
ParentsIn(given) ==
  [id \in Ids |-> {e.from : e \in {d \in given : /\ d.to = id /\ d.kind \in {"declares", "contains"}
                                                 /\ d.resolution \in {"declared", "compiler"}
                                                 /\ d.from \in Ids}}]

IsScope(id) == Kind[id] \in {"package", "module"}

Invalid == [valid |-> FALSE, ids |-> {}]

Scope(ids) == [valid |-> TRUE, ids |-> ids]

----------------------------------------------------------------------------
(* heuristicScopeIndex.resolve, with its memo handed through.                *)

\* The element of a singleton.
The(S) == CHOOSE x \in S : TRUE

RECURSIVE Resolve(_, _, _), ResolveAll(_, _, _, _)
Resolve(id, visiting, cache) ==
  IF id \in DOMAIN cache THEN [result |-> cache[id], cache |-> cache]
  ELSE IF IsScope(id) THEN
    LET r == Scope({id}) IN [result |-> r, cache |-> (id :> r) @@ cache]
  ELSE IF id \in visiting THEN [result |-> Invalid, cache |-> cache]
  ELSE The({ [all EXCEPT !.cache = (id :> all.result) @@ @] :
               all \in {ResolveAll(parents[id], visiting \union {id}, Scope({}), cache)} })

\* The loop over the sorted parents, which the first invalid one ends.
ResolveAll(rest, visiting, result, cache) ==
  IF rest = {} THEN [result |-> result, cache |-> cache]
  ELSE The({ IF p.result.valid
              THEN ResolveAll(rest \ {Min(rest)}, visiting, Scope(result.ids \union p.result.ids), p.cache)
              ELSE p : p \in {Resolve(Min(rest), visiting, cache)} })

Scopes(id, cache) == Resolve(id, {}, cache)

\* heuristicSharedScopeProof, given the scopes of the two.
SharedScope(e, candidate, callerScopes, candidateScopes) ==
  /\ callerScopes.valid /\ candidateScopes.valid
  /\ \/ /\ Cardinality(callerScopes.ids) = 1 /\ Cardinality(candidateScopes.ids) = 1
        /\ callerScopes.ids = candidateScopes.ids
     \/ /\ callerScopes.ids = {} /\ candidateScopes.ids = {}
        /\ e.producer \in {"openapi", "jsonschema"}
        /\ Artifact[e.from] # "" /\ Artifact[e.from] = Artifact[candidate]

\* A spelling with a separator is only ever matched as a whole.
IsQualified(spelling) == \E id \in Ids : spelling = Qualified[id] /\ spelling # Name[id]

Eligible(e) ==
  /\ e.resolution = "unresolved"
  /\ e.from \in Ids /\ e.to \in Ids
  /\ Kind[e.to] = "unresolved_symbol"
  /\ Domain(e.from) # "" /\ Domain(e.from) = Domain(e.to)
  /\ e.spelling # ""

Named(e) ==
  {id \in Ids : /\ IsSymbol(id) /\ Domain(id) = Domain(e.to)
                /\ e.spelling = IF IsQualified(e.spelling) THEN Qualified[id] ELSE Name[id]}

\* The candidates in the order of the nodes, with the memo they leave behind.
RECURSIVE Try(_, _, _, _)
Try(e, rest, found, cache) ==
  IF rest = {} THEN [found |-> found, memo |-> cache]
  ELSE The({ Try(e, rest \ {Min(rest)},
                 IF SharedScope(e, Min(rest), r[1].result, r[2].result)
                 THEN found \union {Min(rest)} ELSE found, r[2].cache) :
               r \in {<<caller, Scopes(Min(rest), caller.cache)>> : caller \in {Scopes(e.from, cache)}} })

Match(e) ==
  IF ~Eligible(e) THEN [found |-> {}, memo |-> memo]
  ELSE IF IsQualified(e.spelling) THEN [found |-> Named(e), memo |-> memo]
  ELSE Try(e, Named(e), {}, memo)

----------------------------------------------------------------------------
(* Reference: a node's scopes are the packages and modules met first on the  *)
(* way up from it; there is no answer when the way up meets a cycle.         *)

ScopeOf(id, up) ==
  LET Above[k \in 0..Cardinality(Ids)] ==
        IF k = 0 THEN {id}
        ELSE LET met == Above[k - 1] IN met \union UNION {up[n] : n \in {m \in met : ~IsScope(m)}}
      Up == Above[Cardinality(Ids)]
      WellFounded == \A T \in SUBSET {n \in Up : ~IsScope(n)} :
                       T # {} => \E n \in T : up[n] \intersect T = {}
  IN  IF WellFounded THEN Scope({n \in Up : IsScope(n)}) ELSE Invalid

----------------------------------------------------------------------------
Init ==
  /\ input \in Bundles
  /\ parents = ParentsIn(input)
  /\ exact = [id \in Ids |-> ScopeOf(id, parents)]
  /\ nodes = Ids
  /\ edges = input /\ pending = input
  /\ memo = [id \in {} |-> Invalid]
  /\ phase = "edges"

\* One match alone, and not the caller itself.
Bind(e, found) ==
  IF Cardinality(found) = 1 /\ found # {e.from}
  THEN [e EXCEPT !.to = Min(found), !.resolution = "syntax"] ELSE e

\* One turn of the loop; the IDs that order the edges are digests, so any may be next.
ResolveEdge ==
  /\ phase = "edges"
  /\ \E e \in pending : \E m \in {Match(e)} :
       /\ edges' = (edges \ {e}) \union {Bind(e, m.found)}
       /\ memo' = m.memo
       /\ pending' = pending \ {e}
       /\ phase' = IF pending' = {} THEN "nodes" ELSE "edges"
  /\ UNCHANGED <<input, parents, exact, nodes>>

\* A bundle without edges.
Nothing == phase = "edges" /\ pending = {} /\ phase' = "nodes" /\ UNCHANGED <<input, parents, exact, nodes, edges, pending, memo>>

Referenced == {e.from : e \in edges} \union {e.to : e \in edges}

\* Unresolved symbols that no edge needs any more go.
DropUnreferenced ==
  /\ phase = "nodes"
  /\ nodes' = {id \in nodes : Kind[id] = "unresolved_symbol" => id \in Referenced}
  /\ phase' = "dedupe"
  /\ UNCHANGED <<input, parents, exact, edges, pending, memo>>

\* defect: an edge met before is kept as it was
KeepFirst(group) ==
  LET first == CHOOSE e \in group : TRUE
  IN  [kind |-> first.kind, from |-> first.from, to |-> first.to, resolution |-> first.resolution,
       evidence |-> first.evidence]

\* Edges of one identity: the strongest resolution, the evidence of all.
Joined(group) ==
  LET best == CHOOSE e \in group : \A d \in group : Rank[d.resolution] <= Rank[e.resolution]
  IN  [kind |-> best.kind, from |-> best.from, to |-> best.to, resolution |-> best.resolution,
       evidence |-> UNION {e.evidence : e \in group}]

Dedupe ==
  /\ phase = "dedupe"
  /\ edges' = {Joined({d \in edges : EdgeId(d) = EdgeId(e)}) : e \in edges}
  /\ phase' = "done"
  /\ UNCHANGED <<input, parents, exact, nodes, pending, memo>>

Finished == phase = "done" /\ UNCHANGED vars

Next == ResolveEdge \/ Nothing \/ DropUnreferenced \/ Dedupe \/ Finished

Spec == Init /\ [][Next]_vars

----------------------------------------------------------------------------
TypeOK ==
  /\ nodes \subseteq Ids
  /\ pending \subseteq input
  /\ DOMAIN memo \subseteq Ids
  /\ \A e \in edges : {e.from, e.to} \subseteq Ids /\ e.resolution \in DOMAIN Rank
  /\ phase \in {"edges", "nodes", "dedupe", "done"}

\* The memo holds the scopes of a node as if it had been asked first: what was
\* asked before, and the cycles met then, leave no trace (pipeline.go:981 resolve).
MemoIsPure == \A id \in DOMAIN memo : memo[id] = exact[id]

Meant(e) ==
  IF ~Eligible(e) THEN {}
  ELSE IF IsQualified(e.spelling) THEN Named(e)
  ELSE {c \in Named(e) : SharedScope(e, c, exact[e.from], exact[c])}

\* A reference is bound exactly when one symbol alone can be meant, and every
\* other edge keeps its target.
BoundIffUnique ==
  phase = "done" =>
    {EdgeId(e) : e \in edges} =
      {LET m == Meant(e) IN
       <<e.kind, e.from, IF Cardinality(m) = 1 /\ m # {e.from} THEN Min(m) ELSE e.to>> : e \in input}

\* Joining edges weakens none and loses no evidence.
NothingWeakened ==
  phase = "done" =>
    \A e \in input : \E d \in edges :
      /\ d.kind = e.kind /\ d.from = e.from
      /\ e.evidence \subseteq d.evidence
      /\ Rank[d.resolution] >= Rank[e.resolution]

\* Every edge still ends at nodes of the bundle.
Closed == phase \in {"dedupe", "done"} => Referenced \subseteq nodes

\* Whatever the order of the edges, the resolve stage binds what is unique and
\* leaves the rest (pipeline.go:844 resolveHeuristicEdges), joins without loss
\* (:666 dedupeBundle) and hands on a closed bundle (validate.go refuses others).
ResolutionSound == TypeOK /\ BoundIffUnique /\ NothingWeakened /\ Closed
=============================================================================
