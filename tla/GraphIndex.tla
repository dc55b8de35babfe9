------------------------------ MODULE GraphIndex ------------------------------
(* Questions about the recorded graph (internal/graph) and the expansion of a *)
(* ranking along it (internal/retrieval).                                     *)
(*                                                                            *)
(* Nodes and edges are numbers in the order of their IDs.  A traversal takes  *)
(* the steps its options accept, breadth first, within a depth and a number   *)
(* of nodes; it says when a bound cut it.  Evidence, the order of what is     *)
(* returned and the wording of statements are left out.                       *)
EXTENDS Integers, FiniteSets, SequencesExt

CONSTANTS
  Ids,            \* the nodes of the graph
  Recorded,       \* graphs: sets of edges [id, from, to, kind, resolution]
  Questions,      \* what may be asked
  DefaultDepth, DefaultNodes, MostDepth, MostNodes,
  MostWithout,    \* facts a comparison may leave out
  MostHops, DefaultWork, MostWork

VARIABLES graph, asked, told

graphVars == <<graph, asked, told>>

Nothing == [kind |-> "none"]

GraphInit == graph \in Recorded /\ asked = Nothing /\ told = Nothing

-----------------------------------------------------------------------------
(* Steps.                                                                     *)
AcceptsEdge(e, o) ==
  /\ e.id \notin o.withoutEdges
  /\ e.from \notin o.withoutNodes /\ e.to \notin o.withoutNodes
  /\ o.unresolved \/ e.resolution # "unresolved"
  /\ o.kinds = {} \/ e.kind \in o.kinds
  /\ o.resolutions = {} \/ e.resolution \in o.resolutions

StepsOf(g, n, o) ==
  {[next |-> e.to, edge |-> e.id] : e \in {x \in g : o.direction # "incoming" /\ x.from = n /\ AcceptsEdge(x, o)}}
  \cup {[next |-> e.from, edge |-> e.id] : e \in {x \in g : o.direction # "outgoing" /\ x.to = n /\ AcceptsEdge(x, o)}}

Steps(g, n, o) ==
  SetToSortSeq(StepsOf(g, n, o), LAMBDA s, t : s.next < t.next \/ (s.next = t.next /\ s.edge < t.edge))

Bounded(value, default, most) == IF value <= 0 THEN default ELSE IF value > most THEN most ELSE value

Normalize(o) ==
  [o EXCEPT !.direction = IF @ = "" THEN "both" ELSE @,
            !.depth = Bounded(@, DefaultDepth, MostDepth),
            !.nodes = Bounded(@, DefaultNodes, MostNodes)]

-----------------------------------------------------------------------------
(* Neighborhoods and impact.                                                  *)
Visit(b, s, depth, o) ==
  LET met == [b EXCEPT !.edges = @ \cup {s.edge}]
  IN IF s.next \in DOMAIN b.depth THEN met
     ELSE IF Cardinality(DOMAIN b.depth) >= o.nodes THEN [met EXCEPT !.truncated = TRUE]
     ELSE [met EXCEPT !.depth = @ @@ (s.next :> depth), !.queue = Append(@, s.next)]

Spread(g, b, o) ==
  LET n == Head(b.queue)
      popped == [b EXCEPT !.queue = Tail(@)]
  IN IF b.depth[n] >= o.depth THEN popped
     ELSE FoldLeft(LAMBDA acc, s : Visit(acc, s, b.depth[n] + 1, o), popped, Steps(g, n, o))

\* Of the edges met, those between nodes that were visited.
Materialize(g, b) ==
  [depth |-> b.depth, truncated |-> b.truncated,
   edges |-> {e \in g : e.id \in b.edges /\ {e.from, e.to} \subseteq DOMAIN b.depth}]

\* Each node is queued at most once.
Neighborhood(g, seed, options) ==
  LET o == Normalize(options)
      b[k \in 0..Cardinality(Ids)] ==
        IF k = 0 THEN [depth |-> seed :> 0, queue |-> <<seed>>, edges |-> {}, truncated |-> FALSE]
        ELSE IF b[k - 1].queue = << >> THEN b[k - 1] ELSE Spread(g, b[k - 1], o)
  IN Materialize(g, b[Cardinality(Ids)])

\* What depends on the seed: against the edges, unless the question says otherwise.
ImpactOptions(o) == [o EXCEPT !.direction = IF @ = "" THEN "incoming" ELSE @]

Impact(g, seed, o) ==
  LET around == Neighborhood(g, seed, ImpactOptions(o))
  IN [depth |-> around.depth, truncated |-> around.truncated, edges |-> around.edges,
      impacted |-> DOMAIN around.depth \ {seed}]

-----------------------------------------------------------------------------
(* Shortest paths.                                                            *)
Reach(b, s, n, to, o) ==
  IF b.found \/ s.next \in DOMAIN b.depth THEN b
  ELSE IF Cardinality(DOMAIN b.depth) >= o.nodes THEN [b EXCEPT !.nodeLimit = TRUE]
  ELSE [b EXCEPT !.depth = @ @@ (s.next :> b.depth[n] + 1),
                 !.previous = @ @@ (s.next :> [node |-> n, edge |-> s.edge]),
                 !.found = s.next = to,
                 !.queue = IF s.next = to THEN @ ELSE Append(@, s.next)]

\* A node at the depth limit counts only if it hides a step to a new node.
Advance(g, b, to, o) ==
  LET n == Head(b.queue)
      popped == [b EXCEPT !.queue = Tail(@)]
  IN IF b.depth[n] >= o.depth
     THEN [popped EXCEPT !.depthLimit = @ \/ \E s \in StepsOf(g, n, o) : s.next \notin DOMAIN b.depth]
     ELSE FoldLeft(LAMBDA acc, s : Reach(acc, s, n, to, o), popped, Steps(g, n, o))

ShortestPath(g, from, to, options) ==
  LET o == Normalize(options)
      b[k \in 0..Cardinality(Ids)] ==
        IF k = 0 THEN [depth |-> from :> 0, previous |-> << >>, queue |-> <<from>>, found |-> from = to,
                       depthLimit |-> FALSE, nodeLimit |-> FALSE]
        ELSE IF b[k - 1].queue = << >> \/ b[k - 1].found THEN b[k - 1] ELSE Advance(g, b[k - 1], to, o)
      last == b[Cardinality(Ids)]
      trail[n \in DOMAIN last.depth] ==
        IF n = from THEN << >> ELSE Append(trail[last.previous[n].node], last.previous[n].edge)
      truncated == last.depthLimit \/ last.nodeLimit
  IN [found |-> last.found, edges |-> IF last.found THEN trail[to] ELSE << >>,
      visited |-> Cardinality(DOMAIN last.depth), depthLimit |-> last.depthLimit, nodeLimit |-> last.nodeLimit,
      truncated |-> truncated, exhausted |-> ~last.found /\ ~truncated]

-----------------------------------------------------------------------------
(* A comparison of the route with the one that is left without some facts.    *)
Invalid(g, q) ==
  \/ Len(q.withoutNodes) + Len(q.withoutEdges) \notin 1..MostWithout
  \/ ~IsInjective(q.withoutNodes) \/ ~IsInjective(q.withoutEdges)
  \/ ~(ToSet(q.withoutNodes) \subseteq Ids) \/ ~(ToSet(q.withoutEdges) \subseteq {e.id : e \in g})
  \/ {q.from, q.to} \cap ToSet(q.withoutNodes) # {}

Whole(o) == [o EXCEPT !.withoutNodes = {}, !.withoutEdges = {}]
Derived(q) == [Whole(q.options) EXCEPT !.withoutNodes = ToSet(q.withoutNodes), !.withoutEdges = ToSet(q.withoutEdges)]

Outcome(baseline, derived) ==
  CASE baseline.truncated \/ derived.truncated -> "search_truncated"
    [] ~baseline.truncated /\ ~derived.truncated /\ ~baseline.found -> "baseline_not_found"
    [] ~baseline.truncated /\ ~derived.truncated /\ baseline.found /\ derived.found ->
         IF baseline.edges = derived.edges THEN "no_effect" ELSE "rerouted"
    [] OTHER -> "no_route_found"

CounterfactualPath(g, q) ==
  LET baseline == ShortestPath(g, q.from, q.to, Whole(q.options))
      derived == ShortestPath(g, q.from, q.to, Derived(q))
  IN [outcome |-> Outcome(baseline, derived), baseline |-> baseline, derived |-> derived]

-----------------------------------------------------------------------------
(* Strongly connected components.  A frame is a call of visit and the targets *)
(* it has not looked at yet.                                                  *)
Targets(g, n, kinds) ==
  LET out == {e \in g : e.from = n}
      sorted == SetToSortSeq(out, LAMBDA d, e : d.to < e.to \/ (d.to = e.to /\ d.id < e.id))
      kept == SelectSeq(sorted, LAMBDA e : kinds = {} \/ e.kind \in kinds)
  IN [i \in DOMAIN kept |-> kept[i].to]

Enter(g, v, n, kinds) ==
  [v EXCEPT !.index = @ @@ (n :> Cardinality(DOMAIN v.index)), !.low = @ @@ (n :> Cardinality(DOMAIN v.index)),
            !.stack = Append(@, n), !.frames = Append(@, [node |-> n, rest |-> Targets(g, n, kinds)])]

\* A call ends; its component, if it is the root of one, is what lies above it.
Leave(v, n) ==
  LET at == CHOOSE i \in DOMAIN v.stack : v.stack[i] = n
      root == v.low[n] = v.index[n]
      frames == Front(v.frames)
      lower == frames # << >> /\ v.low[n] < v.low[Last(frames).node]
  IN [v EXCEPT !.frames = frames,
               !.stack = IF root THEN SubSeq(@, 1, at - 1) ELSE @,
               !.found = IF root THEN @ \cup {{v.stack[i] : i \in at..Len(v.stack)}} ELSE @,
               !.low = IF lower THEN [@ EXCEPT ![Last(frames).node] = v.low[n]] ELSE @]

Look(g, v, n, next, kinds) ==
  LET w == [v EXCEPT !.frames[Len(v.frames)].rest = Tail(@)]
  IN IF next \notin DOMAIN v.index THEN Enter(g, w, next, kinds)
     ELSE IF next \in ToSet(v.stack) /\ v.index[next] < v.low[n] THEN [w EXCEPT !.low[n] = v.index[next]]
     ELSE w

Tarjan(g, v, kinds) ==
  LET unseen == Ids \ DOMAIN v.index
      top == Last(v.frames)
  IN IF v.frames = << >>
     THEN IF unseen = {} THEN v ELSE Enter(g, v, CHOOSE n \in unseen : \A m \in unseen : n <= m, kinds)
     ELSE IF top.rest = << >> THEN Leave(v, top.node) ELSE Look(g, v, top.node, Head(top.rest), kinds)

HasSelfLoop(g, n, kinds) == \E e \in g : e.from = n /\ e.to = n /\ (kinds = {} \/ e.kind \in kinds)

Components(g, kinds) ==
  LET steps == 2 * Cardinality(Ids) + Cardinality(g)
      v[k \in 0..steps] ==
        IF k = 0 THEN [index |-> << >>, low |-> << >>, stack |-> << >>, frames |-> << >>, found |-> {}]
        ELSE Tarjan(g, v[k - 1], kinds)
  IN {[nodes |-> c, cyclic |-> Cardinality(c) > 1 \/ \A n \in c : HasSelfLoop(g, n, kinds)] : c \in v[steps].found}

-----------------------------------------------------------------------------
(* Retrieval: what the hits are connected to joins them, each node with a     *)
(* part of the score of the hit it was reached from.  A hit is a document     *)
(* [id, score]; only some documents are nodes, and only some match.           *)
Share(score, depth) == score \div (2 ^ depth)

ExpandSeed(g, acc, seed, q) ==
  LET around == Neighborhood(g, seed.id, [q.options EXCEPT !.depth = IF q.hops > MostHops THEN MostHops ELSE q.hops,
                                                           !.nodes = acc.work])
      joined == {n \in DOMAIN around.depth \ {seed.id} : n \in q.matches}
      Given(n) == (IF n \in DOMAIN acc.score THEN acc.score[n] ELSE 0) + Share(seed.score, around.depth[n])
  IN IF acc.stopped THEN acc
     ELSE IF acc.time = 0 \/ acc.work <= 0 THEN [acc EXCEPT !.stopped = TRUE, !.truncated = TRUE]
     ELSE IF seed.id \notin Ids THEN [acc EXCEPT !.time = @ - 1]
     ELSE [acc EXCEPT !.time = @ - 1, !.work = @ - Cardinality(DOMAIN around.depth),
                      !.truncated = @ \/ around.truncated,
                      !.score = [n \in joined |-> Given(n)] @@ @]

\* The context ends after that many seeds.
ExpandGraph(g, q, seeds) ==
  FoldLeft(LAMBDA acc, seed : ExpandSeed(g, acc, seed, q),
           [time |-> seeds, work |-> Bounded(q.work, DefaultWork, MostWork), truncated |-> q.truncated, stopped |-> FALSE,
            score |-> [n \in {q.hits[i].id : i \in DOMAIN q.hits} |->
                         (CHOOSE h \in ToSet(q.hits) : h.id = n).score]],
           q.hits)

RetrieveHits(g, q, seeds) ==
  LET expanded == ExpandGraph(g, q, seeds)
      ranked == SetToSortSeq(DOMAIN expanded.score,
                  LAMBDA m, n : expanded.score[m] > expanded.score[n] \/ (expanded.score[m] = expanded.score[n] /\ m < n))
      all == IF q.hops > 0 THEN ranked ELSE [i \in DOMAIN q.hits |-> q.hits[i].id]
  IN [hits |-> SubSeq(all, 1, IF Len(all) > q.limit THEN q.limit ELSE Len(all)),
      truncated |-> Len(all) > q.limit \/ (IF q.hops > 0 THEN expanded.truncated ELSE q.truncated)]

-----------------------------------------------------------------------------
Answer(q, reply) == told = Nothing /\ asked' = q /\ told' = reply /\ UNCHANGED graph

Missing == [kind |-> "not_found"]
Refused == [kind |-> "invalid"]

Surround(q) ==
  /\ q.kind = "neighborhood"
  /\ Answer(q, IF q.seed \notin Ids THEN Missing ELSE [kind |-> "part", part |-> Neighborhood(graph, q.seed, q.options)])

Impacted(q) ==
  /\ q.kind = "impact"
  /\ Answer(q, IF q.seed \notin Ids THEN Missing ELSE [kind |-> "part", part |-> Impact(graph, q.seed, q.options)])

Route(q) ==
  /\ q.kind = "path"
  /\ Answer(q, IF {q.from, q.to} \subseteq Ids THEN [kind |-> "path", path |-> ShortestPath(graph, q.from, q.to, q.options)]
               ELSE Missing)

Compare(q) ==
  /\ q.kind = "compare"
  /\ Answer(q, IF Invalid(graph, q) THEN Refused
               ELSE IF {q.from, q.to} \subseteq Ids THEN [kind |-> "compared", compared |-> CounterfactualPath(graph, q)]
               ELSE Missing)

Cycles(q) ==
  q.kind = "components" /\ Answer(q, [kind |-> "components", components |-> Components(graph, q.kinds)])

Retrieve(q) ==
  /\ q.kind = "retrieve"
  /\ \E seeds \in 0..Len(q.hits) : Answer(q, [kind |-> "hits", retrieved |-> RetrieveHits(graph, q, seeds)])

GraphNext == \E q \in Questions : Surround(q) \/ Impacted(q) \/ Route(q) \/ Compare(q) \/ Cycles(q) \/ Retrieve(q)

GraphSpec == GraphInit /\ [][GraphNext]_graphVars

-----------------------------------------------------------------------------
(* What the answers mean, without a queue, a stack or a bound on nodes.       *)
Within(g, o, seed, d) ==
  LET w[k \in 0..d] ==
        IF k = 0 THEN {seed} ELSE w[k - 1] \cup UNION {{s.next : s \in StepsOf(g, n, o)} : n \in w[k - 1]}
  IN w[d]

Everything == Cardinality(Ids)
Apart(g, o, m, n, d) == n \in Within(g, o, m, d) /\ (d > 0 => n \notin Within(g, o, m, d - 1))

\* A neighborhood gives every node its distance, is cut only if it says so, and
\* holds an edge that leads to each node from a nearer one (index.go:79-81).
NeighborhoodSound ==
  told.kind = "part" =>
    LET o == Normalize(IF asked.kind = "impact" THEN ImpactOptions(asked.options) ELSE asked.options)
        near == Within(graph, o, asked.seed, o.depth)
        depth == told.part.depth
    IN /\ \A n \in DOMAIN depth : Apart(graph, o, asked.seed, n, depth[n])
       /\ told.part.truncated <=> DOMAIN depth # near
       /\ Cardinality(DOMAIN depth) <= o.nodes
       /\ \A e \in told.part.edges : AcceptsEdge(e, o)
       /\ \A n \in DOMAIN depth \ {asked.seed} :
            \E e \in told.part.edges : \E m \in DOMAIN depth :
              depth[m] = depth[n] - 1 /\ [next |-> n, edge |-> e.id] \in StepsOf(graph, m, o)

\* A route is a walk along accepted edges, and shortest whatever the bounds; that
\* there is none is said only if there is none at all (index.go:146-150).
IsWalk(g, o, from, to, edges) ==
  \E p \in [0..Len(edges) -> Ids] :
    /\ p[0] = from /\ p[Len(edges)] = to
    /\ \A i \in DOMAIN edges : [next |-> p[i], edge |-> edges[i]] \in StepsOf(g, p[i - 1], o)

PathSound(g, from, to, options, path) ==
  LET o == Normalize(options)
  IN /\ path.found => /\ ~path.truncated
                      /\ IsWalk(g, o, from, to, path.edges)
                      /\ Apart(g, o, from, to, Len(path.edges))
     /\ path.exhausted => to \notin Within(g, o, from, Everything)
     /\ path.nodeLimit => Cardinality(Within(g, o, from, o.depth)) > o.nodes
     /\ ~path.nodeLimit => (path.found <=> to \in Within(g, o, from, o.depth))
     /\ ~path.nodeLimit /\ ~path.found =>
          (path.depthLimit <=> Within(g, o, from, o.depth + 1) # Within(g, o, from, o.depth))
     /\ path.visited <= o.nodes

RouteSound == told.kind = "path" => PathSound(graph, asked.from, asked.to, asked.options, told.path)

\* A comparison speaks of a missing route only if every route uses one of the
\* facts, and sees an effect just if the recorded route does (counterfactual.go:51-56).
ComparisonSound ==
  told.kind = "compared" =>
    LET c == told.compared
        o == Normalize(Whole(asked.options))
        without == [o EXCEPT !.withoutNodes = ToSet(asked.withoutNodes), !.withoutEdges = ToSet(asked.withoutEdges)]
        Touched == \E i \in DOMAIN c.baseline.edges : \E e \in graph :
                     e.id = c.baseline.edges[i] /\ ~AcceptsEdge(e, without)
        all == Within(graph, o, asked.from, Everything)
        left == Within(graph, without, asked.from, Everything)
    IN /\ PathSound(graph, asked.from, asked.to, Whole(asked.options), c.baseline)
       /\ PathSound(graph, asked.from, asked.to, without, c.derived)
       /\ c.outcome = "no_route_found" => asked.to \in all /\ asked.to \notin left
       /\ c.outcome = "baseline_not_found" => asked.to \notin all
       /\ c.outcome \in {"no_effect", "rerouted"} => ((c.outcome = "no_effect") <=> ~Touched)
       /\ c.outcome = "rerouted" => Len(c.derived.edges) >= Len(c.baseline.edges)

\* Two nodes are in one component just if each is reachable from the other, and
\* a component is cyclic just if a step from it leads back to it.
ComponentsSound ==
  told.kind = "components" =>
    LET o == [direction |-> "outgoing", kinds |-> asked.kinds, resolutions |-> {}, unresolved |-> TRUE,
              withoutNodes |-> {}, withoutEdges |-> {}]
        reach == [n \in Ids |-> Within(graph, o, n, Everything)]
        Home(n) == {m \in Ids : m \in reach[n] /\ n \in reach[m]}
    IN /\ {c.nodes : c \in told.components} = {Home(n) : n \in Ids}
       /\ \A c \in told.components : c.cyclic <=> \E n \in c.nodes : \E s \in StepsOf(graph, n, o) : s.next \in c.nodes

\* What is retrieved was ranked or is connected to what was, nothing of it is
\* missing unless that is said, and the work stays within its bound.
RetrievalSound ==
  told.kind = "hits" =>
    LET r == told.retrieved
        o == Normalize([asked.options EXCEPT !.depth = IF asked.hops > MostHops THEN MostHops ELSE asked.hops])
        ranked == {asked.hits[i].id : i \in DOMAIN asked.hits}
        connected == IF asked.hops > 0
                     THEN UNION {Within(graph, o, n, o.depth) : n \in ranked \cap Ids} \cap asked.matches ELSE {}
    IN /\ Len(r.hits) <= asked.limit
       /\ ToSet(r.hits) \subseteq ranked \cup connected
       /\ ~r.truncated => ToSet(r.hits) = ranked \cup connected
       /\ IsInjective(r.hits)
       /\ Cardinality(ToSet(r.hits) \ ranked) <= Bounded(asked.work, DefaultWork, MostWork)

GraphSound == NeighborhoodSound /\ RouteSound /\ ComparisonSound /\ ComponentsSound /\ RetrievalSound
=============================================================================
