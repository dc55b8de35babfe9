----------------------------- MODULE MCRecords -----------------------------
(* Instances for TLC of what makes records and of what reads them.  A         *)
(* behaviour exercises one module, `part' says which; the variables of the    *)
(* others stay as they are.                                                   *)
EXTENDS NameResolution, TLC

CONSTANTS c1, c2, tagA, tagB, None

VARIABLES
  part,
  published, head, stored, key, moved, at, query, limit, cursor, mine, page, owed, seen, issued, answer,
  bundle, hits, pass, doing, packet, reply, attempts, queries, results, verdict, compiled, found,
  given, taken, symbols, links, spans,
  tree, edited, capture, traces, marked, born, scan, known,
  chain, tip, runs, build, compiledHistory, importer, facts,
  graph, asked, told

resolving == <<input, parents, exact, nodes, edges, pending, memo, phase>>
reading == <<published, head, stored, key, moved, at, query, limit, cursor, mine, page, owed, seen, issued, answer>>
answering == <<bundle, hits, pass, doing, packet, reply, attempts, queries, results, verdict, compiled, found>>
importing == <<given, taken, symbols, links, spans>>
tracing == <<tree, edited, capture, traces, marked, born, scan, known>>
historic == <<chain, tip, runs, build, compiledHistory, importer, facts>>
querying == <<graph, asked, told>>

-----------------------------------------------------------------------------
(* "resolution" *)

\* 1 and 2 are packages, 3 to 5 functions called x or y, 6 the unresolved name x,
\* 7 the unresolved name m.y.
MCKind == [i \in Ids |-> IF i <= 2 THEN "package" ELSE IF i <= 5 THEN "function" ELSE "unresolved_symbol"]
MCLanguage == [i \in Ids |-> IF i = 5 THEN "typescript" ELSE "javascript"]
MCName == [i \in Ids |-> CASE i <= 2 -> "m" [] i \in {3, 6} -> "x" [] i = 4 -> "x" [] i = 5 -> "y" [] i = 7 -> "y"]
MCQualified == [i \in Ids |-> CASE i <= 2 -> "m" [] i \in {3, 4} -> "m.x" [] i \in {5, 7} -> "m.y" [] OTHER -> "x"]
MCArtifact == [i \in Ids |-> IF i <= 5 THEN "a" ELSE ""]

Declares(from, to) ==
  [kind |-> "declares", from |-> from, to |-> to, resolution |-> "declared",
   producer |-> "go", spelling |-> "", evidence |-> {}]
Calls(from, to, spelling, how, who, ev) ==
  [kind |-> "calls", from |-> from, to |-> to, resolution |-> how,
   producer |-> who, spelling |-> spelling, evidence |-> {ev}]

\* Every shape of declarations over the functions, cycles and orphans included.
Shapes == SUBSET {Declares(p, f) : p \in 1..5, f \in 3..5}

References ==
  { {} } \union { {Calls(5, 6, "x", "unresolved", who, 1)} : who \in {"go", "openapi"} }
  \union { {Calls(5, 6, "x", "unresolved", "go", 1), Calls(4, 6, "x", "unresolved", "openapi", 2)},
           {Calls(3, 7, "m.y", "unresolved", "go", 1), Calls(3, 5, "y", "documented", "go", 2)},
           {Calls(3, 7, "m.y", "unresolved", "go", 1), Calls(3, 5, "y", "compiler", "go", 2)},
           {Calls(5, 7, "m.y", "unresolved", "go", 1)} }

MCBundles ==
  { D \union R : D \in {S \in Shapes : Cardinality(S) <= 4}, R \in References }

-----------------------------------------------------------------------------
(* Listings of snapshots made in the same second, by one reader; of records,  *)
(* by two that create the key; and of the memory backend.                     *)
RepoOf == (11 :> tagA) @@ (12 :> tagA) @@ (13 :> tagB)
Fraction == (11 :> <<5>>) @@ (12 :> <<5, 1>>) @@ (13 :> <<5>>)
Contents == (11 :> {1, 2, 3}) @@ (12 :> {3}) @@ (13 :> {})
FamilyOf == (1 :> "nodes") @@ (2 :> "nodes") @@ (3 :> "nodes")
TagOf == (1 :> tagA) @@ (2 :> tagB) @@ (3 :> tagA)
SizeOf == [x \in {1, 2, 3, 11, 12, 13} |-> IF x \in {2, 12} THEN 2 ELSE 1]
Asked(kind, scope, tag) == [kind |-> kind, scope |-> scope, tag |-> tag]
Listings == {Asked("snapshots", None, None), Asked("snapshots", tagA, None)}
Tables == {Asked("nodes", 11, None), Asked("nodes", 11, tagA)}

Lister == INSTANCE SnapshotReader WITH
  Readers <- {c1}, ReadOnly <- {}, Backend <- "sqlite", Snaps <- {11, 12, 13}, Records <- {1, 2, 3},
  Repo <- RepoOf, Created <- Fraction, Holds <- Contents, Family <- FamilyOf, Tag <- TagOf, Size <- SizeOf,
  Queries <- Listings, Limits <- {1, 2}, MaxObject <- 2, MaxPage <- 2, MaxRots <- 0

Tabler == INSTANCE SnapshotReader WITH
  Readers <- {c1, c2}, ReadOnly <- {c2}, Backend <- "sqlite", Snaps <- {11}, Records <- {1, 2, 3},
  Repo <- RepoOf, Created <- Fraction, Holds <- Contents, Family <- FamilyOf, Tag <- TagOf, Size <- SizeOf,
  Queries <- Tables, Limits <- {1}, MaxObject <- 2, MaxPage <- 2, MaxRots <- 1

Keyed == INSTANCE SnapshotReader WITH
  Readers <- {c1, c2}, ReadOnly <- {}, Backend <- "sqlite", Snaps <- {11}, Records <- {1, 2, 3},
  Repo <- RepoOf, Created <- Fraction, Holds <- Contents, Family <- FamilyOf, Tag <- TagOf, Size <- SizeOf,
  Queries <- {Asked("nodes", 11, None)}, Limits <- {1}, MaxObject <- 2, MaxPage <- 2, MaxRots <- 0

Cloned == INSTANCE SnapshotReader WITH
  Readers <- {c1}, ReadOnly <- {}, Backend <- "memory", Snaps <- {11, 12, 13}, Records <- {1, 2, 3},
  Repo <- RepoOf, Created <- Fraction, Holds <- Contents, Family <- FamilyOf, Tag <- TagOf, Size <- SizeOf,
  Queries <- Listings \cup Tables, Limits <- {2}, MaxObject <- 2, MaxPage <- 2, MaxRots <- 0

ASSUME ReaderAssumption ==
  Lister!BoundsAssumption /\ Tabler!BoundsAssumption /\ Keyed!BoundsAssumption /\ Cloned!BoundsAssumption

-----------------------------------------------------------------------------
(* Questions.  1 and 6 are artifacts, 1 with its projection and the symbols 2 *)
(* and 3; 4 is a document parsed from 6, and 5 a section of it.               *)
Nd(artifact, evidence) == [artifact |-> artifact, evidence |-> evidence]
Section(id, evidence, text) == [id |-> id, evidence |-> evidence, text |-> text, canonical |-> TRUE]
Link(id, source, target, evidence) == [id |-> id, from |-> source, to |-> target, evidence |-> evidence]
Whole ==
  [artifacts |-> {1, 6}, evidence |-> 11..14,
   nodes |-> (1 :> Nd(1, {})) @@ (2 :> Nd(1, {11})) @@ (3 :> Nd(1, {})) @@ (5 :> Nd(6, {12})),
   documents |-> 4 :> [subjects |-> {3}, sections |-> <<Section(5, {12}, 2), Section(8, {14}, 1)>>, parsed |-> TRUE, validated |-> TRUE],
   edges |-> {Link(1, 2, 3, {13}), Link(2, 5, 3, {11, 13})}]
Forged == [Whole EXCEPT !.documents[4].sections[1].canonical = FALSE, !.nodes[3].evidence = {14}]
Dangling == [Whole EXCEPT !.edges = @ \cup {Link(3, 2, 7, {13})}]

Found == {<< >>, <<1>>, <<2, 4>>, <<3, 9, 5>>}
Draft(text, cites, sound, certainty) == [text |-> text, cites |-> cites, sound |-> sound, certainty |-> certainty]
Said(drafts, open) == [drafts |-> drafts, open |-> open]
Replies ==
  { Said(<< >>, 1), Said(<<Draft(1, <<11, 13>>, TRUE, "supported"), Draft(2, <<12>>, TRUE, "supported")>>, 0),
    Said(<<Draft(1, <<13>>, TRUE, "supported"), Draft(1, <<13>>, TRUE, "supported"), Draft(2, <<11>>, TRUE, "supported")>>, 0),
    Said(<<Draft(1, <<11>>, FALSE, "supported"), Draft(3, <<11>>, TRUE, "inferred")>>, 0), Said(<<Draft(2, <<12, 12>>, TRUE, "supported")>>, 0) }
Asking == {Whole, Forged, Dangling}
Quoting == {Whole, Forged}

Answers == INSTANCE GroundedAnswer WITH
  Bundles <- Asking, HitLists <- Found, Responses <- Replies, MaxHits <- 3, MaxNodes <- 3, MaxEdges <- 2, MaxEvidence <- 2,
  MinEvidence <- 1, MaxText <- 8, MaxPrompt <- 6, MaxClaims <- 2, MaxPasses <- 2, Limit <- 2, Inference <- FALSE, Native <- FALSE,
  answer <- compiled
Quotes == INSTANCE GroundedAnswer WITH
  Bundles <- Quoting, HitLists <- Found, Responses <- {}, MaxHits <- 3, MaxNodes <- 3, MaxEdges <- 2, MaxEvidence <- 3,
  MinEvidence <- 1, MaxText <- 9, MaxPrompt <- 9, MaxClaims <- 2, MaxPasses <- 1, Limit <- 2, Inference <- TRUE, Native <- TRUE,
  answer <- compiled

ASSUME AnswersAssumption == Answers!AnswerAssumption /\ Quotes!AnswerAssumption

-----------------------------------------------------------------------------
(* Documents of compiler indexes: x is defined around the local l and the     *)
(* reference to y, whose place and encoding vary; some are sealed first, some *)
(* are imported beside one of another index.                                  *)
Lines == [p \in {"p", "q"} |-> <<[runes |-> <<1, 4, 2>>, eol |-> 2], [runes |-> <<3, 1>>, eol |-> 1]>>]
Packed(v) == <<<<1, 2, v>>>>
OneByOne(v) == [i \in 1..Len(v) |-> <<1, 0, v[i]>>]
Around(v) == <<<<11, 2, v>>>>
Places ==
  {<< >>, Packed(<<0, 1, 3>>), OneByOne(<<0, 0, 1, 1>>), <<<<8, 2, <<0, 0, 1>>>>>>, Packed(<<0, 1, 5>>), Packed(<<1, 1>>),
   Packed(<<0, 0, 0>>) \o OneByOne(<<1>>)}
Occurrence(symbol, roles, place) == <<<<2, 2, symbol>>, <<3, 0, roles>>, <<5, 0, 15>>>> \o place
SymbolOf(name, kind, outer) == <<<<1, 2, name>>, <<5, 0, kind>>, <<8, 2, outer>>, <<4, 2, <<<<1, 2, "z">>, <<3, 0, 1>>>>>>>>
Fields(occurrences, syms) == [i \in DOMAIN occurrences |-> <<2, 2, occurrences[i]>>] \o [i \in DOMAIN syms |-> <<3, 2, syms[i]>>]
Bodies ==
  { Fields(<<Occurrence("x", 1, Packed(<<0, 0, 1, 0>>) \o Around(outer)), Occurrence("l", 1, Packed(<<0, 1, 1>>) \o inner), Occurrence("y", roles, place)>>, syms) :
      outer \in {<<0, 0, 1, 1>>, <<0, 0, 0, 3>>}, inner \in {<< >>, Around(<<0, 0, 0, 8>>), Around(<<0, 1, 1, 0>>)},
      roles \in {0, 10}, place \in Places, syms \in {<< >>, <<SymbolOf("l", 7, "x")>>} }
Other == Fields(<< >>, <<SymbolOf("y", 3, ""), SymbolOf("w", 0, ""), SymbolOf("w", 3, "y")>>)
Says(p) == <<<<5, 2, p>>>>
Counts(encoding) == <<<<6, 0, encoding>>>>
File(p, index, authentic, message) == [path |-> p, index |-> index, auth |-> authentic, seal |-> authentic, message |-> message]
External ==
  { <<File("p", 1, FALSE, m \o end)>> : m \in Bodies,
      end \in {Counts(e) \o Says("p") : e \in 1..4} \cup {Counts(1), Counts(1) \o Says("q"), << >>} }
Generated ==
  { <<File("p", 1, TRUE, m \o end), File("p", 2, FALSE, Other \o Says("p"))>> : m \in Bodies,
      end \in {<< >>, Counts(0), Counts(2), Counts(0) \o Counts(0), Says("q"), Says("p"), <<<<9, 3, 0>>>>} }
  \cup { <<File("q", 2, FALSE, Other \o Says("q")), File("p", 1, TRUE, m)>> : m \in Bodies }
Importable == External \cup Generated

Documents == INSTANCE ScipDocument WITH Imports <- Importable, Source <- Lines, Local <- {"l"}, Encoding <- 2

-----------------------------------------------------------------------------
(* Captures: of a repository that is edited meanwhile, one with two modules,  *)
(* of many outputs; and two after one another, whose files are copied, with a *)
(* restart.                                                                   *)
Block(p, x, y, statements, count) == [path |-> p, first |-> x, last |-> y, statements |-> statements, count |-> count]
Event(sub, action, elapsed) == [pkg |-> "k", test |-> "t", sub |-> sub, action |-> action, elapsed |-> elapsed]
Said1(profile, events) == [profile |-> profile, events |-> events]
Holding(nested) ==
  (<<"go.mod">> :> <<"m">>) @@ (<<"a">> :> 1) @@ (<<"n", "a">> :> 1) @@ (<<"trace">> :> 0) @@ (<<"HEAD">> :> 1)
  @@ (<<"n", "go.mod">> :> nested)
Repos == {Holding(<<"w">>), Holding(<<"m", "n">>)}
OneRepo == {Holding(<<"w">>)}
Edits ==
  [p \in DOMAIN Holding(<<"w">>) |->
     IF p = <<"go.mod">> THEN {<<"m">>, <<"w">>} ELSE IF p \in {<<"a">>, <<"HEAD">>} THEN {1, 2} ELSE {}]
Profiles ==
  { << >>, <<Block(<<"m", "a">>, 1, 2, 1, 1), Block(<<"m", "a">>, 5, 6, 2, 1), Block(<<"m", "a">>, 2, 4, 1, 0)>>,
    <<Block(<<"m", "n", "a">>, 3, 3, 1, 1), Block(<<"w", "a">>, 4, 6, 1, 1), Block(<<"/", "a">>, 1, 1, 1, 1)>>,
    <<Block(<<"a">>, 1, 7, 1, 1), Block(<<"a">>, 2, 3, 1, 1), Block(<<"a">>, 8, 8, 1, 1)>>,
    <<Block(<<"a">>, 4, 2, 1, 1)>>, <<Block(<<"a">>, 1, 9, 1, 0)>>, <<Block(<<"x">>, 1, 9, 1, 0)>> }
Streams ==
  { << >>, <<Event(TRUE, "fail", 1), Event(TRUE, "pass", 2), Event(FALSE, "run", 0)>>,
    <<Event(FALSE, "pass", 1), Event(TRUE, "skip", 1), Event(TRUE, "fail", 0)>>, <<Event(FALSE, "pass", 9)>> }
Told == {Said1(p, <<Event(FALSE, "pass", 1)>>) : p \in Profiles} \cup {Said1(<<Block(<<"a">>, 1, 9, 1, 0)>>, e) : e \in Streams}
ToldTwice == {Said1(<<Block(<<"a">>, 1, 3, 1, 1)>>, e) : e \in {<< >>, <<Event(FALSE, "pass", 1)>>}}
Span(p, x, y) == [path |-> p, first |-> x, last |-> y]
Callable == {Span(<<"a">>, 3, 4), Span(<<"a">>, 6, 8), Span(<<"n", "a">>, 4, 4)}
Rumoured == {Span(<<"a">>, 3, 4)}
GoTest == [go |-> TRUE, explicit |-> FALSE]

Captures == INSTANCE RuntimeTrace WITH
  Repositories <- Repos, Contents <- Edits, Ignored <- {<<"trace">>}, Out <- <<"trace">>, Commit <- <<"HEAD">>,
  Manifest <- "go.mod", Commands <- {GoTest, [go |-> FALSE, explicit |-> FALSE]}, Outputs <- Told, Functions <- Callable,
  Claimed <- Rumoured, Files <- {1}, MaxElapsed <- 3, MaxMarked <- 1, MaxEdits <- 2, MaxCaptures <- 1, MaxRestarts <- 0
Recaptures == INSTANCE RuntimeTrace WITH
  Repositories <- OneRepo, Contents <- Edits, Ignored <- {<<"trace">>}, Out <- <<"trace">>, Commit <- <<"HEAD">>,
  Manifest <- "go.mod", Commands <- {GoTest}, Outputs <- ToldTwice, Functions <- Callable,
  Claimed <- Rumoured, Files <- {1, 2}, MaxElapsed <- 3, MaxMarked <- 1, MaxEdits <- 0, MaxCaptures <- 2, MaxRestarts <- 1

-----------------------------------------------------------------------------
(* Histories: every chain of three of these trees, compiled once; and a few   *)
(* compiled twice and scanned.                                                *)
Spoken == <<"go", "go", "typescript", "">>
Alone(s, n) == s :> n
Trees ==
  { 1 :> Alone("x", 1), 1 :> Alone("x", 2), (1 :> Alone("x", 1)) @@ (2 :> Alone("y", 1)), 2 :> Alone("x", 1), 2 :> Alone("y", 1),
    (1 :> Alone("y", 1)) @@ (2 :> Alone("x", 2)), (1 :> Alone("x", 1)) @@ (2 :> Alone("x", 2)), 3 :> Alone("x", 1), 4 :> Alone("x", 1),
    2 :> (Alone("x", 1) @@ Alone("y", 0)), 1 :> (Alone("x", 1) @@ Alone("y", 1)) }
Pasts == {<<t, u, v>> : t, u, v \in Trees}
FewPasts ==
  { <<1 :> Alone("x", 1), u, v>> : u \in {2 :> Alone("y", 1), (1 :> Alone("x", 1)) @@ (2 :> Alone("x", 2))},
                                   v \in {1 :> Alone("x", 2), (1 :> Alone("x", 1)) @@ (2 :> Alone("y", 1))} }

Compiles == INSTANCE SymbolHistory WITH
  Chains <- Pasts, Language <- Spoken, Limits <- {1, 2}, MaxSignatures <- 2, MaxBuilds <- 1, MaxScans <- 0,
  compiled <- compiledHistory
Imports1 == INSTANCE SymbolHistory WITH
  Chains <- FewPasts, Language <- Spoken, Limits <- {1, 2}, MaxSignatures <- 2, MaxBuilds <- 2, MaxScans <- 1,
  compiled <- compiledHistory

-----------------------------------------------------------------------------
(* Queries of a graph of two layers between 1 and 6, with edges back and      *)
(* across, of which up to two may be missing; 7 and 9 are not in it.          *)
Arc(id, a, b, kind, how) == [id |-> id, from |-> a, to |-> b, kind |-> kind, resolution |-> how]
Arcs ==
  { Arc(11, 1, 2, "calls", "resolved"), Arc(12, 1, 3, "calls", "resolved"), Arc(13, 2, 4, "calls", "resolved"),
    Arc(14, 2, 5, "imports", "resolved"), Arc(15, 3, 4, "calls", "unresolved"), Arc(16, 3, 5, "calls", "resolved"),
    Arc(17, 4, 6, "calls", "resolved"), Arc(18, 5, 6, "calls", "inferred"), Arc(19, 5, 1, "imports", "resolved"),
    Arc(20, 4, 4, "calls", "resolved"), Arc(21, 3, 2, "calls", "resolved") }
Drawn == {{a \in Arcs : a.id \notin S} : S \in {T \in SUBSET (11..21) : Cardinality(T) <= IF T \subseteq 11..15 THEN 2 ELSE 1}}
Free ==
  [direction |-> "outgoing", kinds |-> {}, resolutions |-> {}, depth |-> 6, nodes |-> 6, unresolved |-> FALSE,
   withoutNodes |-> {}, withoutEdges |-> {}]
Bounds == {Free} \cup {[Free EXCEPT !.depth = d, !.nodes = n] : d \in {0, 1, 2}, n \in {0, 3, 4}}
Views ==
  Bounds \cup {[b EXCEPT !.direction = ""] : b \in Bounds}
  \cup {[Free EXCEPT !.unresolved = TRUE], [Free EXCEPT !.kinds = {"calls"}, !.resolutions = {"resolved"}]}
Spheres == {[kind |-> k, seed |-> n, options |-> o] : k \in {"neighborhood", "impact"}, n \in {1, 5, 7}, o \in Views}
Routes == {[kind |-> "path", from |-> n, to |-> m, options |-> o] : n \in {1, 4}, m \in {6, 1, 7}, o \in Views}
Removed ==
  {<<<<n>>, << >>>> : n \in 2..6} \cup {<<<< >>, <<e>>>> : e \in 11..19}
  \cup {<<<<2>>, <<16>>>>, <<<< >>, <<12, 12>>>>, <<<< >>, << >>>>}
Without ==
  {[kind |-> "compare", from |-> 1, to |-> 6, withoutNodes |-> r[1], withoutEdges |-> r[2], options |-> o] : r \in Removed,
     o \in {Free, [Free EXCEPT !.direction = "both", !.unresolved = TRUE], [Free EXCEPT !.depth = 3], [Free EXCEPT !.nodes = 5]}}
Loops == {[kind |-> "components", kinds |-> k] : k \in {{}, {"calls"}, {"imports"}}}
Hit(id, score) == [id |-> id, score |-> score]
Expansions ==
  {[kind |-> "retrieve", hits |-> h, matches |-> m, hops |-> hops, work |-> w, limit |-> l, truncated |-> FALSE,
    options |-> [Free EXCEPT !.direction = "both"]] :
     h \in {<<Hit(6, 8), Hit(9, 4), Hit(1, 3)>>, <<Hit(9, 9)>>}, m \in {1..6, {4, 9}}, hops \in {0, 1, 9}, w \in {0, 3, 5}, l \in {2, 7}}
Posed == Spheres \cup Routes \cup Without \cup Loops \cup Expansions

Queried == INSTANCE GraphIndex WITH
  Ids <- 1..6, Recorded <- Drawn, Questions <- Posed, DefaultDepth <- 2, DefaultNodes <- 5, MostDepth <- 5, MostNodes <- 6,
  MostWithout <- 2, MostHops <- 2, DefaultWork <- 4, MostWork <- 8

-----------------------------------------------------------------------------
Idle == phase = "done" /\ input = {} /\ parents = << >> /\ exact = << >> /\ nodes = {} /\ edges = {}
        /\ pending = << >> /\ memo = << >>

AnswerAside == bundle = Whole /\ Answers!AnswerInit
DocumentAside == given = << >> /\ taken = << >> /\ symbols = << >> /\ links = {} /\ spans = {}
TraceAside == Recaptures!TraceInit
FirstPast == <<1 :> Alone("x", 1), 2 :> Alone("y", 1), 1 :> Alone("x", 2)>>
GraphAside == graph = Arcs /\ asked = Queried!Nothing /\ told = Queried!Nothing
HistoryAside == chain = FirstPast /\ tip = 3 /\ Imports1!HistoryInit

MCInit ==
  /\ \/ /\ Idle /\ Lister!Init /\ AnswerAside /\ DocumentAside /\ TraceAside /\ HistoryAside
        /\ part = "graph"
     \/ part = "resolution" /\ Lister!Init /\ AnswerAside /\ DocumentAside /\ TraceAside /\ HistoryAside /\ Init
     \/ /\ Idle /\ AnswerAside /\ DocumentAside /\ TraceAside /\ HistoryAside
        /\ \/ part = "snapshots" /\ Lister!Init
           \/ part = "records" /\ Tabler!Init
           \/ part = "key" /\ Keyed!Init
           \/ part = "memory" /\ Cloned!Init
     \/ /\ Idle /\ Lister!Init /\ DocumentAside /\ TraceAside /\ HistoryAside
        /\ \/ part = "answers" /\ Answers!AnswerInit
           \/ part = "quotes" /\ Quotes!AnswerInit
     \/ part = "documents" /\ Idle /\ Lister!Init /\ AnswerAside /\ Documents!DocumentInit /\ TraceAside /\ HistoryAside
     \/ /\ Idle /\ Lister!Init /\ AnswerAside /\ DocumentAside /\ HistoryAside
        /\ \/ part = "captures" /\ Captures!TraceInit
           \/ part = "recaptures" /\ Recaptures!TraceInit
     \/ /\ Idle /\ Lister!Init /\ AnswerAside /\ DocumentAside /\ TraceAside
        /\ \/ part = "histories" /\ Compiles!HistoryInit
           \/ part = "imports" /\ Imports1!HistoryInit
  /\ IF part = "graph" THEN Queried!GraphInit ELSE GraphAside

MCNext ==
  /\ UNCHANGED part
  /\ \/ part = "resolution" /\ Next /\ UNCHANGED <<reading, answering, importing, tracing, historic, querying>>
     \/ /\ UNCHANGED <<resolving, answering, importing, tracing, historic, querying>>
        /\ \/ part = "snapshots" /\ Lister!Next
           \/ part = "records" /\ Tabler!Next
           \/ part = "key" /\ Keyed!Next
           \/ part = "memory" /\ Cloned!Next
     \/ /\ UNCHANGED <<resolving, reading, importing, tracing, historic, querying>>
        /\ \/ part = "answers" /\ Answers!AnswerNext
           \/ part = "quotes" /\ Quotes!AnswerNext
     \/ part = "documents" /\ Documents!DocumentNext /\ UNCHANGED <<resolving, reading, answering, tracing, historic, querying>>
     \/ /\ UNCHANGED <<resolving, reading, answering, importing, historic, querying>>
        /\ \/ part = "captures" /\ Captures!TraceNext
           \/ part = "recaptures" /\ Recaptures!TraceNext
     \/ /\ UNCHANGED <<resolving, reading, answering, importing, tracing, querying>>
        /\ \/ part = "histories" /\ Compiles!HistoryNext
           \/ part = "imports" /\ Imports1!HistoryNext
     \/ part = "graph" /\ Queried!GraphNext /\ UNCHANGED <<resolving, reading, answering, importing, tracing, historic>>

MCVars == <<part, resolving, reading, answering, importing, tracing, historic, querying>>
MCSpec == MCInit /\ [][MCNext]_MCVars

\* The listings alone.
ListSpec ==
  /\ Idle /\ AnswerAside /\ DocumentAside /\ TraceAside /\ HistoryAside /\ GraphAside /\ part = "snapshots" /\ Lister!Init
  /\ [][Lister!Next /\ UNCHANGED <<part, resolving, answering, importing, tracing, historic, querying>>]_MCVars

-----------------------------------------------------------------------------
\* The scopes the resolver remembers, and the edges it makes of them.
Resolved == part = "resolution" => MemoIsPure /\ ResolutionSound

\* What a reader is given is what was published, each of it once.
ReaderSound ==
  /\ part = "snapshots" => Lister!ReaderSound
  /\ part = "records" => Tabler!ReaderSound
  /\ part = "key" => Keyed!ReaderSound
  /\ part = "memory" => Cloned!ReaderSound /\ Cloned!NewestFirst

\* What is said about the records is grounded in them.
KnowledgeSound ==
  /\ part = "answers" => Answers!AnswerSound
  /\ part = "quotes" => Quotes!AnswerSound
  /\ part = "documents" => Documents!DocumentSound
  /\ part = "captures" => Captures!TraceSound
  /\ part = "recaptures" => Recaptures!TraceSound
  /\ part = "histories" => Compiles!HistorySound
  /\ part = "imports" => Imports1!HistorySound
  /\ part = "graph" => Queried!GraphSound

\* Newest first, as memory_reader.go:79 has it and the SQLite store's test wants
\* it ("descending CreatedAt order").
NewestFirst == Lister!NewestFirst
=============================================================================
