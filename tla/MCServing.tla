------------------------------ MODULE MCServing ------------------------------
(* Instances for TLC of the processes that serve a finished atlas: the        *)
(* workbench in five scenarios on the same variables, the MCP adapter of a    *)
(* workspace in two and its HTTP transport, and the read API in two.  `part'  *)
(* says which one a behaviour exercises; the variables of the others stay as  *)
(* they are.                                                                  *)
EXTENDS Workbench, McpHttp, TLC

CONSTANTS j1, j2, c1, c2, c3, r1, r2,
  g1, g2 \* generations of the atlases the MCP server reads, which are not alike

VARIABLES
  part,
  registry, disk, stage, received, replies, captured, todo, cached, leased, pages, found, during, changes,
  directory, shelved, revisions, returned, loading, served, loads, process, request, view

reading == <<registry, disk, stage, received, replies, captured, todo, cached, leased, pages, found, during, changes>>
offering == <<directory, shelved, revisions, returned, loading, served, loads, process, request, view>>

\* "table", the module as the configuration instantiates it: two jobs, a table
\* of one entry, and two callers that cancel the same job.
OneTarget == Cardinality({target[c] : c \in Callers} \ {None}) <= 1

\* "jobs": a command and a folder that is compiled by one share the slot and
\* the folder.
Commands == INSTANCE Workbench WITH
  Kinds <- {"command", "quickstart"}, Callers <- {}, MaxJobs <- 2

\* "close": two commands and Close.
Closing == INSTANCE Workbench WITH
  Kinds <- {"command"}, Callers <- {}, MaxJobs <- 2

\* "github": one job of a connection against two requests, a cancellation and Close.
GitHub == INSTANCE Workbench WITH
  Jobs <- {j1}, Kinds <- {"github"}, Requests <- {r1, r2}, Callers <- {c3}

\* "portable": folders and repositories compiled in the server.
InServer == INSTANCE Workbench WITH
  Kinds <- {"quickstart", "github"}, Requests <- {r1}, Callers <- {}, MaxJobs <- 2, Portable <- TRUE

\* "stream": what a client may write on a line, against a registry without
\* sources; "query" and "changes": two searches of one or two sources while the
\* registry or an atlas changes once, and one while they change twice.
Line(form, id, method, asked) == [form |-> form, id |-> id, method |-> method, asked |-> asked]

Lines ==
  {Line(f, i, "plain", {}) : f \in {"garbage", "invalid", "notification", "good"}, i \in BOOLEAN}
  \cup {Line("good", TRUE, m, {}) : m \in {"unknown", "params", "roster", "cross"}}

Searches == {Line("good", TRUE, "cross", {}), Line("good", TRUE, "single", {1})}

\* One source has a hit beyond the budget before one within it.
Sizes == (g1 :> <<1, 2>>) @@ (g2 :> <<9, 1>>)

Stream == INSTANCE McpServer WITH
  Sources <- {}, Gens <- {g1}, Hits <- Sizes, Messages <- Lines,
  MaxMessages <- 3, MaxChanges <- 1, MaxSources <- 1, Limit <- 2, Budget <- 8,
  atlas <- disk, at <- stage, answer <- found

Mcp == INSTANCE McpServer WITH
  Sources <- {1, 2}, Gens <- {g1, g2}, Hits <- Sizes, Messages <- Searches,
  MaxMessages <- 2, MaxChanges <- 1, MaxSources <- 2, Limit <- 2, Budget <- 8,
  atlas <- disk, at <- stage, answer <- found

Changing == INSTANCE McpServer WITH
  Sources <- {1, 2}, Gens <- {g1, g2}, Hits <- Sizes, Messages <- Searches,
  MaxMessages <- 1, MaxChanges <- 2, MaxSources <- 2, Limit <- 2, Budget <- 8,
  atlas <- disk, at <- stage, answer <- found

\* "http", the transport as the configuration instantiates it: three requests
\* and two permits.

\* "load": an atlas is loaded, or checked, while others change its directory.
Content(s, a, b) == [snapshot |-> s, body |-> <<a, b>>]
CountOf == [b \in {1, 2} \X {1, 2} |-> b[1]]
Jsonl(x, n, size) == [holds |-> x, records |-> n, bytes |-> size]
FilesOf(s, a, b, text) ==
  ("bundle" :> Content(s, a, b)) @@ ("coverage" :> [snapshot |-> s, counts |-> a]) @@ ("edges" :> Jsonl(b, b, 2))
  @@ ("index" :> [snapshot |-> s, body |-> <<a, b>>, text |-> text]) @@ ("nodes" :> Jsonl(a, 1, 3)) @@ ("snapshot" :> s)
Exported(s, a, b, text, mark) ==
  [marker |-> mark, manifest |-> [snapshot |-> s, files |-> FilesOf(s, a, b, text)], files |-> FilesOf(s, a, b, text)]
First == Exported(1, 1, 1, TRUE, 1)
Second == Exported(1, 1, 2, TRUE, 1)
LegacyEdges == {Jsonl(1, n, size) : n \in {1, 3}, size \in {2, 9}}
Directories ==
  { First, Second, Exported(2, 1, 1, FALSE, None), Exported(1, 2, 1, TRUE, 1),
    [First EXCEPT !.marker = 0], [First EXCEPT !.manifest = None], [First EXCEPT !.manifest.snapshot = 2, !.marker = 2],
    [First EXCEPT !.manifest.files["coverage"].counts = 2, !.files["coverage"].counts = 2],
    [First EXCEPT !.manifest.files["index"].body = <<1, 2>>, !.files["index"].body = <<1, 2>>] }
  \cup {[marker |-> None, manifest |-> None, files |-> ("nodes" :> Jsonl(1, 1, 3)) @@ ("edges" :> l) @@ ("snapshot" :> 1)] : l \in LegacyEdges}
Rewrites ==
  ("index" :> {[snapshot |-> 1, body |-> <<1, 2>>, text |-> TRUE], None}) @@ ("edges" :> {Jsonl(2, 2, 2)}) @@ ("extra" :> {1})
  @@ ("snapshot" :> {2}) @@ ("coverage" :> {[snapshot |-> 1, counts |-> 2]})
  @@ ("manifest" :> {None, [First.manifest EXCEPT !.files["edges"] = Jsonl(2, 2, 2)]})
Got(asked, s, counts) == [asked |-> asked, bundle |-> Content(s, s, s), coverage |-> [snapshot |-> s, counts |-> counts]]
Kept == {Got(1, 1, 1), Got(1, 2, 2), Got(1, 1, 2), Got(2, 2, 2)}
Sound == {<<1, 1>>, <<1, 2>>, <<2, 2>>}

\* "pages": three datasets, two of one snapshot, are listed and searched by one
\* client, while one is activated and the server restarts.
Rows == (<<1, 1>> :> <<1, 2, 3, 4>>) @@ (<<1, 2>> :> <<2, 1, 3, 5>>) @@ (<<2, 1>> :> <<4, 1, 2>>)
Text(score, title, size, complete) == [score |-> score, name |-> title, size |-> size, complete |-> complete]
Texts ==
  (<<1, 1>> :> ((1 :> Text(2, 1, 3, TRUE)) @@ (2 :> Text(1, 1, 1, TRUE)) @@ (3 :> Text(2, 1, 5, TRUE)) @@ (4 :> Text(2, 0, 2, FALSE))))
  @@ (<<1, 2>> :> ((1 :> Text(1, 1, 3, TRUE)) @@ (2 :> Text(2, 1, 1, TRUE)) @@ (3 :> Text(3, 1, 5, TRUE)) @@ (5 :> Text(2, 0, 2, TRUE))))
  @@ (<<2, 1>> :> ((1 :> Text(2, 1, 3, TRUE)) @@ (2 :> Text(2, 1, 1, TRUE)) @@ (4 :> Text(2, 0, 2, TRUE))))
Asks ==
  {[mode |-> m, wants |-> w] : m \in {"rows", "ranked"}, w \in {1..5, {1, 3, 4}}}
  \cup {[mode |-> "packet", wants |-> {1, 2, 4}, budget |-> b] : b \in {6, 8, 20}}

Loads == INSTANCE HttpApi WITH
  Atlases <- Directories, Pins <- {First, Second}, Edits <- Rewrites, Shelf <- {Content(1, 1, 1)}, Stored <- Kept,
  Valid <- Sound, CountsOf <- CountOf, RowsOf <- Rows, DocumentsOf <- Texts, Clients <- {}, Queries <- {}, Limits <- {},
  TotalBytes <- 12, RecordsPerFile <- 2, TotalRecords <- 2, MaxChanges <- 2, MaxServes <- 1, MaxRestarts <- 0, Broken <- 0,
  atlas <- directory, changes <- revisions, task <- loading, generation <- loads, call <- request

Pages == INSTANCE HttpApi WITH
  Atlases <- {First}, Pins <- {}, Edits <- << >>, Shelf <- {Content(1, 1, 1), Content(1, 1, 2), Content(2, 2, 1)}, Stored <- {},
  Valid <- Sound, CountsOf <- CountOf, RowsOf <- Rows, DocumentsOf <- Texts, Clients <- {c3}, Queries <- Asks, Limits <- {1, 3},
  TotalBytes <- 12, RecordsPerFile <- 2, TotalRecords <- 2, MaxChanges <- 0, MaxServes <- 2, MaxRestarts <- 1, Broken <- 0,
  atlas <- directory, changes <- revisions, task <- loading, generation <- loads, call <- request

MCInit ==
  /\ \/ part = "table" /\ Init
     \/ part = "jobs" /\ Commands!Init
     \/ part = "close" /\ Closing!Init
     \/ part = "github" /\ GitHub!Init
     \/ part = "portable" /\ InServer!Init
     \/ part \in {"stream", "query", "changes", "http", "load", "pages"} /\ Init
  /\ IF part \in {"query", "changes"} THEN Mcp!Init ELSE Stream!Init
  /\ part \in {"query", "changes"} => DOMAIN registry = {1, 2} /\ registry[1] = g1
  /\ HttpInit
  /\ IF part = "load" THEN Loads!HttpInit ELSE Pages!HttpInit /\ (part # "pages" => served.bundle = First.files["bundle"])

\* Close has scenarios of its own.
Elsewhere ==
  /\ UNCHANGED part
  /\ part \notin {"table", "jobs", "close", "github", "portable"} => UNCHANGED vars
  /\ part \notin {"stream", "query", "changes"} => UNCHANGED reading
  /\ part # "http" => UNCHANGED httpVars
  /\ part \notin {"load", "pages"} => UNCHANGED offering

MCNext ==
  /\ Elsewhere
  /\ \/ part = "table" /\ Next /\ closing' = "open" /\ OneTarget'
     \/ part = "jobs" /\ Commands!Next /\ closing' = "open"
     \/ part = "close" /\ Closing!Next
     \/ part = "github" /\ GitHub!Next
     \/ part = "portable" /\ InServer!Next /\ closing' = "open"
     \/ part = "stream" /\ Stream!Next
     \/ part = "query" /\ Mcp!Next
     \/ part = "changes" /\ Changing!Next
     \/ part = "http" /\ HttpNext
     \/ part = "load" /\ Loads!HttpNext
     \/ part = "pages" /\ Pages!HttpNext /\ UNCHANGED loading

MCVars == <<part, vars, reading, httpVars, offering>>

MCSpec == MCInit /\ [][MCNext]_MCVars

ASSUME McpBounds == Mcp!BoundsAssumption /\ Changing!BoundsAssumption /\ Stream!BoundsAssumption /\ PermitsAssumption

Symmetry == Permutations({j1, j2}) \cup Permutations({c1, c2})

-----------------------------------------------------------------------------
\* What the MCP adapter promises its client, and what it keeps within bounds, what
\* the read API loads and gives out, and the invariants of the workbench in each of
\* its scenarios.
ServersSound ==
  /\ part = "table" => IInv
  /\ part = "jobs" => Commands!IInv
  /\ part = "close" => Closing!IInv
  /\ part = "github" => GitHub!IInv
  /\ part = "portable" => InServer!IInv
  /\ part = "stream" => Stream!McpSound
  /\ part = "query" => Mcp!McpSound
  /\ part = "changes" => Changing!McpSound
  /\ part = "load" => Loads!HttpSound
  /\ part = "pages" => Pages!HttpSound
=============================================================================
