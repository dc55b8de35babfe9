------------------------------ MODULE McpServer ------------------------------
(***************************************************************************)
(* The MCP adapter over a workspace (internal/mcpserver): one message at a *)
(* time from a stream, answered in order.  A data request reads the        *)
(* registry once, queries the atlases that registry calls active, keeps at *)
(* most one of them loaded between requests, and interleaves what they     *)
(* return within a limit and a budget of bytes.  Beside it other processes *)
(* refresh, prune and damage what the registry names.                      *)
(***************************************************************************)
EXTENDS Integers, Sequences, FiniteSets, SequencesExt

CONSTANTS
  Sources,     \* registered repositories, as numbers: the roster is sorted
  Gens,        \* generations of their atlases
  None,        \* no generation
  Hits,        \* [Gens -> sequence of the encoded sizes of the ranked hits]
  Messages,    \* what a client may send, see Message
  MaxMessages, \* bound on messages
  MaxChanges,  \* bound on changes by other processes
  MaxSources,  \* maximumWorkspaceQuerySources
  Limit,       \* hits wanted of one query
  Budget       \* bytes wanted of one query

BoundsAssumption == Sources \subseteq Nat /\ None \notin Gens /\ Limit > 0 /\ MaxSources > 0

\* decodeStrict and validateRequest: what is left of a line.  A single-source
\* tool, a cross-source tool, the roster of repositories, what needs no data
\* (initialize, ping, the lists), and what the methods refuse.
Message ==
  [form : {"garbage", "invalid", "notification", "good"}, id : BOOLEAN,
   method : {"plain", "unknown", "params", "roster", "single", "cross"},
   asked : SUBSET Nat]

VARIABLES
  registry,  \* registry.json: [registered sources -> active generation], or None
  atlas,     \* what stands at a generation's path
  at,        \* where the server stands
  received,  \* the messages so far
  replies,   \* the responses so far: [to, id, kind]
  captured,  \* the registry this request has read
  todo,      \* the sources still to query, in order
  cached,    \* the atlas in memory: [source, gen, content]
  leased,    \* the generation whose lease is held
  pages,     \* what this request has found: [source, gen, ok, items, total, truncated]
  answer,    \* the last result of a cross-source query
  during,    \* history: the registries of this request's lifetime
  changes

disk == <<registry, atlas>>
stream == <<received, replies>>
query == <<captured, todo, pages>>
vars == <<disk, at, stream, query, cached, leased, answer, during, changes>>

NoAtlas == [source |-> None, gen |-> None, content |-> "none"]
NoAnswer == [items |-> << >>, total |-> 0, truncated |-> FALSE, partial |-> FALSE]

Registries == UNION {[S -> Gens \cup {None}] : S \in SUBSET Sources}

Init ==
  /\ registry \in Registries /\ atlas = [g \in Gens |-> "good"]
  /\ at = "reading"
  /\ received = << >> /\ replies = << >>
  /\ captured = None /\ todo = << >> /\ pages = << >>
  /\ cached = NoAtlas /\ leased = None
  /\ answer = NoAnswer /\ during = {registry} /\ changes = 0

Current == received[Len(received)]

-----------------------------------------------------------------------------
(***************************************************************************)
(* Serve: one message at a time.                                           *)
(***************************************************************************)
Receive ==
  /\ at = "reading" /\ Len(received) < MaxMessages
  /\ \E m \in Messages : received' = Append(received, m)
  /\ at' = "deciding" /\ during' = {registry}
  /\ UNCHANGED <<disk, replies, query, cached, leased, answer, changes>>

\* writeResponse, which replaces a response over the bound by an error.
Respond(kind, id) ==
  /\ \E k \in {kind, "error"} : replies' = Append(replies, [to |-> Len(received), id |-> id, kind |-> k])
  /\ at' = "reading"

Silent == at' = "reading" /\ UNCHANGED replies

Reply(kind) == IF Current.id THEN Respond(kind, TRUE) ELSE Silent

Deciding(m) ==
  /\ at = "deciding" /\ Current.form = m
  /\ UNCHANGED <<disk, received, query, cached, leased, answer, during, changes>>

\* decodeStrict: no JSON, a field twice, an unknown field, trailing data.
Garbage == Deciding("garbage") /\ Respond("error", FALSE)

\* validateRequest
Invalid == Deciding("invalid") /\ Reply("error")

Notification == Deciding("notification") /\ Silent

\* handle: what needs no data, and methods and tools there are not.
Plain == Deciding("good") /\ Current.method = "plain" /\ Reply("result")
Unknown == Deciding("good") /\ Current.method = "unknown" /\ Reply("error")

\* validateToolArguments and validateWorkspaceArguments: the arguments have the
\* tool's names, kinds, lengths and ranges, or no data is read at all.
BadArguments == Deciding("good") /\ Current.method = "params" /\ Reply("error")

\* The context of the server has ended: handle and callWorkspaceTool.
Cancelled ==
  /\ at \in {"deciding", "querying", "verifying"} /\ Current.form = "good"
  /\ \E kind \in {"error", "toolError"} : Reply(kind)
  /\ captured' = None /\ todo' = << >> /\ pages' = << >>
  /\ leased' = None
  /\ cached' = IF at = "verifying" THEN NoAtlas ELSE cached
  /\ UNCHANGED <<disk, received, answer, during, changes>>

-----------------------------------------------------------------------------
(***************************************************************************)
(* callWorkspaceTool and handleWorkspace.                                  *)
(***************************************************************************)
\* selectRepositories
Selected(r) == IF Current.asked = {} THEN DOMAIN r ELSE DOMAIN r \cap Current.asked

Selects(r) ==
  /\ Current.asked \subseteq DOMAIN r
  /\ Selected(r) # {}
  /\ IF Current.method = "single" THEN Cardinality(Selected(r)) = 1 ELSE Cardinality(Selected(r)) <= MaxSources

\* workspaceServer.registry, read again for every request.
Read == registry

ReadRegistry ==
  /\ at = "deciding" /\ Current.form = "good" /\ Current.method \in {"roster", "single", "cross"}
  /\ IF Read = None
       THEN Reply("error") /\ UNCHANGED query
     ELSE IF Current.method = "roster"
       THEN Reply("result") /\ UNCHANGED query
     ELSE IF ~Selects(Read)
       THEN Reply("error") /\ UNCHANGED query
     ELSE /\ at' = "querying"
          /\ captured' = Read /\ pages' = << >>
          /\ todo' = SetToSortSeq(Selected(Read), <)
          /\ UNCHANGED replies
  /\ UNCHANGED <<disk, received, cached, leased, answer, during, changes>>

-----------------------------------------------------------------------------
(***************************************************************************)
(* workspaceServer.dataset: the atlas of the next source.                  *)
(***************************************************************************)
Wanted == captured[Head(todo)]

\* defect: the atlas in memory is known by its source alone
SameSource == cached.source = Head(todo)

InMemory == cached.source = Head(todo) /\ cached.gen = Wanted

Take(length, sizes) == SubSeq(sizes, 1, IF Len(sizes) < length THEN Len(sizes) ELSE length)

\* One more item, if the encoded array stays within the budget: brackets,
\* commas and items.
Admit(budget, page, item) ==
  LET size == page.bytes + item.size + (IF page.items = << >> THEN 0 ELSE 1)
  IN  IF size > budget THEN [page EXCEPT !.truncated = TRUE]
      ELSE [page EXCEPT !.items = Append(@, item), !.bytes = size]

Ranked(source, gen) ==
  [rank \in 1..Len(Take(Limit, Hits[gen])) |->
     [source |-> source, gen |-> gen, rank |-> rank, size |-> Hits[gen][rank]]]

\* SearchPage, and what of it a source may contribute.
Page(source, gen) ==
  LET empty == [items |-> << >>, bytes |-> 2, truncated |-> Len(Hits[gen]) > Limit]
      Next1(page, item) == Admit(Budget, page, item)
      page == FoldLeft(Next1, empty, Ranked(source, gen))
  IN  [source |-> source, gen |-> gen, ok |-> TRUE, items |-> page.items,
       total |-> Len(Hits[gen]), truncated |-> page.truncated]

NoPage(source) ==
  [source |-> source, gen |-> None, ok |-> FALSE, items |-> << >>, total |-> 0, truncated |-> TRUE]

Found == pages' = Append(pages, Page(Head(todo), cached.gen))

\* The atlas in memory answers.
Hit ==
  /\ at = "querying" /\ todo # << >> /\ Wanted # None /\ InMemory
  /\ Found
  /\ todo' = Tail(todo)
  /\ UNCHANGED <<disk, at, stream, captured, cached, leased, answer, during, changes>>

\* A source whose atlas cannot be had: an error of a single-source call, a
\* missing part of a cross-source query.
Fail ==
  IF Current.method = "single"
  THEN Reply("toolError") /\ captured' = None /\ todo' = << >> /\ pages' = << >>
  ELSE /\ at' = "querying"
       /\ pages' = Append(pages, NoPage(Head(todo)))
       /\ todo' = Tail(todo)
       /\ UNCHANGED <<captured, replies>>

NoActive ==
  /\ at = "querying" /\ todo # << >> /\ Wanted = None
  /\ Fail
  /\ UNCHANGED <<disk, received, cached, leased, answer, during, changes>>

\* The atlas kept is dropped, the lease taken, the manifest hashed.
Acquire ==
  /\ at = "querying" /\ todo # << >> /\ Wanted # None /\ ~InMemory
  /\ cached' = NoAtlas
  /\ IF atlas[Wanted] \in {"good", "data"}
       THEN leased' = Wanted /\ at' = "loading" /\ UNCHANGED <<query, replies>>
       ELSE Fail /\ UNCHANGED leased
  /\ UNCHANGED <<disk, received, answer, during, changes>>

\* server.Load verifies the files against the manifest it finds, be it another.
Load ==
  /\ at = "loading"
  /\ IF atlas[Wanted] = "data"
       THEN Fail /\ leased' = None /\ UNCHANGED cached
       ELSE /\ cached' = [source |-> None, gen |-> Wanted, content |-> atlas[Wanted]]
            /\ at' = "verifying"
            /\ UNCHANGED <<query, replies, leased>>
  /\ UNCHANGED <<disk, received, answer, during, changes>>

Verified(g) == atlas[g] # "manifest"

\* The manifest is hashed again, and the atlas enters the memory.
Keep ==
  /\ at = "verifying"
  /\ leased' = None
  /\ IF Verified(Wanted)
       THEN cached' = [cached EXCEPT !.source = Head(todo)] /\ at' = "querying" /\ UNCHANGED <<query, replies>>
       ELSE cached' = NoAtlas /\ Fail
  /\ UNCHANGED <<disk, received, answer, during, changes>>

-----------------------------------------------------------------------------
(***************************************************************************)
(* workspaceServer.query: the pages interleaved by rank.                   *)
(***************************************************************************)
\* The first items of every source, then the second ones, ...
ByRank(found) ==
  FlattenSeq([rank \in 1..Limit |->
    FlattenSeq([p \in 1..Len(found) |->
      IF rank <= Len(found[p].items) THEN << found[p].items[rank] >> ELSE << >>])])

AdmitWithin(page, item) ==
  IF Len(page.items) >= Limit THEN [page EXCEPT !.truncated = TRUE] ELSE Admit(Budget, page, item)

Interleaved(found) ==
  LET start == [items |-> << >>, bytes |-> 2, truncated |-> \E p \in 1..Len(found) : found[p].truncated]
      all == FoldLeft(AdmitWithin, start, ByRank(found))
  IN  [items |-> all.items, truncated |-> all.truncated,
       partial |-> \E p \in 1..Len(found) : ~found[p].ok,
       total |-> FoldLeft(LAMBDA n, page : n + page.total, 0, found)]

Answering ==
  /\ at = "querying" /\ todo = << >>
  /\ captured' = None /\ pages' = << >>
  /\ UNCHANGED <<disk, received, todo, cached, leased, during, changes>>

AnswerQuery ==
  /\ Answering /\ Current.method = "cross"
  /\ answer' = Interleaved(pages)
  /\ Reply("result")

\* callTool: the tool of the one source, whose own error is a result too.
AnswerTool ==
  /\ Answering /\ Current.method = "single"
  /\ answer' = NoAnswer
  /\ \E kind \in {"result", "toolError"} : Reply(kind)

-----------------------------------------------------------------------------
(***************************************************************************)
(* The other processes.                                                    *)
(***************************************************************************)
Change ==
  /\ changes < MaxChanges /\ changes' = changes + 1
  /\ UNCHANGED <<at, stream, query, cached, leased, answer>>

\* A source is added, removed or refreshed, or the registry becomes invalid.
Register ==
  /\ Change
  /\ registry' \in Registries \cup {None} /\ registry' # registry
  /\ during' = during \cup {registry'}
  /\ UNCHANGED atlas

\* Workspace.Prune takes no generation that is active or leased.
Prune(g) ==
  /\ Change
  /\ leased # g /\ registry # None /\ \A s \in DOMAIN registry : registry[s] # g
  /\ atlas' = [atlas EXCEPT ![g] = "gone"]
  /\ UNCHANGED <<registry, during>>

\* Files of an atlas change in place: data alone, or a whole other atlas.
Damage(g) ==
  /\ Change
  /\ atlas[g] = "good"
  /\ \E how \in {"data", "manifest"} : atlas' = [atlas EXCEPT ![g] = how]
  /\ UNCHANGED <<registry, during>>

Next ==
  \/ Receive \/ Garbage \/ Invalid \/ Notification \/ Plain \/ Unknown \/ BadArguments
  \/ Cancelled \/ ReadRegistry
  \/ Hit \/ NoActive \/ Acquire \/ Load \/ Keep \/ AnswerQuery \/ AnswerTool
  \/ Register \/ \E g \in Gens : Prune(g) \/ Damage(g)

Spec == Init /\ [][Next]_vars

-----------------------------------------------------------------------------
TypeOK ==
  /\ registry \in Registries \cup {None}
  /\ atlas \in [Gens -> {"good", "data", "manifest", "gone"}]
  /\ at \in {"reading", "deciding", "querying", "loading", "verifying"}
  /\ leased \in Gens \cup {None} /\ cached.gen \in Gens \cup {None}
  /\ at \in {"loading", "verifying"} <=> leased # None

\* Every line is answered in order, once if it asks for an answer and carries
\* an ID, and never otherwise (server.go:135 Serve).
Owed(n) ==
  \/ received[n].form = "garbage"
  \/ received[n].form \in {"invalid", "good"} /\ received[n].id
RepliesMatch ==
  LET answered == IF at = "reading" THEN Len(received) ELSE Len(received) - 1
      Owing(n) == Owed(n)
  IN  [r \in 1..Len(replies) |-> replies[r].to] = SelectSeq([n \in 1..answered |-> n], Owing)

\* Whatever is refreshed, removed or pruned meanwhile: all the pages of a
\* request come from generations that one registry of the request's own
\* lifetime calls active (workspace.go:30 workspaceServer).
OneRegistry ==
  at \in {"querying", "loading", "verifying"} =>
    \E r \in during \ {None} : \A p \in 1..Len(pages) :
      /\ pages[p].source \in DOMAIN r
      /\ pages[p].ok => pages[p].gen = r[pages[p].source]

\* The atlas in memory is, file by file, the one the registry's digest names,
\* though files may change while it is loaded (workspace.go:81 dataset).
CacheGenuine == cached.source # None => cached.content = "good"

\* An answer that does not call itself truncated has every hit of every source,
\* in the order of the ranks; no answer exceeds its limit or its budget, and
\* each source's hits stay in their order (workspace.go:378 query).
AnswerHonest ==
  /\ Len(answer.items) <= Limit
  /\ FoldLeft(LAMBDA n, item : n + item.size + 1, 1, answer.items) <= Budget
  /\ answer.partial => answer.truncated
  /\ ~answer.truncated => Len(answer.items) = answer.total
  /\ \A i, j \in 1..Len(answer.items) :
       i < j /\ (answer.truncated => answer.items[i].source = answer.items[j].source)
         => answer.items[i].rank <= answer.items[j].rank

\* What the adapter promises a client.
McpSound == TypeOK /\ RepliesMatch /\ OneRegistry /\ CacheGenuine /\ AnswerHonest
=============================================================================
