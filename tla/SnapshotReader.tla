---------------------------- MODULE SnapshotReader ----------------------------
(***************************************************************************)
(* Readers of published snapshots (internal/storage/sqlite store_reader*.go*)
(* and search.go, pkg/rkcstore memory_reader.go and cursor.go).  A listing *)
(* is read page by page.  A page of the SQLite store takes several         *)
(* statements without a transaction around them: the key that signs        *)
(* cursors, which the first writable reader creates, the position of the   *)
(* cursor, the rows.  Publications and changes of the file by others come  *)
(* between any two of them.                                                *)
(***************************************************************************)
EXTENDS Integers, Sequences, FiniteSets, SequencesExt

CONSTANTS
  Readers, ReadOnly, \* reading processes, and those that opened the file read-only
  Backend,           \* "sqlite" or "memory"
  Snaps, Records,    \* snapshot IDs and record IDs, as numbers
  Repo, Created,     \* [Snaps -> repository], and the digits of CreatedAt's fraction
  Holds,             \* [Snaps -> sets of records]
  Family, Tag, Size, \* of a record: its table and what filters ask for; encoded sizes
  Queries, Limits,   \* what readers ask
  MaxObject, MaxPage, \* readerMaxObjectJSONBytes and readerMaxPageJSONBytes
  MaxRots,           \* bound on changes of stored rows
  None

BoundsAssumption ==
  /\ ReadOnly \subseteq Readers /\ Backend \in {"sqlite", "memory"}
  /\ Snaps \cup Records \subseteq Nat /\ Snaps \cap Records = {}
  /\ None \notin Readers
  /\ MaxObject <= MaxPage /\ \A l \in Limits : l > 0

VARIABLES
  published, \* canonical_snapshots
  head,      \* repositories.current_snapshot_id
  stored,    \* whether a row is "good", or what filters see in it, changed behind the store
  key,       \* reader_cursor_hmac_v1 in schema_meta, known by its maker
  moved,     \* the path no longer names the file that is open
  at, query, limit, cursor, mine, page, \* each reader's call
  owed, seen, \* history: what its listing had to list, and what it has got
  issued,    \* the cursors sealed so far
  answer     \* its last point read

file == <<published, head, stored, key, moved>>
calls == <<at, query, limit, cursor, mine, page>>
vars == <<file, calls, owed, seen, issued, answer>>

NoCursor == [kind |-> None, scope |-> None, key |-> None, id |-> 0, primary |-> << >>]
NoQuery == [kind |-> None, scope |-> None, tag |-> None]
NoPage == [items |-> << >>, more |-> FALSE, failed |-> FALSE, bytes |-> 0]

Init ==
  /\ published = {} /\ head = [r \in {Repo[s] : s \in Snaps} |-> None]
  /\ stored = [x \in Snaps \cup Records |-> "good"]
  /\ key = IF Backend = "memory" THEN "secret" ELSE None
  /\ moved = FALSE
  /\ at = [c \in Readers |-> "idle"]
  /\ query = [c \in Readers |-> NoQuery] /\ limit = [c \in Readers |-> 0]
  /\ cursor = [c \in Readers |-> NoCursor] /\ mine = [c \in Readers |-> None]
  /\ page = [c \in Readers |-> NoPage]
  /\ owed = [c \in Readers |-> {}] /\ seen = [c \in Readers |-> << >>]
  /\ issued = {} /\ answer = [c \in Readers |-> None]

Goto(c, where) == at' = [at EXCEPT ![c] = where]

-----------------------------------------------------------------------------
(***************************************************************************)
(* Orders and filters.                                                     *)
(***************************************************************************)
\* RFC 3339 drops the fraction's trailing zeros; `Z' comes after every digit
\* and after the point.
Text(digits) == Append(digits, 10)

\* The order of two moments in the same second, and of the strings that stand
\* for them.
Lexicographic(a, b) ==
  \E n \in 1..Len(b) :
    /\ \A i \in 1..(n - 1) : i <= Len(a) /\ a[i] = b[i]
    /\ n <= Len(a) => a[n] < b[n]
Earlier(a, b) == Lexicographic(a, b)
SortsBefore(a, b) == Lexicographic(Text(a), Text(b))

\* ORDER BY published_at DESC, snapshot_id ASC of strings; the memory backend
\* compares the times.
SnapshotBefore(a, b) ==
  \/ IF Backend = "sqlite" THEN SortsBefore(Created[b], Created[a]) ELSE Earlier(Created[b], Created[a])
  \/ Created[a] = Created[b] /\ a < b

Before(q, a, b) == IF q.kind = "snapshots" THEN SnapshotBefore(a, b) ELSE a < b

\* readerAppendFilters: an empty filter matches everything, another is compared
\* with the row as it stands in the file.
Filtered(q, tags) ==
  IF q.kind = "snapshots"
  THEN {s \in published : q.scope \in {None, Repo[s]}}
  ELSE {r \in Holds[q.scope] : Family[r] = q.kind /\ q.tag \in {None, tags[r]}}
Matching(q) == Filtered(q, [r \in Records |-> IF stored[r] = "good" THEN Tag[r] ELSE stored[r]])

Known(q) == q.kind = "snapshots" \/ q.scope \in published

\* The arguments of readerScopeFingerprint, each hashed with its length.
Scope(q) == <<q.scope, q.tag>>

After(q, cur) == {x \in Matching(q) : cur = NoCursor \/ Before(q, cur.id, x)}

-----------------------------------------------------------------------------
(***************************************************************************)
(* One page.                                                               *)
(***************************************************************************)
Fails(x) == Size[x] > MaxObject \/ stored[x] # "good"

\* The rows come in order; the first beyond a limit starts the next page, and a
\* row that is too large or is not what its digest says ends the call.
AddRow(q, l, p, x) ==
  IF p.failed \/ p.more THEN p
  ELSE IF Len(p.items) = l THEN [p EXCEPT !.more = TRUE]
  ELSE IF Size[x] > MaxObject THEN [p EXCEPT !.failed = TRUE]
  ELSE IF p.bytes > MaxPage - Size[x] THEN [p EXCEPT !.more = TRUE]
  ELSE IF Fails(x) THEN [p EXCEPT !.failed = TRUE]
  ELSE [p EXCEPT !.items = Append(@, <<x, stored[x]>>), !.bytes = @ + Size[x]]

InOrder(q, xs) == LET Lt(a, b) == Before(q, a, b) IN SetToSortSeq(xs, Lt)

PageAfter(q, l, cur) ==
  LET Add(p, x) == AddRow(q, l, p, x) IN FoldLeft(Add, NoPage, InOrder(q, After(q, cur)))

\* The memory backend sorts everything that matches, looks for the cursor's ID,
\* and cuts the page out.
Slice(q, l, cur) ==
  LET values == InOrder(q, Matching(q))
      start == IF cur = NoCursor THEN 0 ELSE CHOOSE i \in 1..Len(values) : values[i] = cur.id
      end == IF start + l > Len(values) THEN Len(values) ELSE start + l
  IN  [items |-> [i \in 1..(end - start) |-> <<values[start + i], "good">>], more |-> end < Len(values)]

Sealed(k, q, id) ==
  [kind |-> q.kind, scope |-> Scope(q), key |-> k, id |-> id,
   primary |-> IF q.kind = "snapshots" THEN Created[id] ELSE << >>]

\* A cursor is this database's, this query's, and its position still exists.
Opens(k, q, cur) ==
  \/ cur = NoCursor
  \/ /\ cur.key = k /\ cur.kind = q.kind /\ cur.scope = Scope(q)
     /\ cur.id \in Matching(q)
     /\ q.kind = "snapshots" => cur.primary = Created[cur.id]

Listing(c) == UNCHANGED <<published, head, stored, moved, query, limit, cursor, owed, seen, issued, answer>>

\* ListSnapshots, QueryNodes, QueryEdges, QueryDiagnostics: from the start, or
\* from any cursor a reader has been given.
Ask(c) ==
  /\ at[c] = "idle" /\ ~moved
  /\ \E q \in Queries, l \in Limits, cur \in issued \cup {NoCursor} :
       /\ Known(q)
       /\ query' = [query EXCEPT ![c] = q] /\ limit' = [limit EXCEPT ![c] = l]
       /\ cursor' = [cursor EXCEPT ![c] = cur]
       /\ owed' = [owed EXCEPT ![c] = IF cur.kind = q.kind \/ cur = NoCursor THEN After(q, cur) ELSE {}]
  /\ seen' = [seen EXCEPT ![c] = << >>]
  /\ Goto(c, "key")
  /\ UNCHANGED <<file, mine, page, issued, answer>>

\* The next page of the same listing.
Continue(c) ==
  /\ at[c] = "paged" /\ ~moved
  /\ Goto(c, "key")
  /\ UNCHANGED <<file, query, limit, cursor, mine, page, owed, seen, issued, answer>>

\* readerCursorKey
ReadKey(c) ==
  /\ at[c] = "key" /\ Backend = "sqlite"
  /\ mine' = [mine EXCEPT ![c] = key]
  /\ Goto(c, IF key # None THEN "cursor" ELSE IF c \in ReadOnly THEN "failed" ELSE "candidate")
  /\ Listing(c) /\ UNCHANGED <<key, page>>

\* defect: the candidate replaces a key that came first
ReplaceKey(c) == key' = c

InsertKey(c) == key' = IF key = None THEN c ELSE key

CreateKey(c) ==
  /\ at[c] = "candidate"
  /\ InsertKey(c)
  /\ Goto(c, "key")
  /\ Listing(c) /\ UNCHANGED <<mine, page>>

OpenCursor(c) ==
  /\ at[c] = "cursor"
  /\ Goto(c, IF Opens(mine[c], query[c], cursor[c]) THEN "rows" ELSE "refused")
  /\ Listing(c) /\ UNCHANGED <<key, mine, page>>

Rows(c) ==
  /\ at[c] = "rows"
  /\ page' = [page EXCEPT ![c] = PageAfter(query[c], limit[c], cursor[c])]
  /\ Goto(c, IF page'[c].failed THEN "failed" ELSE "returning")
  /\ Listing(c) /\ UNCHANGED <<key, mine>>

\* The page goes to the client, with a cursor if there is more.
Deliver(c, k, p) ==
  LET next == Sealed(k, query[c], p.items[Len(p.items)][1])
  IN  /\ seen' = [seen EXCEPT ![c] = @ \o p.items]
      /\ IF p.more
           THEN Goto(c, "paged") /\ cursor' = [cursor EXCEPT ![c] = next] /\ issued' = issued \cup {next}
           ELSE Goto(c, "over") /\ UNCHANGED <<cursor, issued>>

\* readerWithConnection looks again whether the path names the open file.
Return(c) ==
  /\ at[c] = "returning"
  /\ IF moved THEN Goto(c, "failed") /\ UNCHANGED <<cursor, seen, issued>> ELSE Deliver(c, mine[c], page[c])
  /\ page' = [page EXCEPT ![c] = NoPage]
  /\ UNCHANGED <<file, query, limit, mine, owed, answer>>

\* The memory backend's call is one step: what it reads never changes.
List(c) ==
  /\ at[c] = "key" /\ Backend = "memory"
  /\ IF Opens(key, query[c], cursor[c]) THEN Deliver(c, key, Slice(query[c], limit[c], cursor[c]))
       ELSE Goto(c, "refused") /\ UNCHANGED <<cursor, seen, issued>>
  /\ UNCHANGED <<file, query, limit, mine, page, owed, answer>>

\* The client is done with this listing, or gives it up.
Forget(c) ==
  /\ at[c] \in {"paged", "over", "failed", "refused", "answered"}
  /\ Goto(c, "idle")
  /\ query' = [query EXCEPT ![c] = NoQuery] /\ limit' = [limit EXCEPT ![c] = 0]
  /\ cursor' = [cursor EXCEPT ![c] = NoCursor] /\ mine' = [mine EXCEPT ![c] = None]
  /\ page' = [page EXCEPT ![c] = NoPage] /\ answer' = [answer EXCEPT ![c] = None]
  /\ owed' = [owed EXCEPT ![c] = {}] /\ seen' = [seen EXCEPT ![c] = << >>]
  /\ UNCHANGED <<file, issued>>

-----------------------------------------------------------------------------
(***************************************************************************)
(* Point reads, each of one statement, and the search.                     *)
(***************************************************************************)
Answers(c, what) ==
  /\ at[c] = "idle" /\ ~moved
  /\ answer' = [answer EXCEPT ![c] = what]
  /\ Goto(c, "answered")
  /\ UNCHANGED <<file, query, limit, cursor, mine, page, owed, seen, issued>>

Found(of, x) ==
  IF Backend = "sqlite" /\ Fails(x) THEN [of |-> of, id |-> x, ok |-> FALSE, content |-> None]
  ELSE [of |-> of, id |-> x, ok |-> TRUE, content |-> stored[x]]

\* Artifact, Node, Evidence, Coverage
Record(c) == \E s \in published : \E r \in Holds[s] : Answers(c, Found(s, r))

\* Snapshot, Bundle
Envelope(c) == \E s \in published : Answers(c, Found(s, s))

Current(c) ==
  \E r \in DOMAIN head : head[r] # None /\ Answers(c, Found(r, head[r]))

\* SearchFTS, ranked by a number for its text; a hit more than the limit or the
\* bytes allow is what makes the answer truncated.
Search(c) ==
  \E s \in published, l \in Limits :
    LET ranked == SetToSortSeq(Holds[s], <)
        Take(p, x) == IF p.more THEN p
                      ELSE IF Len(p.items) = l \/ p.bytes > MaxPage - Size[x] THEN [p EXCEPT !.more = TRUE]
                      ELSE [p EXCEPT !.items = Append(@, x), !.bytes = @ + Size[x]]
        found == FoldLeft(Take, NoPage, ranked)
    IN  /\ Backend = "sqlite"
        /\ Answers(c, [of |-> s, ok |-> TRUE, hits |-> found.items, truncated |-> found.more])

-----------------------------------------------------------------------------
(***************************************************************************)
(* The others.                                                             *)
(***************************************************************************)
\* writer.Commit: the snapshot, its records and the head in one transaction.
Publish(s) ==
  /\ s \notin published
  /\ published' = published \cup {s}
  /\ head' = [head EXCEPT ![Repo[s]] = s]
  /\ UNCHANGED <<stored, key, moved, calls, owed, seen, issued, answer>>

\* A record's bytes are changed behind the store, and with them, maybe, the
\* fields that filters compare.
Rot(r) ==
  /\ Backend = "sqlite"
  /\ Cardinality({x \in DOMAIN stored : stored[x] # "good"}) < MaxRots
  /\ stored[r] = "good"
  /\ \E x \in Records : stored' = [stored EXCEPT ![r] = Tag[x]]
  /\ UNCHANGED <<published, head, key, moved, calls, owed, seen, issued, answer>>

Move ==
  /\ Backend = "sqlite" /\ ~moved /\ moved' = TRUE
  /\ UNCHANGED <<published, head, stored, key, calls, owed, seen, issued, answer>>

Reader(c) ==
  \/ Ask(c) \/ Continue(c) \/ ReadKey(c) \/ CreateKey(c) \/ OpenCursor(c) \/ Rows(c) \/ Return(c)
  \/ List(c) \/ Forget(c)
  \/ Record(c) \/ Envelope(c) \/ Current(c) \/ Search(c)

Next ==
  \/ \E c \in Readers : Reader(c)
  \/ \E s \in Snaps : Publish(s)
  \/ \E r \in Records : Rot(r)
  \/ Move

Spec == Init /\ [][Next]_vars

-----------------------------------------------------------------------------
Listed(c) == {seen[c][i][1] : i \in 1..Len(seen[c])}

\* A listing goes forward in its order and lists nothing twice, and one that
\* has come to its end lists everything there was when it began, whatever is
\* published between and within its pages (store_reader_query.go:34, :340);
\* only a row that was changed may be missed by a filter.
ListsEachOnce ==
  \A c \in Readers :
    /\ \A i, j \in 1..Len(seen[c]) : i < j => Before(query[c], seen[c][i][1], seen[c][j][1])
    /\ seen[c] # << >> => Listed(c) \subseteq Filtered(query[c], Tag)
    /\ at[c] = "over" => {x \in owed[c] : query[c].tag # None => stored[x] = "good"} \subseteq Listed(c)

\* Readers that create the key at the same time sign with the same one: a
\* cursor is refused to another query, or where the row it stands on was changed
\* (store_reader_cursor.go:31).
CursorsHonoured ==
  \A c \in Readers :
    at[c] = "refused" =>
      \/ cursor[c].kind # query[c].kind \/ cursor[c].scope # Scope(query[c])
      \/ query[c].tag # None /\ stored[cursor[c].id] # "good"

\* No record that was changed in the file is returned for the published one.
RecordsGenuine ==
  \A c \in Readers :
    /\ \A i \in 1..Len(seen[c]) : seen[c][i][2] = "good"
    /\ answer[c] # None /\ answer[c].ok /\ "content" \in DOMAIN answer[c] => answer[c].content = "good"

\* A search that does not call itself truncated has every hit.
SearchHonest ==
  \A c \in Readers :
    answer[c] # None /\ "hits" \in DOMAIN answer[c] /\ ~answer[c].truncated
      => ToSet(answer[c].hits) = Holds[answer[c].of]

ReaderSound == ListsEachOnce /\ CursorsHonoured /\ RecordsGenuine /\ SearchHonest

\* A listing of snapshots is in the order in which they were made, newest first
\* (store_reader_query.go:31, memory_reader.go:79).
NewestFirst ==
  \A c \in Readers :
    query[c].kind = "snapshots" =>
      \A i, j \in 1..Len(seen[c]) : i < j => ~Earlier(Created[seen[c][i][1]], Created[seen[c][j][1]])
=============================================================================
