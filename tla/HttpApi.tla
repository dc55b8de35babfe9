------------------------------- MODULE HttpApi -------------------------------
(* The read API over an atlas (internal/server): loading the directory of an  *)
(* atlas, or checking that one is still what was loaded, while others replace *)
(* or edit it, and serving listings of it page by page while another atlas is *)
(* activated or the server restarts.                                          *)
(*                                                                            *)
(* An atlas is a directory [marker, manifest, files].  A file is its content, *)
(* and a digest stands for the content it was made of, so an export manifest  *)
(* [snapshot, files] gives the content of each file it lists.  The body of a  *)
(* bundle is a pair, what its nodes and what its edges hold; BuildCoverage    *)
(* gives the same coverage for bodies of one size.  A read of one file is one *)
(* step; sizes matter for the budget of a legacy atlas only.                  *)
EXTENDS Integers, FiniteSets, SequencesExt

CONSTANTS
  Atlases,     \* what the directory may hold
  Pins,        \* those of them that may have been verified before
  Edits,       \* of some files, what else they may be made to hold, None for nothing
  Shelf,       \* bundles of other atlases the server may activate
  Stored,      \* what a store may return for a snapshot: [asked, bundle, coverage]
  Valid,       \* bodies that are canonical and validate
  CountsOf,    \* of each body, what coverage counts
  RowsOf,      \* of each body, its records in canonical order
  DocumentsOf, \* of each body, its search documents: [score, name, size, complete]
  Clients, Queries, Limits,
  TotalBytes, RecordsPerFile, TotalRecords,
  MaxChanges, MaxServes, MaxRestarts,
  None, Broken

VARIABLES
  atlas,       \* the directory: [dir, holds]
  shelved,     \* the directory that was there before it, None if there was none
  changes,     \* how often others changed it
  returned,    \* whether the shelved directory came back during the task
  task,        \* the load or check under way
  served,      \* the dataset requests are answered from
  generation,  \* the last generation given out by this process
  process,     \* the server process, which has a signing key of its own
  call,        \* of each client, its request being answered
  view         \* of each client, what it was given

loading == <<atlas, shelved, changes, returned, task>>
serving == <<served, generation, process, call, view>>
httpVars == <<loading, serving>>

Required == {"bundle", "snapshot", "coverage"}
Order == <<"bundle", "coverage", "edges", "index", "nodes", "snapshot">>
Legacy == <<"nodes", "edges">>

Coverage(bundle) == [snapshot |-> bundle.snapshot, counts |-> CountsOf[bundle.body]]
Idle == [at |-> "idle"]
NoView == [query |-> None]
Serving(bundle, g, p) == [bundle |-> bundle, generation |-> g, process |-> p]

HttpInit ==
  /\ \E a \in Atlases : atlas = [dir |-> 0, holds |-> a]
  /\ shelved = None /\ changes = 0 /\ returned = FALSE /\ task = Idle
  /\ generation = 1 /\ process = 1
  /\ \E b \in Shelf : served = Serving(b, 1, 1)
  /\ call = [c \in Clients |-> None] /\ view = [c \in Clients |-> NoView]

-----------------------------------------------------------------------------
(* Others change the directory: a publication puts another in its place, or   *)
(* fails later and puts the first one back; some program rewrites a file.     *)
Replace(a) ==
  /\ changes < MaxChanges /\ a # atlas.holds
  /\ atlas' = [dir |-> changes + 1, holds |-> a]
  /\ shelved' = atlas /\ changes' = changes + 1
  /\ UNCHANGED <<returned, task, serving>>

Return ==
  /\ changes < MaxChanges /\ shelved # None
  /\ atlas' = shelved /\ shelved' = None /\ changes' = changes + 1
  /\ returned' = TRUE
  /\ UNCHANGED <<task, serving>>

Edit(name, content) ==
  /\ changes < MaxChanges
  /\ atlas' = IF name = "manifest" THEN [atlas EXCEPT !.holds.manifest = content]
              ELSE [atlas EXCEPT !.holds.files =
                      [n \in (IF content = None THEN DOMAIN @ \ {name} ELSE DOMAIN @ \cup {name}) |-> IF n = name THEN content ELSE @[n]]]
  /\ atlas' # atlas /\ changes' = changes + 1
  /\ UNCHANGED <<shelved, returned, task, serving>>

-----------------------------------------------------------------------------
(* Load and VerifyUnchangedExport.                                            *)
Goes(t) == task' = t /\ UNCHANGED <<atlas, shelved, changes, returned, serving>>
Fail == Goes([at |-> "failed", goal |-> task.goal])
Files == atlas.holds.files
Manifest == atlas.holds.manifest

Load ==
  /\ task = Idle
  /\ Goes([at |-> "marker", goal |-> "load", captured |-> << >>])

\* The pin is the snapshot and the manifest of an atlas that was loaded once.
VerifyUnchanged(a) ==
  /\ task = Idle
  /\ Goes([at |-> "marker", goal |-> "verify", captured |-> << >>,
           pin |-> [snapshot |-> a.marker, manifest |-> a.manifest], before |-> atlas.dir])

Marked(marker) == IF task.goal = "verify" THEN marker = task.pin.snapshot ELSE marker # Broken

ReadMarker ==
  /\ task.at = "marker"
  /\ IF Marked(atlas.holds.marker)
     THEN Goes([task EXCEPT !.at = IF task.goal = "verify" THEN "pin" ELSE "manifest"]
               @@ [marker |-> atlas.holds.marker])
     ELSE Fail

\* The digest of the manifest is the pinned one, before the check and after it.
CheckPin ==
  /\ task.at \in {"pin", "pin again"}
  /\ IF Manifest = task.pin.manifest
     THEN Goes([task EXCEPT !.at = IF task.at = "pin" THEN "manifest" ELSE "root"])
     ELSE Fail

ReadManifest ==
  /\ task.at = "manifest"
  /\ IF Manifest # None THEN Goes([task EXCEPT !.at = "walk"] @@ [manifest |-> Manifest])
     ELSE IF task.goal = "load" /\ task.marker = None THEN Goes([task EXCEPT !.at = "legacy"])
     ELSE Fail

Walk ==
  /\ task.at = "walk"
  /\ Goes([task EXCEPT !.at = "hash"]
          @@ [inventory |-> DOMAIN Files, todo |-> SelectSeq(Order, LAMBDA n : n \in DOMAIN task.manifest.files)])

HashNext ==
  /\ task.at = "hash" /\ task.todo # << >>
  /\ LET n == Head(task.todo)
     IN IF n \in task.inventory /\ n \in DOMAIN Files /\ task.manifest.files[n] = Files[n]
        THEN Goes([task EXCEPT !.todo = Tail(@), !.captured = [m \in {n} |-> Files[n]] @@ @])
        ELSE Fail

\* Nothing is on the disk that the manifest does not list, and what was captured
\* is one canonical bundle under the names everything gives it.
Complete ==
  /\ task.inventory = DOMAIN task.manifest.files
  /\ Required \subseteq task.inventory

Agrees(bundle, snapshot) == bundle.snapshot = snapshot /\ bundle.body \in Valid

Checked ==
  /\ task.at = "hash" /\ task.todo = << >>
  /\ IF ~Complete THEN Fail
     ELSE IF task.goal = "verify"
     THEN IF task.manifest.snapshot = task.pin.snapshot THEN Goes([task EXCEPT !.at = "pin again"]) ELSE Fail
     ELSE IF /\ task.marker \in {None, task.manifest.snapshot}
             /\ Agrees(task.captured["bundle"], task.captured["snapshot"])
             /\ task.manifest.snapshot = task.captured["snapshot"]
             /\ task.captured["coverage"] = Coverage(task.captured["bundle"])
     THEN Goes([task EXCEPT !.at = "index"]) ELSE Fail

Loaded(bundle, manifest, index, integrity) ==
  Goes([at |-> "done", goal |-> "load", captured |-> task.captured, marker |-> task.marker, manifest |-> manifest,
        bundle |-> bundle, coverage |-> Coverage(bundle), index |-> index, integrity |-> integrity])

Built(bundle) == [snapshot |-> bundle.snapshot, body |-> bundle.body, text |-> FALSE]

\* The search index is read a second time, and used only if it is the one that
\* was verified and belongs to the bundle; one that is gone is built anew.
ReadIndex ==
  /\ task.at = "index"
  /\ LET bundle == task.captured["bundle"]
         integrity == IF task.marker = None THEN "verified_legacy_unmarked" ELSE "verified"
     IN IF "index" \notin DOMAIN task.manifest.files \cap DOMAIN Files THEN Loaded(bundle, task.manifest, Built(bundle), integrity)
        ELSE IF Files["index"] # task.manifest.files["index"] THEN Fail
        ELSE IF ~Files["index"].text THEN Loaded(bundle, task.manifest, Built(bundle), integrity)
        ELSE IF Files["index"] = [Built(bundle) EXCEPT !.text = TRUE] THEN Loaded(bundle, task.manifest, Files["index"], integrity)
        ELSE Fail

\* A layout without a manifest is read only if it has no bundle either: that one
\* must have had a manifest.
ReadLegacy ==
  /\ task.at = "legacy"
  /\ IF "bundle" \in DOMAIN Files \/ "snapshot" \notin DOMAIN Files THEN Fail
     ELSE Goes([task EXCEPT !.at = "records", !.captured = [n \in {"snapshot"} |-> Files["snapshot"]]]
               @@ [todo |-> Legacy, bytes |-> 1, records |-> 0])

Affordable(file) ==
  /\ file.bytes <= TotalBytes - task.bytes
  /\ file.records <= RecordsPerFile
  /\ task.records + file.records <= TotalRecords

ReadRecords ==
  /\ task.at = "records" /\ task.todo # << >>
  /\ LET n == Head(task.todo)
     IN IF n \in DOMAIN Files /\ Affordable(Files[n])
        THEN Goes([task EXCEPT !.todo = Tail(@), !.captured = [m \in {n} |-> Files[n]] @@ @,
                               !.bytes = @ + Files[n].bytes, !.records = @ + Files[n].records])
        ELSE Fail

LegacyBundle ==
  [snapshot |-> task.captured["snapshot"], body |-> <<task.captured["nodes"].holds, task.captured["edges"].holds>>]

ReadSnapshotAgain ==
  /\ task.at = "records" /\ task.todo = << >>
  /\ IF "snapshot" \in DOMAIN Files /\ Agrees(LegacyBundle, Files["snapshot"])
     THEN Goes([task EXCEPT !.at = "coverage"]) ELSE Fail

ReadCoverage ==
  /\ task.at = "coverage"
  /\ IF "coverage" \in DOMAIN Files /\ Files["coverage"] # Coverage(LegacyBundle) THEN Fail
     ELSE Loaded(LegacyBundle, None, Built(LegacyBundle), "legacy_unverified")

SameRoot ==
  /\ task.at = "root"
  /\ IF atlas.dir = task.before THEN Goes([task EXCEPT !.at = "unchanged"]) ELSE Fail

\* The context of a check ends.
Interrupt == task.at \notin {"idle", "failed", "done", "unchanged"} /\ task.goal = "verify" /\ Fail

\* LoadStore: what a store returns for a snapshot.
LoadStore(s) ==
  /\ task = Idle
  /\ IF /\ s.bundle.snapshot = s.asked /\ s.bundle.body \in Valid
        /\ s.coverage.snapshot = s.asked /\ s.coverage = Coverage(s.bundle)
     THEN Goes([at |-> "done", goal |-> "load", captured |-> << >>, marker |-> None, manifest |-> None, bundle |-> s.bundle,
                coverage |-> s.coverage, index |-> Built(s.bundle), integrity |-> "verified_store"])
     ELSE Goes([at |-> "failed", goal |-> "load"])

TaskNext ==
  \/ Load \/ ReadMarker \/ CheckPin \/ ReadManifest \/ Walk \/ HashNext \/ Checked \/ ReadIndex
  \/ ReadLegacy \/ ReadRecords \/ ReadSnapshotAgain \/ ReadCoverage \/ SameRoot \/ Interrupt
  \/ \E a \in Pins : VerifyUnchanged(a)
  \/ \E s \in Stored : LoadStore(s)

-----------------------------------------------------------------------------
(* Rankings and listings of one dataset.  A query is [mode, wants]: "rows"    *)
(* lists records, "ranked" searches, "packet" makes cited context of a        *)
(* search, within [limit, budget].                                            *)
Documents(b) == DocumentsOf[b.body]

Better(ds, m, n) ==
  \/ ds[m].score > ds[n].score
  \/ ds[m].score = ds[n].score /\ ds[m].name < ds[n].name
  \/ ds[m].score = ds[n].score /\ ds[m].name = ds[n].name /\ m < n

\* What comes after a position: a score and the document that had it.
Follows(ds, n, after) ==
  after = None \/ ds[n].score < after.score
    \/ (ds[n].score = after.score /\ (ds[n].name > ds[after.id].name \/ (ds[n].name = ds[after.id].name /\ n > after.id)))

SearchPage(b, q, limit, after) ==
  LET ds == Documents(b)
      matching == DOMAIN ds \cap q.wants
      remaining == {n \in matching : Follows(ds, n, after)}
      sorted == SetToSortSeq(remaining, LAMBDA m, n : Better(ds, m, n))
  IN [hits |-> SubSeq(sorted, 1, IF Len(sorted) > limit THEN limit ELSE Len(sorted)),
      total |-> Cardinality(matching), truncated |-> Len(sorted) > limit]

-----------------------------------------------------------------------------
(* Pages.  A cursor is bound to the process whose key signed it, to the       *)
(* dataset as it was loaded, and to the query, all but its limit.             *)
Scope(d, q) == <<d.bundle.snapshot, q>>

NextCursor(d, q, position, total, score) ==
  [process |-> d.process, generation |-> d.generation, scope |-> Scope(d, q),
   position |-> position, total |-> total, score |-> score]

Acceptable(d, q, cursor) ==
  /\ cursor.process = d.process
  /\ cursor.generation = d.generation
  /\ cursor.scope = Scope(d, q)

PageError == [error |-> TRUE]
Page(items, total, cursor, truncated) ==
  [error |-> FALSE, items |-> items, total |-> total, cursor |-> cursor, truncated |-> truncated]

CollectionPage(d, q, limit, cursor) ==
  LET rows == RowsOf[d.bundle.body]
      start == IF cursor = None THEN 1 ELSE cursor.position
      found == SelectSeq([i \in 1..Len(rows) |-> i], LAMBDA i : i >= start /\ rows[i] \in q.wants)
      total == IF cursor = None THEN Len(found) ELSE cursor.total
      more == Len(found) > limit
      items == [i \in 1..(IF more THEN limit ELSE Len(found)) |-> rows[found[i]]]
  IN IF cursor # None /\ (start > Len(rows) \/ total > Len(rows)) THEN PageError
     ELSE Page(items, total, IF more THEN NextCursor(d, q, found[limit + 1], total, 0) ELSE None, more)

RankedPage(d, q, limit, cursor) ==
  LET ids == SetToSortSeq(DOMAIN Documents(d.bundle), <)
      after == IF cursor = None THEN None ELSE [score |-> cursor.score, id |-> ids[cursor.position]]
      page == SearchPage(d.bundle, q, limit, after)
      last == Last(page.hits)
      at == CHOOSE i \in DOMAIN ids : ids[i] = last
  IN IF cursor # None /\ (cursor.position > Len(ids) \/ cursor.total > Len(ids)) THEN PageError
     ELSE IF cursor # None /\ page.total # cursor.total THEN PageError
     ELSE Page(page.hits, page.total,
               IF page.truncated /\ page.hits # << >>
               THEN NextCursor(d, q, at, page.total, Documents(d.bundle)[last].score) ELSE None,
               page.truncated)

\* BuildContext: every item that still fits, whatever came before it did.
Admit(packet, ds, n, budget) ==
  LET bytes == packet.bytes + ds[n].size + (IF packet.items = << >> THEN 0 ELSE 1)
  IN IF bytes > budget THEN [packet EXCEPT !.truncated = TRUE]
     ELSE [packet EXCEPT !.items = Append(@, n), !.bytes = bytes, !.partial = @ \/ ~ds[n].complete]

BuildContext(d, q, limit) ==
  LET page == SearchPage(d.bundle, q, limit, None)
      packet == FoldLeft(LAMBDA acc, n : Admit(acc, Documents(d.bundle), n, q.budget),
                         [items |-> << >>, bytes |-> 2, truncated |-> page.truncated, partial |-> FALSE], page.hits)
  IN Page(packet.items, page.total, None, packet.truncated \/ packet.partial)

Respond(d, q, limit, cursor) ==
  IF cursor # None /\ ~Acceptable(d, q, cursor) THEN PageError
  ELSE IF q.mode = "rows" THEN CollectionPage(d, q, limit, cursor)
  ELSE IF q.mode = "ranked" THEN RankedPage(d, q, limit, cursor)
  ELSE BuildContext(d, q, limit)

\* A request resolves the dataset once, whatever is activated before it is answered.
Request(c, q, limit, resumes) ==
  /\ call[c] = None
  /\ resumes => view[c].query # None /\ view[c].cursor # None /\ q.mode # "packet"
  /\ call' = [call EXCEPT ![c] = [query |-> q, limit |-> limit, dataset |-> served,
                                  cursor |-> IF resumes THEN view[c].cursor ELSE None]]
  /\ UNCHANGED <<loading, served, generation, process, view>>

Reply(c) ==
  /\ call[c] # None
  /\ call' = [call EXCEPT ![c] = None]
  /\ LET r == call[c]
         page == Respond(r.dataset, r.query, r.limit, r.cursor)
         first == r.cursor = None
     IN view' = [view EXCEPT ![c] =
          IF page.error THEN NoView
          ELSE [query |-> r.query, of |-> IF first THEN r.dataset ELSE @.of, last |-> r.dataset,
                items |-> IF first THEN page.items ELSE @.items \o page.items,
                limit |-> r.limit, total |-> page.total, cursor |-> page.cursor, truncated |-> page.truncated]]
  /\ UNCHANGED <<loading, served, generation, process>>

\* Another atlas, or the same one loaded again, becomes what requests are answered from.
Activate ==
  /\ generation < MaxServes
  /\ \E b \in Shelf \cup (IF task.at = "done" THEN {task.bundle} ELSE {}) : served' = Serving(b, generation + 1, process)
  /\ generation' = generation + 1
  /\ UNCHANGED <<loading, process, call, view>>

\* The server starts again: what was being answered is lost, cursors are not.
Restart ==
  /\ process <= MaxRestarts
  /\ process' = process + 1 /\ generation' = 1
  /\ \E b \in Shelf : served' = Serving(b, 1, process + 1)
  /\ call' = [c \in Clients |-> None]
  /\ UNCHANGED <<loading, view>>

HttpNext ==
  \/ TaskNext \/ Activate \/ Restart \/ Return
  \/ \E a \in Atlases : Replace(a)
  \/ \E n \in DOMAIN Edits : \E content \in Edits[n] : Edit(n, content)
  \/ \E c \in Clients : Reply(c) \/ \E q \in Queries, limit \in Limits, resumes \in BOOLEAN : Request(c, q, limit, resumes)

HttpSpec == HttpInit /\ [][HttpNext]_httpVars

-----------------------------------------------------------------------------
\* A dataset whose integrity is claimed is all that one manifest lists, as it does, under
\* the snapshot of its marker, however the directory changed during the load; and
\* every index of it belongs to its bundle (server.go:107-178).
LoadedSound ==
  task.at = "done" =>
    /\ task.integrity \in {"verified", "verified_legacy_unmarked"} =>
         /\ task.manifest.snapshot = task.bundle.snapshot /\ task.captured = task.manifest.files
         /\ task.captured["bundle"] = task.bundle /\ task.captured["coverage"] = task.coverage
         /\ task.index.text => task.captured["index"] = task.index
    /\ (task.integrity = "verified") <=> (task.marker # None)
    /\ task.marker \in {None, task.bundle.snapshot}
    /\ task.bundle.body \in Valid /\ task.coverage = Coverage(task.bundle)
    /\ task.index.snapshot = task.bundle.snapshot /\ task.index.body = task.bundle.body

\* A check that passes has seen every file of the pinned manifest as it was pinned,
\* unless the directory it began in was gone and came back (unchanged.go:14-16).
UnchangedSound ==
  task.at = "unchanged" /\ ~returned =>
    /\ task.captured = task.pin.manifest.files /\ task.inventory = DOMAIN task.captured
    /\ task.marker = task.pin.snapshot

\* What a client put together by following cursors is a part, from its beginning
\* and in order, of one listing of one dataset, with its total, and complete when
\* there is no cursor, whatever the limits were (pagination.go:32-34, 171-172).
Listing(b, q) ==
  IF q.mode = "rows" THEN SelectSeq(RowsOf[b.body], LAMBDA r : r \in q.wants)
  ELSE CHOOSE s \in SetToSeqs(DOMAIN Documents(b) \cap q.wants) :
         \A i, j \in DOMAIN s : i < j => Better(Documents(b), s[i], s[j])

PagesSound ==
  \A c \in Clients : view[c].query # None /\ view[c].query.mode # "packet" =>
    LET v == view[c]
        listing == Listing(v.of.bundle, v.query)
    IN /\ IsPrefix(v.items, listing)
       /\ v.total = Len(listing)
       /\ v.last = v.of
       /\ (v.cursor = None) <=> (v.items = listing)
       /\ v.truncated <=> (v.cursor # None)

\* A packet keeps to its budget, leaves out only what is beyond the limit or did not
\* fit after what was ranked before it, and says when it leaves anything out or an
\* item of it is incomplete (context.go:160-176).
PacketsSound ==
  \A c \in Clients : view[c].query # None /\ view[c].query.mode = "packet" =>
    LET v == view[c]
        ds == Documents(v.of.bundle)
        listing == Listing(v.of.bundle, v.query)
        Size(S) == FoldSet(LAMBDA n, sum : sum + ds[n].size + 1, 1, S)
    IN /\ v.items # << >> => Size(ToSet(v.items)) <= v.query.budget
       /\ v.items = SelectSeq(listing, LAMBDA n : n \in ToSet(v.items))
       /\ \A i \in DOMAIN listing :
            i > v.limit \/ listing[i] \in ToSet(v.items)
              \/ Size({listing[i]} \cup {n \in ToSet(v.items) : Better(ds, n, listing[i])}) > v.query.budget
       /\ ~v.truncated => v.items = listing /\ \A n \in ToSet(v.items) : ds[n].complete

HttpSound == LoadedSound /\ UnchangedSound /\ PagesSound /\ PacketsSound
=============================================================================
