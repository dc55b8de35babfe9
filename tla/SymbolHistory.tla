---------------------------- MODULE SymbolHistory ----------------------------
(* The compiler of interface histories and the import of what it compiled     *)
(* (internal/history, cmd/rkc/history.go).                                    *)
(*                                                                            *)
(* The compiler resolves HEAD, lists a window of the first-parent chain and   *)
(* walks it from the oldest commit to the newest.  It keeps the symbols of    *)
(* the files it has met and so extracts each version of a file once; what the *)
(* commit before the window declared is extracted when a change first needs   *)
(* it.  HEAD moves, and files of histories are replaced, while it works.      *)
(*                                                                            *)
(* A commit is its place in the chain; paths are numbers, in their order; a   *)
(* tree gives for each path the symbols it declares, each with its signature  *)
(* without its name, 0 if it has none.                                        *)
EXTENDS Integers, FiniteSets, SequencesExt

CONSTANTS
  Chains,      \* first-parent chains: sequences of trees, the root first
  Language,    \* of each path: "go", "typescript", or "" if nothing analyzes it
  Limits,      \* sizes of the window
  MaxSignatures,
  MaxBuilds, MaxScans

VARIABLES
  chain,       \* the repository
  tip,         \* HEAD
  runs,        \* compilations and scans begun
  build,       \* the compilation under way
  compiled,    \* the history file
  importer,    \* the scan that imports it
  facts        \* what the last scan that did says of its nodes, and its supersedes edges

historic == <<chain, tip, runs, build, compiled, importer, facts>>

Fn0 == [x \in {} |-> 0]
NoBuild == [stage |-> "idle"]
NoHistory == [head |-> 0]
NoFacts == [commit |-> 0]

HistoryInit ==
  /\ chain \in Chains /\ tip \in {Len(chain) - 1, Len(chain)} \ {0}
  /\ runs = [builds |-> 0, scans |-> 0]
  /\ build = NoBuild /\ importer = NoBuild /\ compiled = NoHistory /\ facts = NoFacts

-----------------------------------------------------------------------------
(* Git.                                                                       *)
TreeAt(c) == IF c = 0 THEN Fn0 ELSE chain[c]

\* Renames pair paths that went with paths that came, as Git finds them alike.
Pairings(gone, came) ==
  {R \in SUBSET (gone \X came) : \A p, q \in R : p # q => p[1] # q[1] /\ p[2] # q[2]}

\* diff-tree --name-status, for one such choice, where the entries in T have
\* become links or files again.
Statuses(c, R, T) ==
  LET old == TreeAt(c - 1)
      new == TreeAt(c)
  IN {[status |-> "R", old |-> p[1], new |-> p[2]] : p \in R}
     \cup {[status |-> "D", old |-> p, new |-> p] : p \in {q \in DOMAIN old \ DOMAIN new : \A r \in R : r[1] # q}}
     \cup {[status |-> "A", old |-> p, new |-> p] : p \in {q \in DOMAIN new \ DOMAIN old : \A r \in R : r[2] # q}}
     \cup {[status |-> "T", old |-> p, new |-> p] : p \in T}
     \cup {[status |-> "M", old |-> p, new |-> p] : p \in {q \in (DOMAIN old \cap DOMAIN new) \ T : old[q] # new[q]}}

\* Commits arrive, or HEAD goes back to an earlier one.
MoveHead == tip' \in DOMAIN chain \ {tip} /\ UNCHANGED <<chain, runs, build, compiled, importer, facts>>

-----------------------------------------------------------------------------
(* The changes of a commit.                                                   *)
Analyzable(p) == Language[p] # ""

\* parseNameStatus: a rename into, out of or across languages is not one.
Split(s) ==
  IF s.status # "R" THEN {x \in {s} : Analyzable(s.new)}
  ELSE IF Analyzable(s.old) /\ Language[s.old] = Language[s.new] THEN {s}
  ELSE {x \in {[status |-> "D", old |-> s.old, new |-> s.old], [status |-> "A", old |-> s.new, new |-> s.new]} : Analyzable(x.new)}

Order(x, y) == x.new < y.new \/ (x.new = y.new /\ x.old < y.old) \/ (x.new = y.new /\ x.old = y.old /\ x.status = "A" /\ y.status # "A")
Changes(c, R, T) == SetToSortSeq(UNION {Split(s) : s \in Statuses(c, R, T)}, Order)

\* extractSymbolsAt: identity is language, kind and qualified name.
Extract(c, p) == [id \in {<<Language[p], s>> : s \in DOMAIN TreeAt(c)[p]} |-> [path |-> p, sig |-> TreeAt(c)[p][id[2]]]]

Before(c, p, states) ==
  IF p \in DOMAIN states THEN states[p] ELSE IF c = 1 THEN Fn0 ELSE Extract(c - 1, p)

\* observeFileChange.
Observed(c, s, states) ==
  [before |-> IF s.status = "A" THEN Fn0 ELSE Before(c, s.old, states),
   after |-> IF s.status = "D" THEN Fn0 ELSE Extract(c, s.new)]

\* advanceFileState.
Advanced(states, s, after) ==
  LET left == IF s.status \in {"D", "R"} THEN DOMAIN states \ {s.old} ELSE DOMAIN states
  IN [p \in left \cup (IF s.status = "D" THEN {} ELSE {s.new}) |-> IF s.status # "D" /\ p = s.new THEN after ELSE states[p]]

-----------------------------------------------------------------------------
(* The delta of a commit: observations, by identity.                          *)
NoDelta == [added |-> Fn0, removed |-> Fn0, changed |-> Fn0]
Plus(m, new) ==
  [id \in DOMAIN m \cup DOMAIN new |-> (IF id \in DOMAIN m THEN m[id] ELSE << >>) \o (IF id \in DOMAIN new THEN new[id] ELSE << >>)]
Only(S, of(_)) == [id \in S |-> of(id)]

\* mergeFileDelta.
MergeFile(d, o) ==
  LET both == DOMAIN o.before \cap DOMAIN o.after
  IN [added |-> Plus(d.added, Only(DOMAIN o.after \ DOMAIN o.before, LAMBDA id : <<o.after[id]>>)),
      removed |-> Plus(d.removed, Only(DOMAIN o.before \ DOMAIN o.after, LAMBDA id : <<o.before[id]>>)),
      changed |-> Plus(d.changed, Only({id \in both : o.before[id] # o.after[id]}, LAMBDA id : <<o.before[id], o.after[id]>>))]

\* reconcileMoves: what went from one file and came in another has moved.
Reconciled(d) ==
  LET moved == DOMAIN d.added \cap DOMAIN d.removed
      but(m) == [id \in DOMAIN m \ moved |-> m[id]]
  IN [added |-> but(d.added), removed |-> but(d.removed),
      changed |-> Plus(d.changed, Only(moved, LAMBDA id : d.removed[id] \o d.added[id]))]

Walk(c, changes, states) ==
  LET one(w, s) == LET o == Observed(c, s, w.states)
                   IN [states |-> Advanced(w.states, s, o.after), delta |-> MergeFile(w.delta, o)]
      end == FoldLeft(one, [states |-> states, delta |-> NoDelta], changes)
  IN [states |-> end.states, delta |-> Reconciled(end.delta)]

-----------------------------------------------------------------------------
(* Lifecycles.                                                                *)

\* recordLifecycle: a signature is kept when it is news, up to the bound.
Noted(e, c, o) ==
  LET f == [e EXCEPT !.files = @ \cup {o.path}]
      same == e.sigs # << >> /\ Last(e.sigs).sig = o.sig /\ Last(e.sigs).path = o.path
  IN IF o.sig = 0 \/ same THEN f
     ELSE IF Len(e.sigs) >= MaxSignatures THEN [f EXCEPT !.cut = TRUE]
     ELSE [f EXCEPT !.sigs = Append(@, [commit |-> c, sig |-> o.sig, path |-> o.path])]

Recorded(life, c, m) ==
  LET of(id) == IF id \in DOMAIN life THEN [life[id] EXCEPT !.last = c, !.touched = @ \cup {c}]
                ELSE [first |-> c, last |-> c, files |-> {}, touched |-> {c}, sigs |-> << >>, cut |-> FALSE]
  IN [id \in DOMAIN life \cup DOMAIN m |->
        IF id \in DOMAIN m THEN FoldLeft(LAMBDA e, o : Noted(e, c, o), of(id), m[id]) ELSE life[id]]

\* detectRefactors: of one language and one signature exactly one went and
\* exactly one came.
Single(m, lang, sig) == {id \in DOMAIN m : id[1] = lang /\ Len(m[id]) = 1 /\ m[id][1].sig = sig /\ sig # 0}
Refactors(c, d) ==
  UNION {LET sig == d.removed[id][1].sig
             went == Single(d.removed, id[1], sig)
             came == Single(d.added, id[1], sig)
         IN {[commit |-> c, old |-> id, new |-> n] : n \in {x \in came : Cardinality(went) = 1 /\ Cardinality(came) = 1 /\ id \in went}} :
           id \in DOMAIN d.removed}

-----------------------------------------------------------------------------
(* Compilation.                                                               *)
Resolve(limit) ==
  /\ build.stage = "idle" /\ runs.builds < MaxBuilds /\ runs' = [runs EXCEPT !.builds = @ + 1]
  /\ build' = [stage |-> "resolved", head |-> tip, limit |-> limit]
  /\ UNCHANGED <<chain, tip, compiled, importer, facts>>

\* git log starts at whatever HEAD is by now; it must be the one resolved.
Window(head, limit) == IF head > limit THEN head - limit + 1 ELSE 1
List ==
  /\ build.stage = "resolved"
  /\ build' = IF tip = build.head
              THEN [stage |-> "walking", head |-> tip, limit |-> build.limit, next |-> Window(tip, build.limit), states |-> Fn0,
                    deltas |-> Fn0, life |-> Fn0, refactors |-> {}]
              ELSE NoBuild
  /\ UNCHANGED <<chain, tip, runs, compiled, importer, facts>>

Analyze(R, T) ==
  /\ build.stage = "walking" /\ build.next <= build.head
  /\ LET c == build.next
         walk == Walk(c, Changes(c, R, T), build.states)
         d == walk.delta
     IN build' = [build EXCEPT !.next = c + 1, !.states = walk.states,
                    !.deltas = [k \in DOMAIN @ \cup {c} |-> IF k = c THEN [added |-> DOMAIN d.added, removed |-> DOMAIN d.removed, changed |-> DOMAIN d.changed] ELSE build.deltas[k]],
                    !.life = Recorded(Recorded(Recorded(@, c, d.added), c, d.removed), c, d.changed),
                    !.refactors = @ \cup Refactors(c, d)]
  /\ UNCHANGED <<chain, tip, runs, compiled, importer, facts>>

\* A cancel, a commit of too many files, a blob that cannot be extracted.
Abandon1 == build.stage # "idle" /\ build' = NoBuild /\ UNCHANGED <<chain, tip, runs, compiled, importer, facts>>

\* validateCompiledHistory: one chain, complete to its root or truncated at the
\* limit; whatever a commit or a refactor names has its lifecycle in the window.
Valid2(h) ==
  LET window == DOMAIN h.deltas IN
  /\ window = h.oldest..h.head /\ Cardinality(window) <= h.limit
  /\ h.truncated <=> h.oldest > 1
  /\ h.truncated => Cardinality(window) = h.limit
  /\ \A id \in DOMAIN h.life : {h.life[id].first, h.life[id].last} \cup h.life[id].touched \subseteq window
  /\ \A c \in window : h.deltas[c].added \cup h.deltas[c].removed \cup h.deltas[c].changed \subseteq DOMAIN h.life
  /\ \A r \in h.refactors : r.commit \in window /\ {r.old, r.new} \subseteq DOMAIN h.life /\ r.old # r.new

Finish2 ==
  /\ build.stage = "walking" /\ build.next > build.head
  /\ LET h == [head |-> build.head, limit |-> build.limit, oldest |-> Window(build.head, build.limit),
               truncated |-> build.head > build.limit, deltas |-> build.deltas, life |-> build.life, refactors |-> build.refactors]
     IN compiled' = IF Valid2(h) THEN h ELSE compiled
  /\ build' = NoBuild
  /\ UNCHANGED <<chain, tip, runs, importer, facts>>

-----------------------------------------------------------------------------
(* Import: by a scan of what is checked out, clean or not.                    *)
Prepare2 ==
  /\ importer.stage = "idle" /\ compiled.head # 0
  /\ runs.scans < MaxScans /\ runs' = [runs EXCEPT !.scans = @ + 1]
  /\ importer' = [stage |-> "prepared", input |-> compiled]
  /\ UNCHANGED <<chain, tip, build, compiled, facts>>

Inventory2(dirty) ==
  /\ importer.stage = "prepared"
  /\ importer' = [stage |-> "taken", input |-> importer.input, commit |-> tip, dirty |-> dirty]
  /\ UNCHANGED <<chain, tip, runs, build, compiled, facts>>

\* The nodes are those of the tree that was scanned.
NodesOf(t) == UNION {{<<Language[p], s>> : s \in DOMAIN t[p]} : p \in {q \in DOMAIN t : Analyzable(q)}}

\* ReadCompiledFile: the file still has the bytes that were prepared.
Unchanged2(input) == compiled = input

Import2 ==
  /\ importer.stage = "taken" /\ importer' = NoBuild
  /\ LET h == importer.input
         nodes == NodesOf(chain[importer.commit])
         affine == ~importer.dirty /\ importer.commit = h.head
     IN facts' = IF Unchanged2(h) /\ affine
                 THEN [commit |-> importer.commit, life |-> [id \in nodes \cap DOMAIN h.life |-> h.life[id]], truncated |-> h.truncated,
                       supersedes |-> {r \in h.refactors : {r.old, r.new} \subseteq nodes}]
                 ELSE facts
  /\ UNCHANGED <<chain, tip, runs, build, compiled>>

-----------------------------------------------------------------------------
HistoryNext ==
  \/ MoveHead \/ \E limit \in Limits : Resolve(limit)
  \/ List \/ Abandon1 \/ Finish2 \/ Prepare2 \/ Import2
  \/ /\ build.stage = "walking" /\ build.next <= build.head
     /\ LET old == DOMAIN TreeAt(build.next - 1) new == DOMAIN TreeAt(build.next) IN
        \E R \in Pairings(old \ new, new \ old), T \in SUBSET (old \cap new) : Analyze(R, T)
  \/ \E dirty \in BOOLEAN : Inventory2(dirty)

-----------------------------------------------------------------------------
(* Against the trees themselves.                                              *)
Declared(t, id) == {[path |-> p, sig |-> t[p][id[2]]] : p \in {q \in DOMAIN t : Language[q] = id[1] /\ id[2] \in DOMAIN t[q]}}
NodeIds == UNION {NodesOf(chain[c]) : c \in DOMAIN chain}
Once(t) == \A id \in NodeIds : Cardinality(Declared(t, id)) <= 1

\* A commit names a symbol just when what the tree declares of it changed; where
\* a symbol has one declaration, it is added, removed or changed accordingly.
DeltasExact ==
  compiled.head # 0 =>
    \A c \in compiled.oldest..compiled.head :
      LET d == compiled.deltas[c]
          old == TreeAt(c - 1)
          new == TreeAt(c)
      IN /\ d.added \cup d.removed \cup d.changed = {id \in NodeIds : Declared(old, id) # Declared(new, id)}
         /\ Once(old) /\ Once(new) =>
              /\ d.added = NodesOf(new) \ NodesOf(old)
              /\ d.removed = NodesOf(old) \ NodesOf(new)

\* If nothing was cut, the signature the symbol has in the tree is the last.
Ends(e, id, t) ==
  ~e.cut /\ (\A c \in DOMAIN chain : Once(chain[c])) =>
    \A x \in Declared(t, id) : x.sig # 0 => e.sigs # << >> /\ Last(e.sigs).sig = x.sig /\ Last(e.sigs).path = x.path

\* A lifecycle spans the commits that touched its symbol, and ends with what the
\* symbol is at the head.
LifecyclesExact ==
  compiled.head # 0 =>
    \A id \in DOMAIN compiled.life :
      LET e == compiled.life[id]
          touched == {c \in compiled.oldest..compiled.head : Declared(TreeAt(c - 1), id) # Declared(TreeAt(c), id)}
      IN /\ e.touched = touched /\ e.first \in touched /\ e.last \in touched
         /\ \A c \in touched : e.first <= c /\ c <= e.last
         /\ Ends(e, id, TreeAt(compiled.head))

\* A refactor pairs a symbol that went with one that came, alike but for the
\* name, in one commit.
RefactorsReal ==
  compiled.head # 0 =>
    \A r \in compiled.refactors :
      /\ r.old \in compiled.deltas[r.commit].removed /\ r.new \in compiled.deltas[r.commit].added
      /\ \E x \in Declared(TreeAt(r.commit - 1), r.old), y \in Declared(TreeAt(r.commit), r.new) : x.sig = y.sig

\* A scan attaches only the history of exactly the commit it scanned.
ImportsAffine ==
  facts.commit # 0 => \A id \in DOMAIN facts.life : facts.life[id].last <= facts.commit /\ Ends(facts.life[id], id, TreeAt(facts.commit))

HistorySound == DeltasExact /\ LifecyclesExact /\ RefactorsReal /\ ImportsAffine
=============================================================================
