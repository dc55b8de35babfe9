---------------------------- MODULE RuntimeTrace ----------------------------
(* Runtime captures and their import (internal/runtime, cmd/rkc/trace.go).    *)
(*                                                                            *)
(* A capture looks at the repository, runs an authorized command, looks       *)
(* again, binds what the command said it covered to the artifacts of the      *)
(* first look and seals the record by its own digest.  The record is a file;  *)
(* a scan, of this process or of a later one, prepares such files, loads them *)
(* and imports each into its bundle as assertions.  A process does one of     *)
(* these after the other; an editor changes the repository, and others copy   *)
(* and change the files, all the while.                                       *)
(*                                                                            *)
(* A digest of something is modelled by the thing itself; a path is a         *)
(* sequence of names, and the Git commit is one more path of the repository,  *)
(* which is no artifact.                                                      *)
EXTENDS Integers, FiniteSets, SequencesExt

CONSTANTS
  Repositories,  \* what the repository may hold: path to content
  Contents,      \* what an edit may put at a path
  Ignored,       \* the singleton outputs that are left out of the affinity
  Out,           \* the one of them a capture is written to
  Commit,        \* the path that stands for the Git commit
  Manifest,      \* the name of module files, whose content is the module's path
  Commands,      \* [go, explicit]: a go test run; with flags the capture needs
  Outputs,       \* what a command may say: [profile, events], where profile is a sequence of
                 \* [path, first, last, statements, count] and events of [pkg, test, sub, action, elapsed]
  Functions,     \* the functions of the scan: [path, first, last]
  Claimed,       \* functions other producers said were executed, in whatever trace there is
  Files,         \* where traces are kept
  MaxElapsed, MaxMarked, MaxEdits, MaxCaptures, MaxRestarts

VARIABLES
  tree,      \* the repository
  edited,    \* edits, captures and restarts so far
  capture,   \* the capture under way
  traces,    \* the files
  marked,    \* the records this process captured, oldest first, some forgotten
  born,      \* (history) the records captured: id to what the second look saw, and whether in this process
  scan,      \* the scan under way
  known      \* the last bundle published

tracing == <<tree, edited, capture, traces, marked, born, scan, known>>

NoTrace == [form |-> 0]
Idle1 == [stage |-> "idle"]
NoFacts == [f \in Functions |-> {}]
NoBundle == [seen |-> << >>, asserted |-> NoFacts, missed |-> NoFacts, nodes |-> {}, covers |-> {}, tests |-> {}, taken |-> {}]

TraceInit ==
  /\ tree \in Repositories
  /\ edited = [edits |-> 0, captures |-> 0, restarts |-> 0]
  /\ capture = Idle1 /\ scan = Idle1 /\ known = NoBundle
  /\ traces = [f \in Files |-> NoTrace] /\ marked = << >> /\ born = << >>

-----------------------------------------------------------------------------
(* The repository.                                                            *)

\* contentAffinity: physical identity, without the outputs that cannot cover
\* themselves.
Affinity(t) == [p \in DOMAIN t \ Ignored |-> t[p]]
Artifacts(t) == DOMAIN t \ {Commit}

TraceEdit(p, c) ==
  /\ edited.edits < MaxEdits /\ tree[p] # c
  /\ tree' = [tree EXCEPT ![p] = c] /\ edited' = [edited EXCEPT !.edits = @ + 1]
  /\ UNCHANGED <<capture, traces, marked, born, scan, known>>

-----------------------------------------------------------------------------
(* What the command said.                                                     *)

\* parseCoverageFile, parseCoverageLine: what ran counts with its range; absolute paths are the
\* toolchain's.
Absolute(path) == Head(path) = "/"
Total(records) == FoldLeft(LAMBDA n, r : n + r.statements, 0, records)
Entry(records) ==
  LET ran == SelectSeq(records, LAMBDA r : r.count > 0)
  IN [statements |-> Total(records), executed |-> Total(ran), ranges |-> {<<ran[i].first, ran[i].last>> : i \in DOMAIN ran}]
ParsesProfile(profile) == \A i \in DOMAIN profile : profile[i].first > 0 /\ profile[i].last > 0 /\ profile[i].statements >= 0 /\ profile[i].count >= 0
ProfilePaths(profile) == {profile[i].path : i \in DOMAIN profile}

\* safeTestIdentity, safePackageIdentity: what a subtest is called is not kept.
TestOf(e) == <<e.pkg, e.test, e.sub>>
Terminal(e) == e.action \in {"pass", "fail", "skip"} /\ e.test # ""
ParsesEvents(events) == \A i \in DOMAIN events : Terminal(events[i]) => events[i].elapsed \in 0..MaxElapsed

Priority(s) == CASE s = "skip" -> 1 [] s = "pass" -> 2 [] s = "fail" -> 3
Merged2(l, r) == IF Priority(l) >= Priority(r) THEN l ELSE r

\* parseGoTestJSON: of several results of one name the gravest and the longest.
Tests(events) ==
  LET results == SelectSeq(events, Terminal)
      of(t) == SelectSeq(results, LAMBDA e : TestOf(e) = t)
      one(t) == FoldLeft(LAMBDA r, e : [r EXCEPT !.status = Merged2(r.status, e.action), !.elapsed = IF r.elapsed > e.elapsed THEN @ ELSE e.elapsed],
                         [test |-> t, status |-> Head(of(t)).action, elapsed |-> 0], of(t))
  IN {one(TestOf(results[i])) : i \in DOMAIN results}

-----------------------------------------------------------------------------
(* Binding.                                                                   *)

\* goModuleBindings: each module file, and the directory it is in.
Modules(t) == {[module |-> t[p], directory |-> Front(p)] : p \in {q \in Artifacts(t) : Last(q) = Manifest /\ t[q] # << >>}}
Ambiguous(mods) == \E m, n \in mods : m.module = n.module /\ m.directory # n.directory

\* resolveCoverageArtifact: through exactly one module, or as it is spelt.
Through(m, path) == m.directory \o SubSeq(path, Len(m.module) + 1, Len(path))
Matching(path, t) ==
  {m \in Modules(t) : IsStrictPrefix(m.module, path) /\ Through(m, path) \in Artifacts(t)}
Binds(path, t) == Cardinality(Matching(path, t)) = 1 \/ (Matching(path, t) = {} /\ path \in Artifacts(t))
BoundTo(path, t) == IF Matching(path, t) = {} THEN path ELSE Through(CHOOSE m \in Matching(path, t) : TRUE, path)

\* bindTraceArtifacts: spellings of one artifact are added up.
BoundArtifacts(profile, t) ==
  LET kept == {p \in ProfilePaths(profile) : ~Absolute(p)}
      bound == {BoundTo(p, t) : p \in kept}
      records(a) == SelectSeq(profile, LAMBDA r : r.path \in kept /\ BoundTo(r.path, t) = a)
  IN [a \in bound |-> [source |-> t[a], claim |-> Entry(records(a))]]

\* Validate, as far as a record that Capture made can fail it.
ValidBody(body) ==
  \A a \in DOMAIN body.artifacts :
    LET c == body.artifacts[a].claim IN
    /\ c.executed <= c.statements /\ (c.executed = 0 <=> c.ranges = {}) /\ \A r \in c.ranges : r[2] >= r[1]

Valid1(trace) == trace.form # 0 /\ trace.id = trace.body /\ ValidBody(trace.body)

-----------------------------------------------------------------------------
(* Capture.                                                                   *)

Begin1(c) ==
  /\ capture.stage = "idle" /\ scan.stage = "idle" /\ edited.captures < MaxCaptures /\ ~(c.go /\ c.explicit)
  /\ capture' = [stage |-> "running", go |-> c.go, before |-> tree]
  /\ edited' = [edited EXCEPT !.captures = @ + 1]
  /\ UNCHANGED <<tree, traces, marked, born, scan, known>>

\* The command exits, whatever it did; only a go test run is instrumented.
Exit1(output) ==
  /\ capture.stage = "running"
  /\ capture' = [stage |-> "ran", before |-> capture.before, profile |-> IF capture.go THEN output.profile ELSE << >>,
                 events |-> IF capture.go THEN output.events ELSE << >>]
  /\ UNCHANGED <<tree, edited, traces, marked, born, scan, known>>

\* A timeout, a cancel, output past the bound, any error.
GiveUp ==
  /\ capture.stage \in {"running", "ran"} /\ capture' = Idle1
  /\ UNCHANGED <<tree, edited, traces, marked, born, scan, known>>

LookAgain ==
  /\ capture.stage = "ran"
  /\ capture' = IF Affinity(tree) = Affinity(capture.before)
                THEN [stage |-> "same", before |-> capture.before, profile |-> capture.profile, events |-> capture.events, after |-> tree]
                ELSE Idle1
  /\ UNCHANGED <<tree, edited, traces, marked, born, scan, known>>

\* markCurrentProcessCaptureIntegrity forgets the oldest.
Marked(id) ==
  IF id \in ToSet(marked) THEN marked
  ELSE IF Len(marked) < MaxMarked THEN Append(marked, id) ELSE Append(Tail(marked), id)

ModulesUnchanged(t) == \A p \in Artifacts(t) : Last(p) = Manifest => tree[p] = t[p]

Body(c) == [repository |-> Affinity(c.before), artifacts |-> BoundArtifacts(c.profile, c.before), tests |-> Tests(c.events)]

Seal ==
  /\ capture.stage = "same"
  /\ LET t == capture.before
         refused == \/ ~ParsesProfile(capture.profile) \/ ~ParsesEvents(capture.events)
                    \/ ~ModulesUnchanged(t) \/ Ambiguous(Modules(t))
                    \/ \E p \in ProfilePaths(capture.profile) : ~Absolute(p) /\ ~Binds(p, t)
         body == Body(capture)
     IN IF refused THEN capture' = Idle1 /\ UNCHANGED <<marked, born>>
        ELSE IF ~ValidBody(body) THEN capture' = Idle1 /\ UNCHANGED <<marked, born>>
        ELSE /\ capture' = [stage |-> "sealed", trace |-> [form |-> 1, body |-> body, id |-> body]]
             /\ marked' = Marked(body)
             /\ born' = [b \in DOMAIN born \cup {body} |->
                           IF b = body THEN [ended |-> Affinity(capture.after), events |-> capture.events, here |-> TRUE] ELSE born[b]]
  /\ UNCHANGED <<tree, edited, traces, scan, known>>

\* runTraceCapture writes the file, by default into the repository itself.
Write1(f) ==
  /\ capture.stage = "sealed" /\ capture' = Idle1
  /\ traces' = [traces EXCEPT ![f] = capture.trace]
  /\ tree' = IF Out \in DOMAIN tree THEN [tree EXCEPT ![Out] = "trace"] ELSE tree
  /\ UNCHANGED <<edited, marked, born, scan, known>>

\* Somebody keeps a copy, in the same bytes or laid out anew; or changes what a
\* file says, with or without a digest to match.
Copy(f, g, form) ==
  /\ traces[f].form # 0 /\ f # g /\ traces[g].form = 0
  /\ traces' = [traces EXCEPT ![g] = [traces[f] EXCEPT !.form = form]]
  /\ UNCHANGED <<tree, edited, capture, marked, born, scan, known>>
Alter(f, resealed) ==
  /\ traces[f].form # 0 /\ traces[f].body.tests # {}
  /\ LET body == [traces[f].body EXCEPT !.tests = {}]
     IN traces' = [traces EXCEPT ![f].body = body, ![f].id = IF resealed THEN body ELSE @]
  /\ UNCHANGED <<tree, edited, capture, marked, born, scan, known>>

Restart1 ==
  /\ edited.restarts < MaxRestarts /\ marked # << >>
  /\ edited' = [edited EXCEPT !.restarts = @ + 1]
  /\ marked' = << >> /\ capture' = Idle1 /\ scan' = Idle1 /\ known' = NoBundle
  /\ born' = [b \in DOMAIN born |-> [born[b] EXCEPT !.here = FALSE]]
  /\ UNCHANGED <<tree, traces>>

-----------------------------------------------------------------------------
(* Import.                                                                    *)

\* PrepareTraceInputs: one input for each content, bound to its bytes and to
\* what this process knows of its record.
Input(f) == [file |-> f, bytes |-> traces[f], authentic |-> traces[f].id \in ToSet(marked)]
Distinct(files) ==
  FoldLeft(LAMBDA in, f : IF \E i \in DOMAIN in : in[i].bytes = traces[f] THEN in ELSE Append(in, Input(f)), << >>, files)

Prepare1(files) ==
  /\ scan.stage = "idle" /\ capture.stage = "idle" /\ \A i \in DOMAIN files : traces[files[i]].form # 0
  /\ known' = NoBundle
  /\ scan' = IF \A i \in DOMAIN files : Valid1(traces[files[i]]) THEN [stage |-> "prepared", inputs |-> Distinct(files)] ELSE Idle1
  /\ UNCHANGED <<tree, edited, capture, traces, marked, born>>

\* The scan takes its inventory.
Take1 ==
  /\ scan.stage = "prepared"
  /\ scan' = [stage |-> "taken", inputs |-> scan.inputs, bundle |-> [NoBundle EXCEPT !.seen = tree]]
  /\ UNCHANGED <<tree, edited, capture, traces, marked, born, known>>

\* LoadTrace: the file still has the bytes that were prepared.
Unaltered(input) == traces[input.file] = input.bytes

\* runTraceImport: all are loaded before one is imported.
Load1 ==
  /\ scan.stage = "taken"
  /\ scan' = IF \A i \in DOMAIN scan.inputs : Unaltered(scan.inputs[i]) /\ Valid1(traces[scan.inputs[i].file])
             THEN [scan EXCEPT !.stage = "loaded", !.inputs = [i \in DOMAIN scan.inputs |-> [scan.inputs[i] EXCEPT !.bytes = traces[scan.inputs[i].file]]]]
             ELSE Idle1
  /\ UNCHANGED <<tree, edited, capture, traces, marked, born, known>>

\* mergedLineIntervals: by start, then end; what touches an interval extends it.
Earlier(x, y) == x[1] < y[1] \/ (x[1] = y[1] /\ x[2] < y[2])
Extended(merged, x) ==
  IF merged = << >> \/ x[1] > Last(merged)[2] THEN Append(merged, x)
  ELSE IF x[2] > Last(merged)[2] THEN [merged EXCEPT ![Len(merged)] = <<@[1], x[2]>>] ELSE merged
Intervals(ranges) == FoldLeft(Extended, << >>, SetToSortSeq(ranges, Earlier))

\* spanExecuted: the first interval that does not end before the span.
SpanExecuted(intervals, first, last) ==
  LET late == {i \in DOMAIN intervals : intervals[i][2] >= first}
      least == CHOOSE i \in late : \A j \in late : i <= j
  IN first > 0 /\ late # {} /\ intervals[least][1] <= (IF last < first THEN first ELSE last)

Executed(body, f) == SpanExecuted(Intervals(body.artifacts[f.path].claim.ranges), f.first, f.last)

Affine(body, t) ==
  /\ body.repository = Affinity(t)
  /\ \A a \in DOMAIN body.artifacts : a \in Artifacts(t) /\ t[a] = body.artifacts[a].source

Imported(b, input) ==
  LET body == input.bytes.body
      there == {f \in Functions : f.path \in DOMAIN body.artifacts}
      with(old, S) == [f \in Functions |-> IF f \in S THEN old[f] \cup {body} ELSE old[f]]
      ran == {f \in there : Executed(body, f)}
  IN [b EXCEPT !.asserted = with(@, ran), !.missed = with(@, there \ ran),
        !.nodes = @ \cup {[trace |-> body, producer |-> FALSE, calls |-> FALSE, integrity |-> input.authentic]},
        !.covers = @ \cup {<<body, a>> : a \in {x \in DOMAIN body.artifacts : body.artifacts[x].claim.executed > 0}},
        !.tests = @ \cup {[trace |-> body, result |-> r] : r \in body.tests},
        !.taken = @ \cup {<<input.bytes, input.authentic>>}]

ImportOne ==
  /\ scan.stage = "loaded" /\ scan.inputs # << >>
  /\ LET input == Head(scan.inputs)
         b == scan.bundle
     IN scan' = IF Affine(input.bytes.body, b.seen) /\ \A n \in b.nodes : n.trace # input.bytes.id
                THEN [scan EXCEPT !.inputs = Tail(@), !.bundle = Imported(b, input)] ELSE Idle1
  /\ UNCHANGED <<tree, edited, capture, traces, marked, born, known>>

Publish1 ==
  /\ scan.stage = "loaded" /\ scan.inputs = << >>
  /\ known' = scan.bundle /\ scan' = Idle1
  /\ UNCHANGED <<tree, edited, capture, traces, marked, born>>

-----------------------------------------------------------------------------
(* BuildDiff: the report keeps what producers authenticated apart from what   *)
(* was asserted.                                                              *)
Report(b) ==
  LET proven == {n.trace : n \in {m \in b.nodes : m.producer}}
      said == {n.trace : n \in {m \in b.nodes : ~m.producer}}
  IN [observed |-> {f \in Claimed : proven # {}},
      tests |-> {x \in b.tests : x.trace \in proven},
      asserted |-> {f \in Functions : b.asserted[f] \cap said # {}},
      missed |-> {f \in Functions : b.missed[f] \cap said # {}},
      integrity |-> {n.trace : n \in {m \in b.nodes : m.integrity /\ ~m.producer}}]

-----------------------------------------------------------------------------
TraceNext ==
  \/ \E p \in DOMAIN tree \ Ignored : \E c \in Contents[p] : TraceEdit(p, c)
  \/ \E c \in Commands : Begin1(c)
  \/ \E output \in Outputs : Exit1(output)
  \/ GiveUp \/ LookAgain \/ Seal \/ Restart1
  \/ \E f \in Files : Write1(f)
  \/ \E f, g \in Files, form \in {1, 2} : Copy(f, g, form)
  \/ \E f \in Files, resealed \in BOOLEAN : Alter(f, resealed)
  \/ \E files \in {<<f>> : f \in Files} \cup {<<f, g>> : f, g \in Files} : Prepare1(files)
  \/ Take1 \/ Load1 \/ ImportOne \/ Publish1

-----------------------------------------------------------------------------
(* What holds of the bundle published last.                                   *)

\* A record captured by anybody here is about sources that were the same before
\* and after the command, and in the scan that took it in.
SourcesAgree ==
  \A n \in known.nodes : /\ n.trace.repository = Affinity(known.seen)
                         /\ n.trace \in DOMAIN born => born[n.trace].ended = Affinity(known.seen)

\* Only a record this process captured is reported as one.  It is forgotten past
\* the bound, and never remembered wrongly.
IntegrityEarned == \A n \in known.nodes : n.integrity => n.trace \in DOMAIN born /\ born[n.trace].here

\* A function is asserted to have run just when some covered range of a trace
\* meets its lines, and not to have been seen when none of a trace does.
Meets(body, f) == \E r \in body.artifacts[f.path].claim.ranges : r[1] <= f.last /\ r[2] >= f.first
AssertionsMeet ==
  LET there(f) == {n.trace : n \in {m \in known.nodes : f.path \in DOMAIN m.trace.artifacts}}
      report == Report(known)
  IN \A f \in Functions :
       /\ f \in report.asserted <=> \E body \in there(f) : Meets(body, f)
       /\ f \in report.missed <=> \E body \in there(f) : ~Meets(body, f)

\* No failure is lost among the results that share a redacted name.
FailuresKept ==
  \A n \in known.nodes : n.trace \in DOMAIN born /\ n.trace.tests # {} =>
    LET events == born[n.trace].events IN
    \A r \in n.trace.tests : r.status = "fail" <=> \E i \in DOMAIN events : TestOf(events[i]) = r.test /\ events[i].action = "fail"

TraceSound == SourcesAgree /\ IntegrityEarned /\ AssertionsMeet /\ FailuresKept
=============================================================================
