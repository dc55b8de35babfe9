------------------------------ MODULE ScipIndex ------------------------------
(* Compiler indexes (cmd/rkc/scip.go, internal/lang/scipindex).  A process    *)
(* stages the indexer the operator pinned, notes what the repository holds,   *)
(* runs the indexer in it, seals into every document the source it describes, *)
(* publishes index and receipt, and then scans: facts of an index it made     *)
(* itself with the pinned indexer are the compiler's, all others are not.     *)
(*                                                                            *)
(* Sources are edited, the indexer is replaced, the operator pins what is     *)
(* there, and a process may be killed, at any step.  A digest is the content  *)
(* it is of.                                                                  *)
EXTENDS Naturals, FiniteSets, Sequences

CONSTANTS
  Procs,     \* processes
  Lang,      \* the language a process generates
  NoPin,     \* the processes run with --no-pin-check
  Output,    \* the file a process has its indexer write, below the root
  Selected,  \* the indexes a process' scan is given
  Rank,      \* how their paths are ordered
  Files,     \* 1..n, the files of the repository
  Docs,      \* those an index has documents of; the rest is configuration
  Tools,     \* contents the indexer's path may have
  Honest,    \* those that describe what they read
  Legacy,    \* those that leave out the position encoding
  Copy,      \* an index copied to a directory without a manifest
  None,
  MaxEdits, MaxSwaps, MaxCrashes

VARIABLES
  source,    \* the version of each file
  past,      \* history: every state the sources were in, one after the other
  tool,      \* what the path of each language's indexer holds
  pins,      \* the operator's lock: language to digest
  output,    \* what the indexers wrote below the root
  shelf,     \* the published indexes
  manifest,  \* the receipts beside them
  proc,
  swaps, crashes

indexing == <<source, past, tool, pins, output, shelf, manifest, proc, swaps, crashes>>

Langs == {Lang[p] : p \in Procs}

ScipAssumption ==
  /\ IsFiniteSet(Files) /\ Files = 1..Cardinality(Files) /\ Docs \subseteq Files
  /\ Honest \subseteq Tools /\ Legacy \subseteq Tools /\ NoPin \subseteq Procs
  /\ \A p \in Procs : Selected[p] \subseteq Langs \cup {Copy}
  \* A process has its output name and its language to itself.
  /\ \A p, q \in Procs : p # q => Output[p] # Output[q] /\ Lang[p] # Lang[q]

-----------------------------------------------------------------------------
Nothing == [x \in {} |-> 0]

Fresh ==
  [at |-> "load", entry |-> None, exe |-> None, snap |-> Nothing, read |-> Nothing, index |-> None,
   same |-> 0, noted |-> Nothing, trusted |-> {}, files |-> Nothing, inputs |-> {}, seen |-> << >>, facts |-> {}]

ScipInit ==
  /\ source = [f \in Files |-> 1] /\ past = <<source>>
  /\ tool \in [Langs -> Tools] /\ pins \in [Langs -> Tools \cup {None}]
  /\ output = [n \in {Output[p] : p \in Procs} |-> None]
  /\ shelf = [l \in Langs \cup {Copy} |-> None] /\ manifest = [l \in Langs |-> None]
  /\ proc = [p \in Procs |-> Fresh] /\ swaps = 0 /\ crashes = 0

At(p, step) == proc[p].at = step
Move(p, r) == proc' = [proc EXCEPT ![p] = r]
Pinned(p) == proc[p].entry # None /\ p \notin NoPin

\* An error return: what was deferred is done.
Fail(p) ==
  /\ Move(p, [Fresh EXCEPT !.at = "failed", !.entry = proc[p].entry])
  /\ output' = IF proc[p].at \in {"load", "stage", "admit", "capture", "inventory", "prepare", "extract", "verify"}
               THEN output ELSE [output EXCEPT ![Output[p]] = None]
  /\ UNCHANGED <<shelf, manifest>>

\* The next step when its checks hold, and an error return when not.
Check(p, ok, r) ==
  IF ok THEN Move(p, r) /\ UNCHANGED <<output, shelf, manifest>> ELSE Fail(p)

-----------------------------------------------------------------------------
(* Generation.                                                                *)

\* loadScipIndexerEntry: without a pin only --no-pin-check goes on.
Load(p) ==
  /\ At(p, "load")
  /\ Check(p, pins[Lang[p]] # None \/ p \in NoPin, [proc[p] EXCEPT !.at = "stage", !.entry = pins[Lang[p]]])

\* A private copy is made through one open file, and its digest compared.
Stage(p) ==
  /\ At(p, "stage")
  /\ Check(p, Pinned(p) => tool[Lang[p]] = proc[p].entry, [proc[p] EXCEPT !.at = "admit", !.exe = tool[Lang[p]]])

\* What the repository already holds is never overwritten.
Admit(p) ==
  /\ At(p, "admit")
  /\ Check(p, output[Output[p]] = None, [proc[p] EXCEPT !.at = "capture"])

NextOf(m) == Cardinality(DOMAIN m) + 1
Extended(m, f, v) == [x \in DOMAIN m \cup {f} |-> IF x = f THEN v ELSE m[x]]

\* The inventory reads one file after the other.
Capture(p) ==
  LET snap == Extended(proc[p].snap, NextOf(proc[p].snap), source[NextOf(proc[p].snap)]) IN
  /\ At(p, "capture")
  /\ Move(p, [proc[p] EXCEPT !.snap = snap, !.at = IF DOMAIN snap = Files THEN "run" ELSE @])
  /\ UNCHANGED <<output, shelf, manifest>>

\* An index: the indexer that wrote it, what it read of every file, whether its
\* documents give the text they describe, the text embedded, the encoding of
\* positions.
IndexOf(exe, read, emit) ==
  [by |-> exe, read |-> read, emit |-> emit, text |-> [d \in Docs |-> IF emit THEN read[d] ELSE None], encoding |-> IF exe \in Legacy THEN 0 ELSE 1]

\* The indexer reads the files in an order of its own and writes its index, or
\* fails, or is stopped at its deadline.
RunIndexer(p) ==
  /\ At(p, "run")
  /\ \/ \E f \in Files \ DOMAIN proc[p].read :
          LET read == Extended(proc[p].read, f, source[f]) IN
          IF DOMAIN read = Files
          THEN /\ \E emit \in BOOLEAN : output' = [output EXCEPT ![Output[p]] = IndexOf(proc[p].exe, read, emit)]
               /\ Move(p, [proc[p] EXCEPT !.at = "produced", !.read = Nothing])
               /\ UNCHANGED <<shelf, manifest>>
          ELSE Move(p, [proc[p] EXCEPT !.read = read]) /\ UNCHANGED <<output, shelf, manifest>>
     \/ Fail(p)

\* inspectAndDigest of the output.
Produced(p) ==
  /\ At(p, "produced")
  /\ Check(p, output[Output[p]] # None, [proc[p] EXCEPT !.at = "seal", !.index = output[Output[p]]])

\* defect: the documents' files alone are compared
DocumentUnchanged(p, f) == f \in Docs => source[f] = proc[p].snap[f]

\* verifyCompleteSourceSnapshot: every file, of a document or not, is what it
\* was before the indexer ran.  They are read one after the other.
Unchanged(p, f) == source[f] = proc[p].snap[f]
Compare(p, ok, r) ==
  LET f == proc[p].same + 1 IN
  Check(p, ok /\ Unchanged(p, f), IF f + 1 \in Files THEN [proc[p] EXCEPT !.same = f] ELSE [r EXCEPT !.same = 0])

\* Every document gets the admitted source embedded; text the compiler gave has
\* to be that source.  The encoding a pinned indexer of the known version leaves
\* out is put in.
Sealed(p) ==
  [proc[p].index EXCEPT !.text = [d \in Docs |-> proc[p].snap[d]], !.encoding = IF @ = 0 /\ Pinned(p) THEN 1 ELSE @]

SealBegin(p) ==
  /\ At(p, "seal")
  /\ Compare(p, TRUE, [proc[p] EXCEPT !.at = "embed"])

Embed(p) ==
  /\ At(p, "embed")
  /\ Check(p, \A d \in Docs : source[d] = proc[p].snap[d] /\ proc[p].index.text[d] \in {None, source[d]},
           [proc[p] EXCEPT !.at = "sealed"])

SealEnd(p) ==
  /\ At(p, "sealed")
  /\ Compare(p, proc[p].same = 0 => output[Output[p]] = proc[p].index,
             [proc[p] EXCEPT !.at = "bind", !.index = Sealed(p), !.snap = Nothing])

\* Inspect: in every document the positions can be told.
Inspected(index) == index.encoding # 0

\* BuildSourceBinding: the receipt is of the sources as they are now, which have
\* to be the embedded ones.
Bound(index) == \A d \in Docs : source[d] = index.text[d]

Bind(p) ==
  /\ At(p, "bind")
  /\ Check(p, Inspected(proc[p].index) /\ Bound(proc[p].index), [proc[p] EXCEPT !.at = "publish"])

\* copyPreparedSCIPAtomic: a rename.
Publish(p) ==
  /\ At(p, "publish")
  /\ shelf' = [shelf EXCEPT ![Lang[p]] = proc[p].index]
  /\ Move(p, [proc[p] EXCEPT !.at = "note"]) /\ UNCHANGED <<output, manifest>>

\* appendScipManifest reads the manifest, and writes it back with its entry.
Note(p) ==
  /\ At(p, "note")
  /\ Move(p, [proc[p] EXCEPT !.at = "write", !.noted = manifest]) /\ UNCHANGED <<output, shelf, manifest>>

Receipt(index) == [index |-> index, sources |-> index.text]

Write(p) ==
  /\ At(p, "write")
  /\ manifest' = [proc[p].noted EXCEPT ![Lang[p]] = Receipt(proc[p].index)]
  /\ Move(p, [proc[p] EXCEPT !.at = "reopen", !.noted = Nothing]) /\ UNCHANGED <<output, shelf>>

\* loadManifestSourceBinding: beside a manifest an index needs its own entry.
HasManifest == \E l \in Langs : manifest[l] # None
Admissible(l) ==
  /\ shelf[l] # None
  /\ l # Copy /\ HasManifest => manifest[l] # None /\ manifest[l].index = shelf[l]
Binding(l) == IF l = Copy \/ ~HasManifest THEN None ELSE manifest[l].sources

\* MarkGeneratedByCurrentProcess: path and content.
Marked(p) == proc[p].trusted \cup {<<Lang[p], shelf[Lang[p]]>>}

\* The index is opened again where it was published, and marked as this
\* process' own when the indexer was pinned.  The indexer's output goes.
Reopen(p) ==
  /\ At(p, "reopen")
  /\ IF Admissible(Lang[p])
     THEN /\ Move(p, [proc[p] EXCEPT !.at = "inventory", !.index = None, !.exe = None,
                                     !.trusted = IF Pinned(p) THEN Marked(p) ELSE @])
          /\ output' = [output EXCEPT ![Output[p]] = None]
          /\ UNCHANGED <<shelf, manifest>>
     ELSE Fail(p)

-----------------------------------------------------------------------------
(* The scan that imports.                                                     *)

Inventory(p) ==
  /\ At(p, "inventory")
  /\ Move(p, [proc[p] EXCEPT !.at = "prepare", !.files = source]) /\ UNCHANGED <<output, shelf, manifest>>

\* mergeIdenticalInput: paths of equal content are one input, which has the
\* strongest authority, the receipt any of them has, and the path that gave the
\* authority, or else the first.
Identical(p, index, same) ==
  LET trusted == {l \in same : <<l, index>> \in proc[p].trusted}
      best == IF trusted # {} THEN trusted ELSE same
  IN [index |-> index, auth |-> trusted # {}, receipts |-> {Binding(l) : l \in same} \ {None},
      path |-> CHOOSE l \in best : \A k \in best : Rank[l] <= Rank[k]]

\* PrepareInputs
Inputs(p, paths) == {Identical(p, index, {l \in paths : shelf[l] = index}) : index \in {shelf[l] : l \in paths}}

Preparable(p, paths) ==
  (\A l \in paths : Admissible(l)) /\ \A i \in Inputs(p, paths) : Cardinality(i.receipts) <= 1

Prepare(p) ==
  /\ At(p, "prepare")
  /\ Check(p, Preparable(p, Selected[p]),
           [proc[p] EXCEPT !.at = "extract", !.inputs = Inputs(p, Selected[p]), !.seen = <<shelf, manifest>>])

\* extractDocument: what is embedded is what was inventoried and is there now.
Describes(p, i) ==
  /\ \A d \in Docs : source[d] = proc[p].files[d] /\ i.index.text[d] = proc[p].files[d]
  /\ i.index.encoding # 0

\* verifySourceBinding
Affine(p, i) == \A r \in i.receipts : r = [d \in Docs |-> proc[p].files[d]]

FactsOf(i) == {[of |-> d, auth |-> i.auth, by |-> i.index.by, read |-> i.index.read, emit |-> i.index.emit] : d \in Docs}

Extract(p) ==
  /\ At(p, "extract")
  /\ Check(p, \A i \in proc[p].inputs : shelf[i.path] = i.index /\ Describes(p, i) /\ Affine(p, i),
           [proc[p] EXCEPT !.at = "verify", !.facts = UNION {FactsOf(i) : i \in proc[p].inputs}])

\* VerifyInputs, before the records are used: the inputs are prepared again from
\* their paths.
Verified(p) ==
  LET paths == {i.path : i \in proc[p].inputs} IN Preparable(p, paths) /\ Inputs(p, paths) = proc[p].inputs

VerifyInputs(p) ==
  /\ At(p, "verify")
  /\ Check(p, Verified(p), [proc[p] EXCEPT !.at = "done", !.inputs = {}, !.seen = << >>])

-----------------------------------------------------------------------------
(* Around the processes.                                                      *)
Edits == Len(past) - 1

\* A new version, or one that was there before.
Edit(f) ==
  /\ Edits < MaxEdits
  /\ \E v \in {past[i][f] : i \in DOMAIN past} \cup {Len(past) + 1} :
       v # source[f] /\ source' = [source EXCEPT ![f] = v]
  /\ past' = Append(past, source')
  /\ UNCHANGED <<tool, pins, output, shelf, manifest, proc, swaps, crashes>>

Swap(l, t) ==
  /\ swaps < MaxSwaps /\ t # tool[l]
  /\ tool' = [tool EXCEPT ![l] = t] /\ swaps' = swaps + 1
  /\ UNCHANGED <<source, past, pins, output, shelf, manifest, proc, crashes>>

\* runScipPin: the digest of what the path holds.
Pin(l) ==
  /\ swaps < MaxSwaps /\ pins[l] # tool[l]
  /\ pins' = [pins EXCEPT ![l] = tool[l]] /\ swaps' = swaps + 1
  /\ UNCHANGED <<source, past, tool, output, shelf, manifest, proc, crashes>>

\* Someone copies a published index elsewhere.
CopyOut(l) ==
  /\ shelf[l] # None /\ shelf[Copy] = None
  /\ shelf' = [shelf EXCEPT ![Copy] = shelf[l]]
  /\ UNCHANGED <<source, past, tool, pins, output, manifest, proc, swaps, crashes>>

\* A process is killed, and run again: its marks are gone, what it wrote stays.
Crash(p) ==
  /\ crashes < MaxCrashes /\ proc[p].at \notin {"load", "failed", "done"}
  /\ crashes' = crashes + 1 /\ Move(p, Fresh)
  /\ UNCHANGED <<source, past, tool, pins, output, shelf, manifest, swaps>>

\* The operator removes an output that was left behind.
Clear(p) ==
  /\ At(p, "failed") /\ output[Output[p]] # None
  /\ output' = [output EXCEPT ![Output[p]] = None] /\ Move(p, Fresh)
  /\ UNCHANGED <<source, past, tool, pins, shelf, manifest, swaps, crashes>>

Work(p) ==
  \/ Load(p) \/ Stage(p) \/ Admit(p) \/ Capture(p) \/ RunIndexer(p) \/ Produced(p) \/ SealBegin(p) \/ Embed(p)
  \/ SealEnd(p) \/ Bind(p) \/ Publish(p) \/ Note(p) \/ Write(p) \/ Reopen(p)
  \/ Inventory(p) \/ Prepare(p) \/ Extract(p) \/ VerifyInputs(p)

ScipNext ==
  \/ \E p \in Procs : Work(p) /\ UNCHANGED <<source, past, tool, pins, swaps, crashes>>
  \/ \E f \in Files : Edit(f)
  \/ \E l \in Langs : Pin(l) \/ CopyOut(l) \/ \E t \in Tools : Swap(l, t)
  \/ \E p \in Procs : Crash(p) \/ Clear(p)

-----------------------------------------------------------------------------
\* A fact that counts as the compiler's was made by the indexer the operator had
\* pinned when the process began; and that indexer read what the scan inventoried
\* of the documents, and of every file what the repository held at one moment
\* (scipindex/input.go:44, seal.go:89).  Contents are compared: unless the index
\* gives its text, a file that was changed and changed back is not noticed.
Restored ==
  \E f \in Files : \E i, j, k \in DOMAIN past : i < j /\ j < k /\ past[i][f] = past[k][f] /\ past[i][f] # past[j][f]

AuthorityEarned ==
  \A p \in Procs : At(p, "done") =>
    \A x \in proc[p].facts : x.auth =>
      /\ x.by = proc[p].entry /\ p \notin NoPin
      /\ x.by \in Honest /\ (x.emit \/ ~Restored) => \A d \in Docs : x.read[d] = proc[p].files[d]
      /\ x.by \in Honest /\ ~Restored => \E i \in DOMAIN past : x.read = past[i]

\* A process that ended by itself left no output of its indexer in the
\* repository, unless it found one there.
OutputRemoved ==
  \A p \in Procs : proc[p].at \in {"inventory", "prepare", "extract", "verify", "done"} => output[Output[p]] = None

\* The last check of the inputs fails only when one changed (scipindex/input.go:
\* 188), unless an input had its receipt from the path of a duplicate: that path
\* is not looked at again.
FailsOnChange ==
  \A p \in Procs : At(p, "verify") /\ proc[p].seen = <<shelf, manifest>> =>
    Verified(p) \/ \E i \in proc[p].inputs : i.receipts # {Binding(i.path)} \ {None}

ScipSound == AuthorityEarned /\ OutputRemoved /\ FailsOnChange
=============================================================================
