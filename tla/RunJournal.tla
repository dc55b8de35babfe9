----------------------------- MODULE RunJournal -----------------------------
(***************************************************************************)
(* The append-only run journal of internal/scheduler.  A FileJournal       *)
(* accepts a record only if the lifecycle it keeps in memory allows it,    *)
(* and makes it durable before the lifecycle advances; a reader replays    *)
(* whatever prefix a crash or an I/O failure has left.                     *)
(***************************************************************************)
EXTENDS Naturals, Sequences, FiniteSets

CONSTANTS
  StageIds,     \* stage identifiers
  NoStage,      \* the stage of a run record
  MaxAttempts,  \* bound on the attempts of a stage
  MaxRecords    \* bound on the length of a journal

NoneAssumption == NoStage \notin StageIds
BoundAssumption == MaxAttempts \in Nat \ {0} /\ MaxRecords \in Nat

VARIABLES
  dependencies,  \* of each stage, as the first record states them
  lines,         \* the complete lines of the journal file
  partial,       \* whether an incomplete line follows them
  lifecycle,     \* the lifecycle in the FileJournal's memory
  poisoned,      \* the FileJournal's sticky failure
  sealed,        \* Close was called
  producing      \* the producing process lives

writerVars == <<lines, partial, lifecycle, poisoned, sealed>>
runVars == <<dependencies, writerVars, producing>>

Active == {"planned", "queued", "running"}
Success == {"succeeded", "cached"}
Terminal == {"succeeded", "failed", "cancelled"}

RunRecord(state) == [kind |-> "run", stage |-> NoStage, state |-> state, attempt |-> 0]
StageRecord(s, state, n) == [kind |-> "stage", stage |-> s, state |-> state, attempt |-> n]

Record ==
  {RunRecord(state) : state \in {"running"} \cup Terminal}
    \cup {StageRecord(s, state, n) : s \in StageIds, n \in 1..MaxAttempts,
                                     state \in Active \cup Success \cup {"failed", "cancelled"}}

Lifecycle == [initialized : BOOLEAN, terminal : BOOLEAN,
              stages : [StageIds -> [state : Active \cup Success \cup {"", "failed", "cancelled"},
                                   attempt : 0..MaxAttempts]]]

Genesis == [initialized |-> FALSE, terminal |-> FALSE,
            stages |-> [s \in StageIds |-> [state |-> "", attempt |-> 0]]]

JournalTypeOK ==
  /\ dependencies \in [StageIds -> SUBSET StageIds]
  /\ lines \in Seq(Record)
  /\ partial \in BOOLEAN
  /\ lifecycle \in Lifecycle
  /\ \A s \in StageIds : lifecycle.stages[s].attempt = 0 <=> lifecycle.stages[s].state = ""
  /\ poisoned \in BOOLEAN
  /\ sealed \in BOOLEAN
  /\ producing \in BOOLEAN

\* A stage reaches itself along dependencies.
HasCycle(deps) ==
  LET step(S) == UNION {deps[s] : s \in S}
      reach[n \in 0..Cardinality(StageIds)] ==
        IF n = 0 THEN [s \in StageIds |-> deps[s]]
        ELSE [s \in StageIds |-> reach[n - 1][s] \cup step(reach[n - 1][s])]
  IN \E s \in StageIds : s \in reach[Cardinality(StageIds)][s]

JournalInit ==
  /\ dependencies \in {deps \in [StageIds -> SUBSET StageIds] : ~HasCycle(deps)}
  /\ lines = << >>
  /\ partial = FALSE
  /\ lifecycle = Genesis
  /\ poisoned = FALSE
  /\ sealed = FALSE
  /\ producing = TRUE

-----------------------------------------------------------------------------
(***************************************************************************)
(* journalLifecycle.accept.                                                *)
(***************************************************************************)
DependenciesMet(l, deps, s) == \A d \in deps[s] : l.stages[d].state \in Success

AllComplete(l) == \A s \in StageIds : l.stages[s].state \in Success

ExpectedAttempt(p) == IF p.state \in Active THEN p.attempt ELSE p.attempt + 1

AcceptableStage(l, deps, rec) ==
  LET p == l.stages[rec.stage] IN
  /\ p.state \notin Success
  /\ rec.attempt = ExpectedAttempt(p)
  /\ rec.state = "planned" => p.state \notin Active
  /\ rec.state = "queued" => p.state \notin {"queued", "running"}
  /\ rec.state = "running" => p.state # "running"
  /\ rec.state \in {"queued", "running"} => DependenciesMet(l, deps, rec.stage)
  /\ rec.state \notin Active => p.state = "running"

Acceptable(l, deps, rec) ==
  IF ~l.initialized THEN rec = RunRecord("running")
  ELSE /\ ~l.terminal
       /\ IF rec.kind = "run"
            THEN /\ rec.state \in Terminal
                 /\ rec.state = "succeeded" => AllComplete(l)
            ELSE AcceptableStage(l, deps, rec)

Advance(l, rec) ==
  IF rec.kind = "run"
    THEN [l EXCEPT !.initialized = TRUE, !.terminal = l.initialized]
    ELSE [l EXCEPT !.stages[rec.stage] = [state |-> rec.state, attempt |-> rec.attempt]]

-----------------------------------------------------------------------------
(***************************************************************************)
(* FileJournal.Append(record), one step because of the journal's gate.     *)
(* Each outcome is an operator; the caller learns whether the record was   *)
(* persisted.                                                              *)
(***************************************************************************)
\* Mutant: a failed write does not stop later ones.
Usable == ~sealed

Writable == ~sealed /\ ~poisoned

Persist(rec) ==
  /\ Writable /\ Acceptable(lifecycle, dependencies, rec)
  /\ lines' = Append(lines, rec)
  /\ lifecycle' = Advance(lifecycle, rec)
  /\ UNCHANGED <<partial, poisoned, sealed>>

\* Closed, failed earlier, not acceptable, clock moved back, size limits.
Refuse == UNCHANGED writerVars

\* The identity check or the write fails, the latter after part of the line
\* or none; or everything was written and Sync or the last check fails.
Break(rec) ==
  /\ Writable
  /\ \/ UNCHANGED <<lines, partial>>
     \/ Acceptable(lifecycle, dependencies, rec) /\ partial' = TRUE /\ UNCHANGED lines
     \/ Acceptable(lifecycle, dependencies, rec) /\ lines' = Append(lines, rec) /\ UNCHANGED partial
  /\ poisoned' = TRUE
  /\ UNCHANGED <<lifecycle, sealed>>

AppendRecord ==
  /\ producing
  /\ Len(lines) < MaxRecords
  /\ \E rec \in Record : Persist(rec) \/ Break(rec)
  /\ UNCHANGED <<dependencies, producing>>

CloseJournal ==
  /\ producing
  /\ sealed' = TRUE
  /\ UNCHANGED <<dependencies, lines, partial, lifecycle, poisoned, producing>>

\* The process dies, perhaps in the middle of a write.
JournalCrash ==
  /\ producing
  /\ producing' = FALSE
  /\ \/ UNCHANGED partial
     \/ Writable /\ ~lifecycle.terminal /\ partial' = TRUE
  /\ UNCHANGED <<dependencies, lines, lifecycle, poisoned, sealed>>

JournalNext == AppendRecord \/ CloseJournal \/ JournalCrash

JournalSpec == JournalInit /\ [][JournalNext]_runVars

-----------------------------------------------------------------------------
(***************************************************************************)
(* ReadFileJournal.                                                        *)
(***************************************************************************)
Replay ==
  LET replay[n \in 0..Len(lines)] ==
        IF n = 0 THEN Genesis ELSE Advance(replay[n - 1], lines[n])
  IN replay

\* The complete lines pass the lifecycle; a file without any is reported as
\* empty, not as invalid.
Replayable ==
  /\ \A n \in 1..Len(lines) : Acceptable(Replay[n - 1], dependencies, lines[n])
  /\ partial => ~Replay[Len(lines)].terminal

\* Whether a reader reports the run as ended.
ReportedTerminal == Replay[Len(lines)].terminal

-----------------------------------------------------------------------------
(***************************************************************************)
(* Properties.                                                             *)
(***************************************************************************)

\* Whatever failure or crash ended the writing, the reader accepts the file,
\* and its replay is the writer's lifecycle, save for one last record that was
\* written but not acknowledged (Append's failure paths).
ReplayFaithful ==
  /\ Replayable
  /\ \/ lifecycle = Replay[Len(lines)]
     \/ poisoned /\ Len(lines) > 0 /\ lifecycle = Replay[Len(lines) - 1]

\* Inductive: a journal that can still be written to ends in a complete line,
\* and only a run that was initialised has ended.
JournalInv ==
  /\ JournalTypeOK /\ ReplayFaithful
  /\ partial => poisoned \/ ~producing
  /\ lifecycle.terminal => lifecycle.initialized

\* In the file itself a stage runs only after each of its dependencies has
\* completed, whatever retries happened, and a completed stage never runs again.
RunsAfterDependencies ==
  \A n \in 1..Len(lines) : lines[n].kind = "stage" /\ lines[n].state = "running" =>
    /\ \A d \in dependencies[lines[n].stage] : \E m \in 1..n : lines[m].stage = d /\ lines[m].state \in Success
    /\ \A m \in 1..n : lines[m].stage = lines[n].stage => lines[m].state \notin Success

\* A journal that ends in success records the completion of every stage.
SuccessIsComplete ==
  \A n \in 2..Len(lines) : lines[n] = RunRecord("succeeded") =>
    \A s \in StageIds : \E m \in 1..n : lines[m].stage = s /\ lines[m].state \in Success

\* Retries are numbered without gaps: attempt n + 1 follows the failure or
\* cancellation of attempt n.
RetriesNumbered ==
  \A n \in 1..Len(lines) : lines[n].attempt > 1 =>
    \E m \in 1..n : /\ lines[m].stage = lines[n].stage
                    /\ lines[m].attempt = lines[n].attempt - 1
                    /\ lines[m].state \in {"failed", "cancelled"}
                    /\ \A k \in m+1..n : lines[k].stage = lines[n].stage => lines[k].attempt = lines[n].attempt

\* What the journal promises its readers, together.
JournalSound == JournalInv /\ RunsAfterDependencies /\ SuccessIsComplete /\ RetriesNumbered

\* Nothing is ever written behind an incomplete line or a terminal record, and
\* what was written is not taken back.
TailIsFinal ==
  [][/\ partial => lines' = lines /\ partial' = partial
     /\ Len(lines') >= Len(lines) /\ SubSeq(lines', 1, Len(lines)) = lines
     /\ lines' # lines /\ Len(lines) > 1 => ~(lines[Len(lines)].kind = "run")]_runVars
=============================================================================
