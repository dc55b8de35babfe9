----------------------------- MODULE Scheduler -----------------------------
(***************************************************************************)
(* scheduler.Execute: a DAG of stages runs in batches bounded by workers   *)
(* and a resource budget; each stage is a goroutine that journals its      *)
(* start and its end; the main goroutine waits for a batch, stops at the   *)
(* first failed one, and journals the outcome of the run unless the caller *)
(* (rkc scan) has deferred that to the end of its publications.            *)
(***************************************************************************)
EXTENDS Naturals, Sequences, FiniteSets, FiniteSetsExt

CONSTANTS
  Stages,    \* stage identifiers
  Order,     \* the stages in the order of their identifiers
  None,      \* the stage of a run record
  Workers,   \* size limit of a batch
  Dims,      \* the budgeted resources
  Budgets,   \* the budgets a run may be given: capacities, 0 for unbounded
  Cost       \* Cost[s][d]: what stage s reserves of resource d

ASSUME OrderAssumption ==
  /\ Order \in Seq(Stages) /\ Len(Order) = Cardinality(Stages)
  /\ Stages = {Order[i] : i \in DOMAIN Order}
ASSUME ResourceAssumption ==
  /\ Workers \in Nat \ {0}
  /\ Budgets \subseteq [Dims -> Nat]
  /\ Cost \in [Stages -> [Dims -> Nat]]

VARIABLES
  plan, file, torn, life, failed, closed, alive,  \* the journal, see RunJournal
  budget,     \* the run's capacity of each resource
  defer,      \* DeferJournalCompletion
  phase,      \* where the main goroutine stands
  pending,    \* ready stages that no batch has admitted yet
  batch,      \* the batch that is running
  work,       \* where the goroutine of each stage stands
  outcome,    \* what executeStage returned
  result,     \* what the goroutine reported: the stage's error and the journal's
  completed,  \* stages whose results are published to later ones
  cancelled,  \* the context is cancelled or past its deadline
  verdict     \* the error Execute or its owner is about to return, or "ok"

mainVars == <<phase, pending, batch, completed, verdict>>
stageVars == <<work, outcome, result>>
journalVars == <<file, torn, life, failed, closed>>
options == <<plan, budget, defer>>
vars == <<options, journalVars, alive, mainVars, stageVars, cancelled>>

Journal == INSTANCE RunJournal WITH
  StageIds <- Stages, NoStage <- None, MaxAttempts <- 1, MaxRecords <- 2 * Cardinality(Stages) + 2,
  dependencies <- plan, lines <- file, partial <- torn, lifecycle <- life,
  poisoned <- failed, sealed <- closed, producing <- alive

Outcomes == {"succeeded", "cached", "failed", "cancelled"}

TypeOK ==
  /\ Journal!JournalTypeOK
  /\ budget \in Budgets /\ defer \in BOOLEAN
  /\ phase \in {"new", "next", "admitting", "batch", "ending", "returned", "closing", "finished"}
  /\ pending \subseteq Stages /\ batch \subseteq Stages /\ completed \subseteq Stages
  /\ work \in [Stages -> {"none", "starting", "running", "stopping", "done"}]
  /\ outcome \in [Stages -> Outcomes \cup {""}]
  /\ result \in [Stages -> {"", "ok", "error"}]
  /\ cancelled \in BOOLEAN
  /\ verdict \in {"ok", "error"}

Init ==
  /\ plan \in [Stages -> SUBSET Stages]
  /\ budget \in Budgets /\ defer \in BOOLEAN
  /\ file = << >> /\ torn = FALSE /\ life = Journal!Genesis
  /\ failed = FALSE /\ closed = FALSE /\ alive = TRUE
  /\ phase = "new"
  /\ pending = {} /\ batch = {} /\ completed = {}
  /\ work = [s \in Stages |-> "none"]
  /\ outcome = [s \in Stages |-> ""]
  /\ result = [s \in Stages |-> ""]
  /\ cancelled = FALSE
  /\ verdict = "ok"

-----------------------------------------------------------------------------
\* The state finish and finalizeScanRunJournal record for the run.
RunState(error) ==
  IF ~error THEN "succeeded" ELSE IF cancelled THEN "cancelled" ELSE "failed"

Ready == {s \in Stages \ completed : plan[s] \subseteq completed}

Exceeds(s) == \E d \in Dims : budget[d] > 0 /\ Cost[s][d] > budget[d]

\* What a set of stages reserves of a resource.
Reserved(S, d) == MapThenSumSet(LAMBDA k : Cost[k][d], S)

\* Mutant: the budget is compared stage by stage.
FitsAlone(S, s) == ~Exceeds(s)

FitsAlongside(S, s) ==
  \A d \in Dims : budget[d] > 0 => Reserved(S \cup {s}, d) <= budget[d]

\* First fit in the order of the identifiers.
Admitted ==
  LET upTo[n \in 0..Len(Order)] ==
        IF n = 0 THEN {}
        ELSE LET S == upTo[n - 1] s == Order[n]
             IN IF s \in pending /\ Cardinality(S) < Workers /\ FitsAlongside(S, s)
                  THEN S \cup {s} ELSE S
  IN upTo[Len(Order)]

\* Mutant: the batch's errors are dropped.
NoErrors == {}

BatchErrors == {s \in batch : result[s] = "error"}

\* One Append: persisted, or an error for the caller.
Appends(rec) == Journal!Persist(rec)
AppendFails(rec) == Journal!Break(rec) \/ Journal!Refuse

-----------------------------------------------------------------------------
(***************************************************************************)
(* The main goroutine.                                                     *)
(***************************************************************************)
\* A cyclic plan is refused before anything is journalled.
Start ==
  /\ phase = "new"
  /\ \/ /\ ~Journal!HasCycle(plan)
        /\ Appends(Journal!RunRecord("running"))
        /\ phase' = "next" /\ UNCHANGED verdict
     \/ /\ ~Journal!HasCycle(plan)
        /\ AppendFails(Journal!RunRecord("running"))
        /\ phase' = "returned" /\ verdict' = "error"
     \/ /\ Journal!HasCycle(plan)
        /\ phase' = "returned" /\ verdict' = "error"
        /\ UNCHANGED journalVars
  /\ UNCHANGED <<pending, batch, completed, stageVars, cancelled>>

End(error) == phase' = "ending" /\ verdict' = IF error THEN "error" ELSE "ok"

NextReady ==
  /\ phase = "next"
  /\ \/ completed = Stages /\ End(FALSE) /\ UNCHANGED pending
     \/ completed # Stages /\ cancelled /\ End(TRUE) /\ UNCHANGED pending
     \/ /\ completed # Stages /\ ~cancelled
        /\ pending' = Ready
        /\ IF Ready = {} THEN End(TRUE) ELSE phase' = "admitting" /\ UNCHANGED verdict
  /\ UNCHANGED <<batch, completed, stageVars, journalVars, cancelled>>

Admit ==
  /\ phase = "admitting"
  /\ \/ /\ pending = {}
        /\ phase' = "next"
        /\ UNCHANGED <<pending, batch, work, verdict>>
     \/ /\ pending # {}
        /\ Admitted = {} \/ \E s \in pending : Exceeds(s)
        /\ End(TRUE)
        /\ UNCHANGED <<pending, batch, work>>
     \/ /\ Admitted # {}
        /\ \A s \in pending : ~Exceeds(s)
        /\ batch' = Admitted
        /\ pending' = pending \ Admitted
        /\ work' = [s \in Stages |-> IF s \in Admitted THEN "starting" ELSE work[s]]
        /\ phase' = "batch"
        /\ UNCHANGED verdict
  /\ UNCHANGED <<completed, outcome, result, journalVars, cancelled>>

\* wg.Wait, then the outcomes in the order of the stage identifiers.
Collect ==
  /\ phase = "batch"
  /\ \A s \in batch : work[s] = "done"
  /\ completed' = completed \cup {s \in batch : result[s] = "ok"}
  /\ batch' = {}
  /\ IF BatchErrors # {} THEN End(TRUE) ELSE phase' = "admitting" /\ UNCHANGED verdict
  /\ UNCHANGED <<pending, stageVars, journalVars, cancelled>>

\* The error finish returns after the terminal append.
JoinedError(persisted) == IF persisted THEN verdict ELSE "error"

Finish ==
  LET rec == Journal!RunRecord(RunState(verdict = "error")) IN
  /\ phase = "ending"
  /\ IF defer THEN UNCHANGED <<verdict, journalVars>>
     ELSE \E persisted \in BOOLEAN :
            /\ IF persisted THEN Appends(rec) ELSE AppendFails(rec)
            /\ verdict' = JoinedError(persisted)
  /\ phase' = "returned"
  /\ UNCHANGED <<pending, batch, completed, stageVars, cancelled>>

\* The owner of a deferred journal publishes what the stages produced, which
\* may fail, and appends the terminal record, once.
Finalize ==
  /\ phase = "returned" /\ defer
  /\ \E error \in {verdict = "error", TRUE} :
       \E state \in IF error THEN {"failed", "cancelled"} ELSE {"succeeded"} :
         \/ /\ Appends(Journal!RunRecord(state))
            /\ verdict' = IF error THEN "error" ELSE "ok"
         \/ /\ AppendFails(Journal!RunRecord(state))
            /\ verdict' = "error"
  /\ phase' = "closing"
  /\ UNCHANGED <<pending, batch, completed, stageVars, cancelled>>

\* It closes the journal and believes only what it can read back.
CloseFinal ==
  /\ phase = "closing"
  /\ closed' = TRUE
  /\ verdict' = IF Journal!Replayable /\ ~torn /\ Journal!ReportedTerminal
                   THEN verdict ELSE "error"
  /\ phase' = "finished"
  /\ UNCHANGED <<file, torn, life, failed, pending, batch, completed, stageVars, cancelled>>

-----------------------------------------------------------------------------
(***************************************************************************)
(* The goroutine of a stage.                                               *)
(***************************************************************************)
\* Mutant: a goroutine returns without wg.Done.
Vanish(s) == work' = [work EXCEPT ![s] = "none"]

Leave(s) == work' = [work EXCEPT ![s] = "done"]

StageStart(s) ==
  /\ work[s] = "starting"
  /\ \/ /\ Appends(Journal!StageRecord(s, "running", 1))
        /\ work' = [work EXCEPT ![s] = "running"]
        /\ UNCHANGED result
     \/ /\ AppendFails(Journal!StageRecord(s, "running", 1))
        /\ Leave(s)
        /\ result' = [result EXCEPT ![s] = "error"]
  /\ UNCHANGED <<outcome, mainVars, cancelled>>

\* executeStage: restored from the cache, run, or an error of either.
StageExecute(s) ==
  /\ work[s] = "running"
  /\ \E o \in Outcomes : outcome' = [outcome EXCEPT ![s] = o]
  /\ work' = [work EXCEPT ![s] = "stopping"]
  /\ UNCHANGED <<result, mainVars, journalVars, cancelled>>

\* Mutant: a failed append does not fail the stage.
ReportedAnyhow(s, persisted) == IF outcome[s] \in Journal!Success THEN "ok" ELSE "error"

\* The error that the goroutine hands to the main one.
Reported(s, persisted) ==
  IF persisted /\ outcome[s] \in Journal!Success THEN "ok" ELSE "error"

StageStop(s) ==
  LET rec == Journal!StageRecord(s, outcome[s], 1) IN
  /\ work[s] = "stopping"
  /\ \E persisted \in BOOLEAN :
       /\ IF persisted THEN Appends(rec) ELSE AppendFails(rec)
       /\ result' = [result EXCEPT ![s] = Reported(s, persisted)]
  /\ Leave(s)
  /\ UNCHANGED <<outcome, mainVars, cancelled>>

-----------------------------------------------------------------------------
Cancel ==
  /\ ~cancelled
  /\ cancelled' = TRUE
  /\ UNCHANGED <<journalVars, mainVars, stageVars>>

Main == Start \/ NextReady \/ Admit \/ Collect \/ Finish \/ Finalize \/ CloseFinal
Goroutine(s) == StageStart(s) \/ StageExecute(s) \/ StageStop(s)

Step == Main \/ (\E s \in Stages : Goroutine(s)) \/ Cancel

Crash ==
  /\ Journal!JournalCrash
  /\ UNCHANGED <<budget, defer, mainVars, stageVars, cancelled>>

Next == (alive /\ Step /\ UNCHANGED <<options, alive>>) \/ Crash

Spec == Init /\ [][Next]_vars

\* The Go runtime runs every goroutine that can run, and stages return.
Runs(A) == alive /\ A /\ UNCHANGED <<options, alive>>

Fairness ==
  /\ WF_vars(Runs(Main))
  /\ \A s \in Stages : WF_vars(Runs(Goroutine(s)))

FairSpec == Spec /\ Fairness

-----------------------------------------------------------------------------
(***************************************************************************)
(* Properties.                                                             *)
(***************************************************************************)
Running == {s \in Stages : work[s] \in {"starting", "running", "stopping"}}

\* Admission reserves: at no time do the stages that run together exceed the
\* workers or any bounded resource, also when deferred stages join later.
WithinBudget ==
  /\ Cardinality(Running) <= Workers
  /\ \A d \in Dims : budget[d] > 0 => Reserved(Running, d) <= budget[d]

\* A stage that runs reads only results that are published and final.
InputsComplete ==
  \A s \in Running : \A d \in plan[s] :
    d \in completed /\ work[d] = "done" /\ outcome[d] \in Journal!Success

\* The executor never offers a record that the journal's lifecycle refuses, so
\* an append fails only with the journal itself; also after failed batches,
\* cancellations and stages whose start could not be journalled.
RecordsAcceptable ==
  /\ \A s \in Stages :
       /\ work[s] = "starting" => Journal!Acceptable(life, plan, Journal!StageRecord(s, "running", 1))
       /\ work[s] = "stopping" => Journal!Acceptable(life, plan, Journal!StageRecord(s, outcome[s], 1))
  /\ phase = "ending" => Journal!Acceptable(life, plan, Journal!RunRecord(RunState(verdict = "error")))

\* Success is reported only when every stage completed and the file proves it,
\* with a terminal record unless that is left to the owner.
SuccessIsProven ==
  phase \in {"returned", "finished"} /\ verdict = "ok" =>
    /\ completed = Stages
    /\ \A s \in Stages : \E n \in DOMAIN file :
         file[n].stage = s /\ file[n].state = outcome[s] /\ outcome[s] \in Journal!Success
    /\ (defer /\ phase = "returned") \/ file[Len(file)] = Journal!RunRecord("succeeded")

\* A reader accepts the file at every moment and after every crash, and finds
\* in it no completion that did not happen.
JournalTruthful ==
  /\ Journal!Replayable
  /\ \A n \in DOMAIN file : file[n].kind = "stage" /\ file[n].state \notin Journal!Active =>
       file[n].state = outcome[file[n].stage]

\* While stages are missing some stage is ready, and of the stages that wait for
\* admission one is admitted unless a stage alone is over the budget: neither
\* an acyclic plan nor a full machine makes Execute give up.
NeverStuck ==
  /\ phase = "next" /\ completed # Stages => Ready # {}
  /\ phase = "admitting" /\ pending # {} /\ (\A s \in pending : ~Exceeds(s)) => Admitted # {}

\* Where the goroutine of a stage stands agrees with the journal's lifecycle and
\* with what it has reported; a stage that was admitted had its inputs.
StandsRight(s) ==
  LET state == life.stages[s].state IN
  /\ work[s] = "none" => state = "" /\ outcome[s] = "" /\ result[s] = "" /\ s \notin batch
  /\ work[s] = "starting" => state = "" /\ outcome[s] = "" /\ result[s] = "" /\ s \in batch
  /\ work[s] = "running" => state = "running" /\ outcome[s] = "" /\ result[s] = "" /\ s \in batch
  /\ work[s] = "stopping" => state = "running" /\ outcome[s] \in Outcomes /\ result[s] = "" /\ s \in batch
  /\ work[s] = "done" => result[s] # ""
  /\ result[s] = "ok" => state = outcome[s] /\ outcome[s] \in Journal!Success
  /\ s \in completed => result[s] = "ok"
  /\ work[s] # "none" => plan[s] \subseteq completed

StageInv == \A s \in Stages : StandsRight(s)

Executing == {"next", "admitting", "batch"}

\* Where the main goroutine stands: while it executes nothing has failed outside
\* the running batch, and what it will return agrees with what is completed.
MainInv ==
  /\ batch # {} => phase = "batch"
  /\ phase \in Executing \cup {"new"} => \A s \in Stages : work[s] # "none" => s \in completed \cup batch
  /\ phase \in {"admitting", "batch"} => \A s \in pending : work[s] = "none" /\ plan[s] \subseteq completed
  /\ phase = "new" => life = Journal!Genesis
  /\ phase \in Executing \cup {"ending"} => life.initialized /\ ~life.terminal /\ ~Journal!HasCycle(plan)
  /\ phase \in {"ending", "returned", "closing", "finished"} /\ verdict = "ok" => completed = Stages
  /\ phase \in {"returned", "closing", "finished"} /\ verdict = "ok" =>
       (defer /\ phase = "returned") \/ file[Len(file)] = Journal!RunRecord("succeeded")

\* A batch was admitted within both limits.
BatchInv ==
  /\ Cardinality(batch) <= Workers
  /\ \A d \in Dims : budget[d] > 0 => Reserved(batch, d) <= budget[d]

\* A recorded end of a stage is the one its goroutine reported before it left.
EndsRecorded ==
  \A n \in DOMAIN file : file[n].kind = "stage" /\ file[n].state \notin Journal!Active =>
    work[file[n].stage] = "done" /\ file[n].state = outcome[file[n].stage]

IInv == TypeOK /\ Journal!JournalInv /\ StageInv /\ MainInv /\ BatchInv /\ EndsRecorded

\* What holds of batches and admission.
BatchesSound == IInv /\ WithinBudget /\ InputsComplete /\ NeverStuck

\* What the journal and the returned error prove to others.
OutcomeProven == RecordsAcceptable /\ SuccessIsProven /\ JournalTruthful

\* Once a stage has failed, no stage outside its batch starts.
StopsAfterFailure ==
  [][\A s \in Stages : work[s] = "none" /\ work'[s] # "none" =>
       \A k \in Stages : result[k] # "error"]_vars

\* Every run returns, whatever is deferred, fails or is cancelled.
Returns == <>(phase = "finished" \/ (phase = "returned" /\ ~defer) \/ ~alive)
=============================================================================
