---------------------------- MODULE MCScheduler ----------------------------
(***************************************************************************)
(* Instances for TLC: three stages under any plan, two budgets and both    *)
(* ways of ending the journal; beside them the run journal alone, under    *)
(* any writer.  A behaviour exercises one of the two, `part' says which.   *)
(***************************************************************************)
EXTENDS Scheduler, RunJournal

CONSTANTS s1, s2, s3

VARIABLE part

MCOrder == <<s1, s2, s3>>

\* s1 and s2 fit together, s3 fits beside neither; "open_files" is unbounded.
MCDims == {"memory", "cpu", "open_files"}
Ample == [d \in MCDims |-> CASE d = "memory" -> 4 [] d = "cpu" -> 2 [] OTHER -> 0]
MCCost ==
  [s \in Stages |-> [d \in MCDims |->
     CASE s = s1 -> 1
       [] s = s2 -> IF d = "memory" THEN 3 ELSE 1
       [] OTHER -> 2]]

\* Of the second budget s3 alone is more than there is.
MCBudgets == {Ample, [Ample EXCEPT !["cpu"] = 1]}

ASSUME WriterAssumption == NoneAssumption /\ BoundAssumption

MCInit ==
  /\ Init /\ JournalInit
  /\ \/ part = "execute" /\ (budget = Ample \/ ~defer) /\ \A s \in StageIds : dependencies[s] = {}
     \/ part = "journal" /\ budget = Ample /\ ~defer /\ (\A s \in Stages : plan[s] = {}) /\ dependencies[s2] = {s1}

MCNext ==
  \/ part = "execute" /\ Next /\ UNCHANGED <<part, runVars>>
  \/ part = "journal" /\ JournalNext /\ UNCHANGED <<part, vars>>

MCSpec == MCInit /\ [][MCNext]_<<part, runVars, vars>> /\ Fairness
=============================================================================
