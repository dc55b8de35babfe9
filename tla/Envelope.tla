------------------------------ MODULE Envelope ------------------------------
(***************************************************************************)
(* The proof that the current process is confined before it does expensive *)
(* work: the limits of its control group are read, the priority of every   *)
(* thread inspected, and outside a unit of RKC's own the threads may be    *)
(* lowered, in passes over a thread set that changes meanwhile.  Limits    *)
(* and membership are someone else's and may drift at any time.            *)
(***************************************************************************)
EXTENDS Naturals, FiniteSets

CONSTANTS
  Tids,       \* thread numbers, each used once; 1 is the first thread
  Passes,     \* maximumThreadSchedulingPasses
  MaxDrifts   \* bound on what others do to the control group

EnvelopeAssumption == 1 \in Tids /\ Tids \subseteq Nat /\ Passes \in Nat \ {0} /\ MaxDrifts \in Nat

VARIABLES
  thread,    \* [Tids -> priority]: "high", "half" between two system calls, "low"
  group,     \* the control group of the process
  within,    \* whether its limits are within the profile
  drifts,
  proving,        \* where the proof stands
  lowering,  \* whether the caller lets threads be lowered: Prepare, not Require
  first,     \* the membership read first
  listed, todo, changed, passes, lowest,  \* loops over the threads
  lowered    \* auxiliary: a thread was lowered since the limits were last read

surroundings == <<thread, group, within, drifts>>
loop == <<listed, todo, changed, passes, lowest>>
envelopeVars == <<surroundings, proving, lowering, first, loop, lowered>>

Live == {t \in Tids : thread[t] \in {"high", "half", "low"}}
Groups == {"unit", "root", "other"}

EnvelopeTypeOK ==
  /\ thread \in [Tids -> {"unborn", "high", "half", "low", "gone"}]
  /\ group \in Groups /\ within \in BOOLEAN /\ drifts \in 0..MaxDrifts
  /\ proving \in {"exact", "exactThreads", "reserved", "controls", "threads", "list", "lower", "stable",
             "again", "threadsAgain", "prepared", "failed"}
  /\ lowering \in BOOLEAN /\ lowered \in BOOLEAN /\ first \in Groups \cup {"none"}
  /\ listed \subseteq Tids /\ todo \subseteq listed /\ changed \in BOOLEAN /\ passes \in 0..Passes
  /\ lowest \in {"low", "high"}

EnvelopeInit ==
  /\ \E p \in {"high", "low"} : thread = [t \in Tids |-> IF t = 1 THEN p ELSE "unborn"]
  /\ group \in Groups /\ within \in BOOLEAN /\ drifts = 0
  /\ proving = "exact" /\ lowering \in BOOLEAN /\ first = "none"
  /\ listed = {} /\ todo = {} /\ changed = FALSE /\ passes = 0 /\ lowest = "low" /\ lowered = FALSE

-----------------------------------------------------------------------------
(* The process's other threads, and the managers of its group.             *)

Undecided == proving \notin {"prepared", "failed"}

\* A new thread inherits the priority of the one that makes it.
Clone(t, u) ==
  /\ Undecided /\ t \in Live /\ thread[u] = "unborn"
  /\ thread' = [thread EXCEPT ![u] = thread[t]]
  /\ UNCHANGED <<group, within, drifts, proving, lowering, first, loop, lowered>>

ThreadEnds(t) ==
  /\ Undecided /\ t \in Live \ {1}
  /\ thread' = [thread EXCEPT ![t] = "gone"]
  /\ UNCHANGED <<group, within, drifts, proving, lowering, first, loop, lowered>>

Drift ==
  /\ Undecided /\ drifts < MaxDrifts /\ drifts' = drifts + 1
  /\ \/ within' = ~within /\ UNCHANGED group
     \/ group' \in Groups \ {group} /\ UNCHANGED within
  /\ UNCHANGED <<thread, proving, lowering, first, loop, lowered>>

-----------------------------------------------------------------------------
(* The proof.                                                              *)

Go(place) == proving' = place /\ UNCHANGED <<surroundings, lowering, first, lowered>>
GiveUp == Go("failed") /\ UNCHANGED loop

\* The loop over the threads begins with the list the kernel shows.
ListThreads(place) ==
  /\ proving' = place
  /\ listed' = Live /\ todo' = Live /\ lowest' = "low" /\ UNCHANGED <<changed, passes>>

\* A reading that fails, at any point.
InspectionFails == Undecided /\ GiveUp

\* requireProcessLowPriority: a unit of RKC's own, its limits, then the threads.
RequireExact ==
  /\ proving = "exact"
  /\ IF group = "unit" /\ within
     THEN ListThreads("exactThreads") /\ UNCHANGED <<surroundings, lowering, first, lowered>>
     ELSE Go("reserved") /\ UNCHANGED loop

\* currentSchedulingEnvelope: a thread that has ended fails the inspection.
Inspect(t) ==
  /\ proving \in {"exactThreads", "threads", "threadsAgain"} /\ t \in todo
  /\ \A u \in todo : t <= u
  /\ IF t \in Live
     THEN /\ todo' = todo \ {t}
          /\ lowest' = IF thread[t] = "low" THEN lowest ELSE "high"
          /\ UNCHANGED <<surroundings, proving, lowering, first, listed, changed, passes, lowered>>
     ELSE IF proving = "exactThreads" THEN Go("reserved") /\ UNCHANGED loop ELSE GiveUp

\* What the inspection leads to.
AllInspected ==
  /\ proving \in {"exactThreads", "threads", "threadsAgain"} /\ todo = {}
  /\ \/ lowest = "low" /\ Go("prepared") /\ UNCHANGED loop
     \/ lowest = "high" /\ proving = "exactThreads" /\ Go("reserved") /\ UNCHANGED loop
     \/ lowest = "high" /\ proving = "threads" /\ lowering /\ Go("list") /\ UNCHANGED loop
     \/ lowest = "high" /\ proving = "threads" /\ ~lowering /\ GiveUp
     \/ lowest = "high" /\ proving = "threadsAgain" /\ GiveUp

\* A unit with RKC's reserved name is held to the exact proof.
ReservedUnit ==
  /\ proving = "reserved"
  /\ IF group = "unit" THEN GiveUp ELSE Go("controls") /\ UNCHANGED loop

\* requireControls of requireExternalProcessLowPriority, before and after.
RequireControls ==
  /\ proving \in {"controls", "again"}
  /\ IF group = "root" /\ within /\ (proving = "again" => group = first)
     THEN /\ ListThreads(IF proving = "controls" THEN "threads" ELSE "threadsAgain")
          /\ first' = group /\ lowered' = FALSE
          /\ UNCHANGED <<surroundings, lowering>>
     ELSE GiveUp

\* lowerCurrentSchedulingEnvelope: a pass begins, lowers, and compares the lists.
BeginPass ==
  /\ proving = "list"
  /\ IF passes = Passes
     THEN GiveUp
     ELSE /\ proving' = "lower" /\ listed' = Live /\ todo' = Live /\ changed' = FALSE /\ passes' = passes + 1
          /\ UNCHANGED <<surroundings, lowering, first, lowest, lowered>>

\* The processor's priority, then that of input and output.
LowerThread(t) ==
  /\ proving = "lower" /\ t \in todo /\ \A u \in todo : t <= u
  /\ IF t \in Live
     THEN /\ thread' = [thread EXCEPT ![t] = IF @ = "high" THEN "half" ELSE "low"]
          /\ todo' = IF thread[t] = "high" THEN todo ELSE todo \ {t}
          /\ lowered' = TRUE /\ UNCHANGED changed
     ELSE todo' = todo \ {t} /\ changed' = TRUE /\ UNCHANGED <<thread, lowered>>
  /\ UNCHANGED <<group, within, drifts, proving, lowering, first, listed, passes, lowest>>

\* defect: the list is not read again
NobodyEnded(now) == ~changed

\* The pass met every thread there is.
Stable(now) == ~changed /\ listed = now

EndPass ==
  /\ proving = "lower" /\ todo = {}
  /\ Go(IF Stable(Live) THEN "again" ELSE "list") /\ UNCHANGED loop

EnvelopeNext ==
  \/ \E t, u \in Tids : Clone(t, u)
  \/ \E t \in Tids : ThreadEnds(t) \/ Inspect(t) \/ LowerThread(t)
  \/ Drift \/ InspectionFails
  \/ RequireExact \/ AllInspected \/ ReservedUnit \/ RequireControls \/ BeginPass \/ EndPass

EnvelopeSpec == EnvelopeInit /\ [][EnvelopeNext]_envelopeVars

-----------------------------------------------------------------------------
\* A process that was prepared has only threads of the lowest priority, those
\* made while others were lowered included, and so has one whose threads were
\* lowered; limits that were read before a thread was lowered prepare nothing.
EnvelopeProven ==
  /\ proving = "prepared" => ~lowered
  /\ proving \in {"again", "threadsAgain", "prepared"} => \A t \in Live : thread[t] = "low"

\* Inductive: while threads are inspected, one that is not lowest is ahead, or
\* has been seen, or had its like from one that is ahead or ended meanwhile; while
\* they are lowered, those the pass is done with are lowest.
EnvelopeInv ==
  /\ EnvelopeTypeOK /\ EnvelopeProven
  /\ \A t \in listed : thread[t] # "unborn"
  /\ proving \notin {"list", "lower", "again", "failed"} => ~lowered
  /\ proving \in {"exactThreads", "threads", "threadsAgain"} /\ lowest = "low" =>
       (\A t \in Live : thread[t] = "low") \/ (\E t \in todo : thread[t] # "low")
  /\ proving = "lower" => \A t \in listed \ todo : thread[t] \in {"low", "gone"}
=============================================================================
