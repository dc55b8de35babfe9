------------------------------ MODULE HostLoad ------------------------------
(***************************************************************************)
(* The admission of work beside workloads of higher priority: the strict   *)
(* policy refuses while one is visible, the yield policy measures what the *)
(* visible ones and their descendants consume between two looks at the     *)
(* process table.  A look reads one process after another, and processes   *)
(* start, end and hand their numbers on between any two readings.          *)
(***************************************************************************)
EXTENDS Naturals, FiniteSets, FiniteSetsExt

CONSTANTS
  Pids,       \* process numbers; 1 is init, 2 the process that asks for admission
  Workload,   \* those of a workload that runs from the start
  Cpus,       \* processors of the host
  Share,      \* the threshold, as a pair <<n, d>>: n/d of one processor
  MaxClock, MaxStarts  \* bounds on what the other processes do

BoundsAssumption ==
  /\ IsFiniteSet(Pids) /\ {1, 2} \subseteq Pids /\ Workload \subseteq Pids \ {1, 2} /\ Pids \subseteq Nat \ {0} /\ Cpus \in Nat \ {0}
  /\ Share \in (Nat \ {0}) \X (Nat \ {0}) /\ MaxClock \in Nat \ {0} /\ MaxStarts \in Nat

VARIABLES
  process,    \* the live processes: parent, start time, marker class, ticks used
  clock,      \* ticks of all processors together
  starts,     \* processes started so far; stands for their start time
  step,       \* where the check stands; "admitted" and "refused" between checks
  look,       \* the walk or the sample under way: what is left to read, what was read
  conflicts,  \* the processes it measures
  baseline,   \* the last sample, with the clock it was taken at
  before      \* auxiliary: what happened to the sampled processes since each was read

self == 2
host == <<process, clock, starts>>
loadVars == <<host, step, look, conflicts, baseline, before>>

NoSample == [of |-> << >>, clock |-> 0]
NoLook == [left |-> {}, seen |-> << >>, clock |-> 0]

\* `watched' was sampled and `alive' of it still runs, having used `spent' since it was read;
\* the sample under way found `kept' still running, which had used `found'.
Nobody ==
  [watched |-> {}, alive |-> {}, spent |-> [p \in Pids |-> 0], kept |-> {}, found |-> [p \in Pids |-> 0], clock |-> 0]

Walking == {"checking", "listing", "relisting"}
Sampling == {"sampling", "resampling"}

LoadTypeOK ==
  /\ DOMAIN process \subseteq Pids /\ {1, self} \subseteq DOMAIN process
  /\ \A p \in DOMAIN process : process[p].parent \in (DOMAIN process \cup {0}) /\ process[p].ticks \in 0..MaxClock
  /\ clock \in 1..MaxClock /\ starts \in 0..MaxStarts
  /\ step \in Walking \cup Sampling \cup {"listed", "asleep", "relisted", "admitted", "refused"}
  /\ look.left \subseteq Pids /\ DOMAIN look.seen \subseteq Pids /\ look.clock <= clock
  /\ conflicts \subseteq Pids /\ DOMAIN baseline.of \subseteq Pids /\ baseline.clock <= clock

LoadInit ==
  /\ process = [p \in {1, self} \cup Workload |->
       [parent |-> IF p = 1 THEN 0 ELSE 1, start |-> 0, marked |-> p \in Workload, ticks |-> 0]]
  /\ clock = 1 /\ starts = 0
  /\ step = "refused" /\ look = NoLook /\ conflicts = {} /\ baseline = NoSample /\ before = Nobody

-----------------------------------------------------------------------------
(* What a process table shows.                                             *)

\* The process and those above it, as far as the table shows them.
Above(table, p) ==
  LET up[n \in 0..Cardinality(DOMAIN table)] ==
        IF n = 0 THEN {p} ELSE up[n - 1] \cup {table[q].parent : q \in up[n - 1] \cap DOMAIN table}
  IN  up[Cardinality(DOMAIN table)]

Below(table, R) == {p \in DOMAIN table : Above(table, p) \cap R # {}}

\* Neither the caller's ancestors nor what it started count as competitors.
Related(table) == (Above(table, self) \ {0, 1}) \cup Below(table, {self})
Roots(table) == {p \in DOMAIN table : table[p].marked} \ Related(table)

\* The workers of a workload have generic names.
Conflicts(table) == Below(table, Roots(table))

-----------------------------------------------------------------------------
(* The host.                                                               *)

Fork(parent, p, marked) ==
  /\ starts < MaxStarts /\ parent \in DOMAIN process /\ p \in Pids \ DOMAIN process
  /\ starts' = starts + 1
  /\ process' = [q \in DOMAIN process \cup {p} |->
       IF q = p THEN [parent |-> parent, start |-> starts + 1, marked |-> marked, ticks |-> 0] ELSE process[q]]
  /\ UNCHANGED <<clock, step, look, conflicts, baseline, before>>

\* Its children are left to init.
End(p) ==
  /\ p \in DOMAIN process \ {1, self}
  /\ process' = [q \in DOMAIN process \ {p} |->
       IF process[q].parent = p THEN [process[q] EXCEPT !.parent = 1] ELSE process[q]]
  /\ before' = [before EXCEPT !.alive = @ \ {p}, !.spent[p] = 0]
  /\ UNCHANGED <<clock, starts, step, look, conflicts, baseline>>

\* A tick of one processor, used by a process the check may look at or by another.
Tick(p) ==
  /\ clock < MaxClock /\ clock' = clock + 1
  /\ process' = [q \in DOMAIN process |->
       IF q = p THEN [process[q] EXCEPT !.ticks = @ + 1] ELSE process[q]]
  /\ before' = IF p \in before.alive THEN [before EXCEPT !.spent[p] = @ + 1] ELSE before
  /\ UNCHANGED <<starts, step, look, conflicts, baseline>>

-----------------------------------------------------------------------------
(* The check.                                                              *)

Idle == step \in {"admitted", "refused"}

Outcome(outcome) == step' = outcome /\ look' = NoLook /\ conflicts' = {}
Admit == Outcome("admitted") /\ UNCHANGED <<baseline, before>>
Refuse == Outcome("refused") /\ UNCHANGED <<baseline, before>>

\* The names in the process table, whose entries are read one by one.
Walk(next) ==
  /\ step' = next /\ look' = [NoLook EXCEPT !.left = DOMAIN process]
  /\ UNCHANGED <<host, conflicts, baseline, before>>

\* The policy that refuses whenever a workload is visible, the first look of the other
\* one, and its second look after the sampling window.
CheckStrictly == Idle /\ Walk("checking")
List == Idle /\ Walk("listing")
Relist == step = "asleep" /\ Walk("relisting")

\* A table or a clock that cannot be read refuses under either policy.
Unreadable == (Idle \/ step = "asleep") /\ Refuse /\ UNCHANGED host
ClockUnreadable == step \in {"listed", "relisted"} /\ Refuse /\ UNCHANGED host

\* Another threshold or other markers: a new checker, without a baseline.
Reconfigure ==
  /\ Idle /\ baseline # NoSample /\ baseline' = NoSample /\ before' = Nobody
  /\ UNCHANGED <<host, step, look, conflicts>>

With(seen, p, entry) == [q \in DOMAIN seen \cup {p} |-> IF q = p THEN entry ELSE seen[q]]

\* Entries are read in the order of the numbers; that of a process that has ended is skipped.
ReadEntry(p) ==
  /\ step \in Walking /\ p \in look.left /\ p = Min(look.left)
  /\ look' = [look EXCEPT
       !.left = @ \ {p},
       !.seen = IF p \in DOMAIN process
                THEN With(@, p, [parent |-> process[p].parent, marked |-> process[p].marked]) ELSE @]
  /\ UNCHANGED <<host, step, conflicts, baseline, before>>

\* Without a workload the baseline is dropped and work admitted.
Listed ==
  /\ step \in Walking /\ look.left = {}
  /\ \/ step = "checking" /\ (IF Roots(look.seen) = {} THEN Admit ELSE Refuse)
     \/ /\ step = "listing" /\ Roots(look.seen) = {}
        /\ Outcome("admitted") /\ baseline' = NoSample /\ before' = Nobody
     \/ /\ step = "relisting" \/ (step = "listing" /\ Roots(look.seen) # {})
        /\ step' = IF step = "listing" THEN "listed" ELSE "relisted"
        /\ conflicts' = Conflicts(look.seen) /\ look' = NoLook
        /\ UNCHANGED <<baseline, before>>
  /\ UNCHANGED host

\* The clock of the host is read before the processes of the list are.
ReadClock ==
  /\ step \in {"listed", "relisted"}
  /\ step' = IF step = "listed" THEN "sampling" ELSE "resampling"
  /\ look' = [left |-> conflicts, seen |-> << >>, clock |-> clock]
  /\ UNCHANGED <<host, conflicts, baseline, before>>

\* What identifies a process of the list that still runs, and what it used so far.
ReadTicks(p) ==
  /\ step \in Sampling /\ p \in look.left /\ p = Min(look.left)
  /\ look' = [look EXCEPT
       !.left = @ \ {p},
       !.seen = IF p \in DOMAIN process
                THEN With(@, p, [start |-> process[p].start, ticks |-> process[p].ticks]) ELSE @]
  /\ before' = IF p \in DOMAIN process
               THEN [before EXCEPT !.alive = @ \cup {p}, !.spent[p] = 0,
                                   !.kept = @ \cup (before.alive \cap {p}), !.found[p] = before.spent[p]]
               ELSE before
  /\ UNCHANGED <<host, step, conflicts, baseline>>

\* defect: a process is known by its number alone
AnyStart(sample, p) == p \in DOMAIN baseline.of

SameProcess(sample, p) ==
  p \in DOMAIN baseline.of /\ baseline.of[p].start = sample[p].start

Complete(sample) == Cardinality(DOMAIN sample) = Cardinality(DOMAIN baseline.of)

\* The sample continues the baseline: the same processes, all of them.
Comparable(sample) ==
  /\ baseline # NoSample /\ look.clock > baseline.clock
  /\ Complete(sample)
  /\ \A p \in conflicts : p \in DOMAIN sample /\ SameProcess(sample, p)
  /\ sample # << >>

Used(sample) ==
  MapThenSumSet(LAMBDA p : IF sample[p].ticks > baseline.of[p].ticks THEN sample[p].ticks - baseline.of[p].ticks ELSE 0,
                conflicts)

Spare(used, ticks) == used * Cpus * Share[2] < Share[1] * ticks

\* Either way the sample becomes the next baseline.
Measure ==
  /\ step \in Sampling /\ look.left = {}
  /\ baseline' = [of |-> look.seen, clock |-> look.clock]
  /\ before' = [Nobody EXCEPT !.watched = DOMAIN look.seen, !.alive = before.alive \cap DOMAIN look.seen,
                              !.spent = [p \in Pids |-> IF p \in DOMAIN look.seen THEN before.spent[p] ELSE 0],
                              !.clock = look.clock]
  /\ Outcome(IF Comparable(look.seen)
            THEN IF Spare(Used(look.seen), look.clock - baseline.clock) THEN "admitted" ELSE "refused"
            ELSE IF step = "sampling" THEN "asleep" ELSE "refused")
  /\ UNCHANGED host

LoadNext ==
  \/ \E q, p \in Pids, marked \in BOOLEAN : Fork(q, p, marked)
  \/ \E p \in Pids : End(p)
  \/ \E p \in before.alive \cup Conflicts(process) \cup {0} : Tick(p)
  \/ CheckStrictly \/ Unreadable \/ ClockUnreadable \/ Reconfigure
  \/ List \/ Relist \/ Listed \/ ReadClock \/ Measure
  \/ \E p \in Pids : ReadEntry(p) \/ ReadTicks(p)

LoadSpec == LoadInit /\ [][LoadNext]_loadVars

-----------------------------------------------------------------------------
FoundSince(p) == before.found[p]

Covered ==
  /\ before.watched \cup conflicts \subseteq before.kept
  /\ Spare(MapThenSumSet(FoundSince, conflicts), look.clock - before.clock)

\* Work is admitted beside a visible workload only on a measurement that covers
\* it: everything watched since the earlier sample ran on until it was read
\* again, nothing joined the list, and together they used less than the
\* threshold between the two readings of each; a process that ended, or whose
\* number another one took, never makes a busy workload look idle.
AdmissionMeasured == [][Measure /\ step' = "admitted" => Covered]_loadVars
=============================================================================
