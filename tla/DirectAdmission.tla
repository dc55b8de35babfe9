--------------------------- MODULE DirectAdmission ---------------------------
(***************************************************************************)
(* How a command is let run on a shared host: its arguments are judged     *)
(* before anything is parsed, then it runs bare, in a guarded child, or in *)
(* this process beside a monitor that cancels it.  `open' also waits for   *)
(* its child's receipt to show a browser.                                  *)
(***************************************************************************)
EXTENDS Naturals, Sequences

CONSTANTS
  ArgLists,   \* command lines: sequences of flags, operands and "--"
  Operand, Dashes

Flags == [name : STRING, form : {"bare", "true", "false", "bad"}]
DirectAssumption == ArgLists \subseteq Seq(Flags \cup {Operand, Dashes})

Switches == {"no-python", "no-plugins"}
Booleans == Switches \cup {"force"}
Values == {"out"}

VARIABLES
  command, linux, args,
  parses,    \* auxiliary: what the command's own flag parser makes of args
  stage,        \* where the caller stands
  mode,      \* how the command runs
  ended,     \* the caller's context
  hostBusy,      \* a check of the host, its memory or the envelope would fail
  check,     \* the check that is next, before the work or in the monitor
  work,      \* the command itself
  finished, stopped,  \* workFinished closed, workContext done
  monitor,   \* the monitoring goroutine
  verdict,   \* monitorResult
  yielded,   \* auxiliary: the monitor has decided to stop running work
  launched,     \* the guarded child
  receipt,   \* the readiness file: whose it is
  shown,     \* the browser was started
  watcher,   \* the goroutine that waits for the receipt
  reported

asked == <<command, linux, args, parses>>
local == <<check, work, finished, stopped, monitor, verdict, yielded>>
launch == <<launched, receipt, shown, watcher>>
directVars == <<asked, stage, mode, ended, hostBusy, local, launch, reported>>

DirectTypeOK ==
  /\ command \in {"scan", "open"} /\ linux \in BOOLEAN /\ parses \in {"unknown", "stops", "python", "safe"}
  /\ stage \in {"ask", "check", "working", "close", "stop", "receive", "launch", "running", "unwatch", "join", "returned"}
  /\ mode \in {"none", "bare", "protected", "child"} /\ ended \in BOOLEAN /\ hostBusy \in BOOLEAN
  /\ check \in 1..3 /\ work \in {"none", "running", "ok", "failed"}
  /\ finished \in BOOLEAN /\ stopped \in BOOLEAN /\ yielded \in BOOLEAN /\ shown \in BOOLEAN
  /\ monitor \in {"none", "select", "check", "report", "send", "cancel", "done"}
  /\ verdict \in {"empty", "nil", "yield"}
  /\ launched \in {"none", "running", "ok", "failed", "cancelled"} /\ receipt \in {"absent", "stale", "ours"}
  /\ watcher \in {"none", "poll", "wait", "done"} /\ reported \in {"none", "nil", "error"}

DirectInit ==
  /\ command \in {"scan", "open"} /\ linux \in BOOLEAN /\ parses = "unknown"
  /\ args \in ArgLists /\ (command = "open" => args = << >>)
  /\ stage = "ask" /\ mode = "none" /\ ended = FALSE /\ hostBusy = FALSE
  /\ check = 1 /\ work = "none" /\ finished = FALSE /\ stopped = FALSE
  /\ monitor = "none" /\ verdict = "empty" /\ yielded = FALSE
  /\ launched = "none" /\ receipt \in {"absent", "stale"} /\ shown = FALSE /\ watcher = "none" /\ reported = "none"

-----------------------------------------------------------------------------
(* The arguments.                                                          *)

\* The words a value flag takes beside its own.
Takes(flag) == IF flag.name \in Values /\ flag.form = "bare" THEN 1 ELSE 0

\* A line is read from left to right: a step ends the reading, or goes on at
\* another word with other switches on.
Ends(r) == [end |-> r, next |-> 1, on |-> {}]
Goes(i, on) == [end |-> "", next |-> i, on |-> on]

Follow(step, n) ==
  LET walk[i \in 1..n + 2] ==
        [on \in SUBSET Switches |->
           IF step[i][on].end # "" THEN step[i][on].end ELSE walk[step[i][on].next][step[i][on].on]]
  IN  walk[1][{}]

Over(line, i) == i > Len(line) \/ line[i] \in {Operand, Dashes}

\* A switch counts in its last form.
Switched(flag, on) ==
  IF flag.name \notin Switches THEN on ELSE IF flag.form = "false" THEN on \ {flag.name} ELSE on \cup {flag.name}

\* validateDirectCommandAdmission: a form that is not a boolean is an error of a
\* switch only.
ValidateFlag(line, i, on) ==
  LET flag == line[i] IN
  IF flag.name = "help" THEN Ends("help")
  ELSE IF flag.name \notin Booleans \cup Values \/ (flag.name \in Switches /\ flag.form = "bad") THEN Ends("refused")
  ELSE IF flag.name \in Values /\ i + Takes(flag) > Len(line) THEN Ends("refused")
  ELSE Goes(i + 1 + Takes(flag), IF flag.form = "bad" THEN on ELSE Switched(flag, on))

ValidateStep(line) ==
  [i \in 1..Len(line) + 2 |-> [on \in SUBSET Switches |->
     IF Over(line, i) THEN Ends(IF on = {} THEN "refused" ELSE "admitted") ELSE ValidateFlag(line, i, on)]]

Validate(line) == Follow(ValidateStep(line), Len(line))

\* The flag package on the command's own flags: it stops with an error or after
\* the usage, or leaves the switches at their last value.
ParseFlag(line, i, on) ==
  LET flag == line[i] IN
  IF \/ flag.name \notin Booleans \cup Values
     \/ flag.name \in Booleans /\ flag.form = "bad"
     \/ flag.name \in Values /\ flag.form = "bare" /\ i = Len(line)
  THEN Ends("stops")
  ELSE Goes(IF flag.name \in Values /\ flag.form = "bare" THEN i + 2 ELSE i + 1, Switched(flag, on))

ParseStep(line) ==
  [i \in 1..Len(line) + 2 |-> [on \in SUBSET Switches |->
     IF Over(line, i) THEN Ends(IF on = {} THEN "python" ELSE "safe") ELSE ParseFlag(line, i, on)]]

Parse(line) == Follow(ParseStep(line), Len(line))

-----------------------------------------------------------------------------
(* Admission.                                                              *)

ReturnWith(r) == stage' = "returned" /\ reported' = r
Begin(how, place) == mode' = how /\ stage' = place /\ UNCHANGED reported

Bare ==
  /\ mode' = "bare" /\ work' = "running" /\ stage' = "working"
  /\ UNCHANGED <<check, finished, stopped, monitor, verdict, yielded, reported>>
Refused == ReturnWith("error") /\ UNCHANGED <<mode, local>>
Protect == Begin("protected", "check") /\ UNCHANGED local
Launch == Begin("child", "launch") /\ UNCHANGED local

\* runDirectCommandWithAdmission: help and other systems need no admission; a child
\* must find itself confined, and only for the command it was started for; any
\* other process confines itself or starts a child.
AskScan ==
  /\ stage = "ask" /\ command = "scan"
  /\ args' = << >> /\ parses' = Parse(args)
  /\ \/ Validate(args) = "help" /\ Bare
     \/ Validate(args) = "refused" /\ Refused
     \/ Validate(args) = "admitted" /\ ~linux /\ Bare
     \/ Validate(args) = "admitted" /\ linux /\ (Protect \/ Launch \/ Refused)
  /\ UNCHANGED <<command, linux, ended, hostBusy, launch>>

\* runOpenWithAdmission: it asks its own parser about help, and works here only
\* as the child it has started.
AskOpen ==
  /\ stage = "ask" /\ command = "open"
  /\ \/ parses' = "stops" /\ Bare
     \/ parses' = "safe" /\ (IF linux THEN Protect \/ Launch \/ Refused ELSE Bare)
  /\ UNCHANGED <<command, linux, args, ended, hostBusy, launch>>

BareReturns ==
  /\ mode = "bare" /\ stage = "working"
  /\ work' \in {"ok", "failed"} /\ ReturnWith(IF work' = "ok" THEN "nil" ELSE "error")
  /\ UNCHANGED <<asked, mode, ended, hostBusy, check, finished, stopped, monitor, verdict, yielded, launch>>

-----------------------------------------------------------------------------
(* runProtectedDirectLocal: three checks, then the work beside its monitor.  *)

\* The first thing asked is the caller's context; one that ends during the checks
\* stops the work as it starts.
CheckFirst ==
  /\ stage = "check"
  /\ \/ (ended \/ hostBusy) /\ ReturnWith("error") /\ UNCHANGED local
     \/ /\ ~hostBusy /\ (check = 1 => ~ended)
        /\ IF check < 3
           THEN check' = check + 1 /\ UNCHANGED <<stage, work, stopped, monitor>>
           ELSE check' = 1 /\ stage' = "working" /\ work' = "running" /\ stopped' = ended /\ monitor' = "select"
        /\ UNCHANGED <<finished, verdict, yielded, reported>>
  /\ UNCHANGED <<asked, mode, ended, hostBusy, launch>>

LocalStep == UNCHANGED <<asked, mode, ended, hostBusy, launch, reported>>

WorkReturns ==
  /\ mode = "protected" /\ stage = "working" /\ work = "running"
  /\ work' \in {"ok", "failed"} /\ stage' = "close"
  /\ UNCHANGED <<check, finished, stopped, monitor, verdict, yielded>> /\ LocalStep

CloseFinished ==
  /\ stage = "close" /\ stage' = "stop" /\ finished' = TRUE
  /\ UNCHANGED <<check, work, stopped, monitor, verdict, yielded>> /\ LocalStep

CancelWork ==
  /\ stage = "stop" /\ stage' = "receive" /\ stopped' = TRUE
  /\ UNCHANGED <<check, work, finished, monitor, verdict, yielded>> /\ LocalStep

Answered == verdict # "empty"

ReceiveResult ==
  /\ stage = "receive" /\ Answered
  /\ ReturnWith(IF work = "ok" /\ verdict # "yield" THEN "nil" ELSE "error")
  /\ UNCHANGED <<asked, mode, ended, hostBusy, local, launch>>

\* The monitor: whichever of its channels is ready.
MonitorLeaves ==
  /\ monitor = "select" /\ (finished \/ stopped)
  /\ monitor' = "done" /\ verdict' = "nil"
  /\ UNCHANGED <<stage, check, work, finished, stopped, yielded>> /\ LocalStep

MonitorTicks ==
  /\ monitor = "select" /\ monitor' = "check" /\ check' = 1
  /\ UNCHANGED <<stage, work, finished, stopped, verdict, yielded>> /\ LocalStep

\* A ticker that is closed ends the work, finished or not.
TickerCloses ==
  /\ monitor = "select" /\ monitor' = "cancel" /\ verdict' = "yield" /\ yielded' = TRUE
  /\ UNCHANGED <<stage, check, work, finished, stopped>> /\ LocalStep

MonitorChecks ==
  /\ monitor = "check"
  /\ IF hostBusy THEN monitor' = "report" /\ UNCHANGED check
     ELSE IF check < 3 THEN check' = check + 1 /\ UNCHANGED monitor ELSE check' = 1 /\ monitor' = "select"
  /\ UNCHANGED <<stage, work, finished, stopped, verdict, yielded>> /\ LocalStep

\* reportDirectLocalMonitorFailure: a failure found after the end is not one.
Report ==
  /\ monitor = "report"
  /\ IF finished THEN monitor' = "done" /\ verdict' = "nil" /\ UNCHANGED yielded
                 ELSE monitor' = "send" /\ yielded' = TRUE /\ UNCHANGED verdict
  /\ UNCHANGED <<stage, check, work, finished, stopped>> /\ LocalStep

SendFailure ==
  /\ monitor = "send" /\ monitor' = "cancel" /\ verdict' = "yield"
  /\ UNCHANGED <<stage, check, work, finished, stopped, yielded>> /\ LocalStep

MonitorCancels ==
  /\ monitor = "cancel" /\ monitor' = "done" /\ stopped' = TRUE
  /\ UNCHANGED <<stage, check, work, finished, verdict, yielded>> /\ LocalStep

-----------------------------------------------------------------------------
(* launchGuardedOpen, and launchGuardedDirect without a receipt.             *)

LaunchOnly == UNCHANGED <<asked, mode, ended, hostBusy, local>>

\* A receipt in the caller's place must not be there yet; one in a directory made
\* for it cannot be.
ReceiptUsable == receipt = "absent"

StartChild ==
  /\ stage = "launch"
  /\ \/ command = "open" /\ ~ReceiptUsable /\ ReturnWith("error") /\ UNCHANGED launch
     \/ /\ command = "open" => ReceiptUsable
        /\ launched' = "running" /\ stage' = "running" /\ UNCHANGED <<receipt, shown, reported>>
        /\ watcher' \in IF command = "open" THEN {"poll", "done"} ELSE {"done"}
     \/ ReturnWith("error") /\ UNCHANGED launch
  /\ LaunchOnly

ChildWrites ==
  /\ launched = "running" /\ command = "open" /\ receipt' = "ours"
  /\ UNCHANGED <<stage, launched, shown, watcher, reported>> /\ LaunchOnly

ChildEnds ==
  /\ launched = "running" /\ stage = "running"
  /\ launched' \in {"ok", "failed"} \cup (IF ended THEN {"cancelled"} ELSE {})
  /\ stage' = "unwatch"
  /\ UNCHANGED <<receipt, shown, watcher, reported>> /\ LaunchOnly

\* stopWatching, then the watcher's end is waited for.
StopWatching == stage = "unwatch" /\ stage' = "join" /\ UNCHANGED <<launch, reported>> /\ LaunchOnly

Joined ==
  /\ stage = "join" /\ watcher = "done"
  /\ ReturnWith(IF launched = "ok" \/ (launched = "cancelled" /\ ended) THEN "nil" ELSE "error")
  /\ UNCHANGED launch /\ LaunchOnly

\* waitForOpenReadyAndLaunch: a receipt is looked for before the context is; one that
\* cannot be read, or is none, ends the watch.
WatcherReads ==
  /\ watcher = "poll"
  /\ \/ receipt = "absent" /\ watcher' = "wait" /\ UNCHANGED shown
     \/ receipt # "absent" /\ watcher' = "done" /\ shown' = TRUE
     \/ watcher' = "done" /\ UNCHANGED shown
  /\ UNCHANGED <<stage, launched, receipt, reported>> /\ LaunchOnly

WatcherWaits ==
  /\ watcher = "wait"
  /\ watcher' \in {"poll"} \cup (IF stage = "join" \/ ended THEN {"done"} ELSE {})
  /\ UNCHANGED <<stage, launched, receipt, shown, reported>> /\ LaunchOnly

-----------------------------------------------------------------------------
CallerEnds ==
  /\ stage # "returned" /\ ~ended /\ ended' = TRUE
  /\ stopped' = (stopped \/ monitor # "none")
  /\ UNCHANGED <<asked, stage, mode, hostBusy, check, work, finished, monitor, verdict, yielded, launch, reported>>

HostChanges ==
  /\ stage # "returned" /\ hostBusy' = ~hostBusy
  /\ UNCHANGED <<asked, stage, mode, ended, local, launch, reported>>

DirectNext ==
  \/ AskScan \/ AskOpen \/ BareReturns
  \/ CheckFirst \/ WorkReturns \/ CloseFinished \/ CancelWork \/ ReceiveResult
  \/ MonitorLeaves \/ MonitorTicks \/ TickerCloses \/ MonitorChecks \/ Report \/ SendFailure \/ MonitorCancels
  \/ StartChild \/ ChildWrites \/ ChildEnds \/ StopWatching \/ Joined \/ WatcherReads \/ WatcherWaits
  \/ CallerEnds \/ HostChanges

DirectSpec == DirectInit /\ [][DirectNext]_directVars

-----------------------------------------------------------------------------
\* On a shared host nothing runs unguarded but what the command's own parser ends
\* with its usage or an error, and no scan with the Python adapter runs at all;
\* the two grammars never read a line differently to their advantage.
GrammarAgrees ==
  /\ mode = "bare" /\ linux => parses = "stops"
  /\ mode \in {"protected", "child"} => parses # "python"

\* Work that the monitor decided to stop is never reported as done, and nobody
\* is left who would stop or start something after the command has returned.
YieldReported ==
  stage = "returned" =>
    /\ reported = "nil" => ~yielded
    /\ monitor \in {"none", "cancel", "done"} /\ watcher \in {"none", "done"}

\* A browser is shown only what this command's own child has announced.
OwnReceipt == shown => receipt = "ours"

DirectSound == GrammarAgrees /\ YieldReported /\ OwnReceipt

\* Inductive: where the caller stands says how the command runs, the monitor's
\* place whether it has decided and answered, and who waits for a receipt found
\* none that was there before.
DirectInv ==
  /\ DirectTypeOK /\ DirectSound
  /\ stage = "ask" => mode = "none" /\ args \in ArgLists
  /\ stage \in {"check", "close", "stop", "receive"} => mode = "protected"
  /\ stage \in {"launch", "running", "unwatch", "join"} => mode = "child"
  /\ stage = "working" => mode \in {"bare", "protected"}
  /\ stage = "check" \/ mode # "protected" => monitor = "none"
  /\ monitor \in {"none", "select", "check", "report"} => verdict = "empty" /\ ~yielded
  /\ monitor = "send" => verdict = "empty"
  /\ monitor = "cancel" => verdict = "yield"
  /\ monitor = "done" => verdict # "empty" /\ (yielded => verdict = "yield")
  /\ stage \in {"working", "close", "stop", "receive"} /\ mode = "protected" => monitor # "none"
  /\ mode # "child" \/ stage = "launch" => watcher = "none"
  /\ watcher \in {"poll", "wait"} => receipt # "stale"
=============================================================================
