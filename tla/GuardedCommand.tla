--------------------------- MODULE GuardedCommand ---------------------------
(***************************************************************************)
(* One guarded subprocess: Run starts a launcher (systemd-run), whose      *)
(* request makes the user manager register a transient unit.  The launcher *)
(* may exit or be killed while the request is still on its way, so the     *)
(* unit can appear after everything looked inactive.  Queries of its state *)
(* and signals to it may fail, and it may ignore signals.                  *)
(***************************************************************************)
EXTENDS Naturals

CONSTANTS
  Samples,     \* settled observations that prove quiescence: 3 in waitUnitQuiescent
  Attempts,    \* settling windows tried before intervening: 3
  Kills,       \* SIGKILLs tried after the launcher's exit: 2
  Lag,         \* an undelivered request is registered within this many observations
  MaxFailures  \* bound on failed queries and signals

ASSUME CountAssumption == Samples \in Nat \ {0} /\ Attempts \in Nat \ {0} /\ Kills \in Nat \ {0}
ASSUME TimingAssumption == Lag \in Nat /\ Lag < Samples
ASSUME FailureAssumption == MaxFailures \in Nat

VARIABLES
  ctx,       \* whether the caller's context has ended
  busy,      \* whether a higher-priority workload is visible
  launcher,  \* the launcher process; "done" once Wait has returned
  exitOK,    \* what Wait returned
  unit,      \* the transient unit, as the manager knows it
  lag,       \* observations left before a sent request is registered
  position,        \* where Run stands
  why,       \* why it stops the command
  samples, tries, seen, unknown, \* cleanupUnitAfterLauncherExit
  reaped,    \* stop has received from done
  result,    \* what Run returned: errors by their kind
  failures

world == <<ctx, busy>>
child == <<launcher, exitOK, unit, lag>>
cleanup == <<samples, tries, seen, unknown>>
guardVars == <<world, child, position, why, cleanup, reaped, result, failures>>

Kinds == {"ctx", "busy", "start", "rss", "command", "active", "cleanup", "launcher"}

GuardTypeOK ==
  /\ ctx \in {"live", "ended"} /\ busy \in BOOLEAN
  /\ launcher \in {"none", "running", "exited", "done"} /\ exitOK \in BOOLEAN
  /\ unit \in {"none", "requested", "active", "gone"} /\ lag \in 0..Lag
  /\ position \in {"check", "admit", "spawn", "watch", "term", "before", "kill", "killed", "reap", "force", "forced",
             "settle", "ended", "last", "lastWait", "lastSettle", "returned"}
  /\ why \in {"none", "ctx", "busy", "rss", "done"}
  /\ samples \in 0..Samples /\ tries \in 0..(IF Attempts > Kills THEN Attempts ELSE Kills) /\ seen \in BOOLEAN /\ unknown \in BOOLEAN
  /\ reaped \in BOOLEAN /\ result \subseteq Kinds /\ failures \in 0..MaxFailures

GuardInit ==
  /\ ctx = "live" /\ busy = FALSE
  /\ launcher = "none" /\ exitOK = FALSE /\ unit = "none" /\ lag = Lag
  /\ position = "check" /\ why = "none"
  /\ samples = 0 /\ tries = 0 /\ seen = FALSE /\ unknown = FALSE
  /\ reaped = FALSE /\ result = {} /\ failures = 0

-----------------------------------------------------------------------------
(* The world *)

ContextEnds ==
  /\ ctx = "live" /\ position # "returned"
  /\ ctx' = "ended"
  /\ UNCHANGED <<busy, child, position, why, cleanup, reaped, result, failures>>

PriorityChanges ==
  /\ position # "returned"
  /\ busy' = ~busy
  /\ UNCHANGED <<ctx, child, position, why, cleanup, reaped, result, failures>>

\* systemd-run sends its request to the manager
Request ==
  /\ launcher = "running" /\ unit = "none"
  /\ unit' = "requested"
  /\ UNCHANGED <<world, launcher, exitOK, lag, position, why, cleanup, reaped, result, failures>>

Register ==
  /\ unit = "requested"
  /\ unit' = "active"
  /\ UNCHANGED <<world, launcher, exitOK, lag, position, why, cleanup, reaped, result, failures>>

\* the service ends by itself, or the manager stops it
UnitEnds ==
  /\ unit = "active"
  /\ unit' = "gone"
  /\ UNCHANGED <<world, launcher, exitOK, lag, position, why, cleanup, reaped, result, failures>>

\* with --wait it reports the service's end; it can also die before that
LauncherExits ==
  /\ launcher = "running"
  /\ launcher' = "exited"
  /\ exitOK' \in IF unit = "gone" THEN BOOLEAN ELSE {FALSE}
  /\ UNCHANGED <<world, unit, lag, position, why, cleanup, reaped, result, failures>>

\* the goroutine that waits for the launcher sends what it returned
Waited ==
  /\ launcher = "exited"
  /\ launcher' = "done"
  /\ UNCHANGED <<world, exitOK, unit, lag, position, why, cleanup, reaped, result, failures>>

-----------------------------------------------------------------------------
(* Run *)

Return(errors) ==
  /\ position' = "returned"
  /\ result' = errors

Decline(reason) ==
  /\ Return({reason})
  /\ UNCHANGED <<world, child, why, cleanup, reaped, failures>>

Step(from, to) ==
  /\ position = from /\ position' = to
  /\ UNCHANGED <<world, child, why, cleanup, reaped, result, failures>>

CheckPriority ==
  \/ position = "check" /\ ctx = "ended" /\ Decline("ctx")
  \/ position = "check" /\ ctx = "live" /\ busy /\ Decline("busy")
  \/ ctx = "live" /\ ~busy /\ Step("check", "admit")

\* the priority check took time: the context is looked at again, around the admission check
CheckAdmission ==
  \/ position = "admit" /\ ctx = "ended" /\ Decline("ctx")
  \/ position = "admit" /\ ctx = "live" /\ Decline("busy")
  \/ ctx = "live" /\ Step("admit", "spawn")

Spawn ==
  /\ position = "spawn"
  /\ \/ ctx = "ended" /\ Decline("ctx")
     \/ ctx = "live" /\ Decline("start")
     \/ /\ ctx = "live"
        /\ launcher' = "running" /\ position' = "watch"
        /\ UNCHANGED <<world, exitOK, unit, lag, why, cleanup, reaped, result, failures>>

Settle ==
  /\ samples' = 0 /\ tries' = 0 /\ seen' = FALSE /\ unknown' = FALSE

\* case err := <-done
LauncherDone ==
  /\ position = "watch" /\ launcher = "done"
  /\ position' = "settle" /\ why' = "done" /\ reaped' = TRUE
  /\ Settle
  /\ UNCHANGED <<world, child, result, failures>>

\* the ticker sees too much memory or higher-priority work, or the context ends
Stop ==
  /\ position = "watch"
  /\ why' \in {"rss"} \cup (IF busy THEN {"busy"} ELSE {}) \cup (IF ctx = "ended" THEN {"ctx"} ELSE {})
  /\ position' = "term"
  /\ UNCHANGED <<world, child, cleanup, reaped, result, failures>>

-----------------------------------------------------------------------------
(* Signals and queries *)

\* a signal that arrives may be ignored until SIGKILL; one that fails does nothing
SignalUnit(kill) ==
  \/ unit = "active" /\ unit' = "gone" /\ UNCHANGED failures
  \/ (kill => unit # "active") /\ UNCHANGED <<unit, failures>>
  \/ failures < MaxFailures /\ failures' = failures + 1 /\ UNCHANGED unit

Terminate ==
  /\ position = "term"
  /\ SignalUnit(FALSE)
  /\ launcher' \in {launcher, IF launcher = "running" THEN "exited" ELSE launcher}
  /\ position' = "before"
  /\ UNCHANGED <<world, exitOK, lag, why, cleanup, reaped, result>>

\* one query: time passes, so a sent request gets closer to its registration
Observed(state) ==
  /\ state = IF unit = "active" \/ (unit = "requested" /\ lag = 0) THEN "active" ELSE "inactive"
  /\ unit' = IF unit = "requested" /\ lag = 0 THEN "active" ELSE unit
  /\ lag' = IF unit = "requested" /\ lag > 0 THEN lag - 1 ELSE lag
  /\ UNCHANGED failures

Unobserved ==
  /\ failures < MaxFailures /\ failures' = failures + 1
  /\ UNCHANGED <<unit, lag>>

\* done is received if it is ready within 250 ms
TryReap == reaped' \in {reaped, reaped \/ launcher = "done"}

\* waitUnitInactive before the launcher is reaped: its answer is no proof
WaitBefore ==
  /\ position = "before"
  /\ TryReap
  /\ \/ Observed("inactive") /\ position' = "reap"
     \/ (Observed("active") \/ Unobserved) /\ position' = "kill"
  /\ UNCHANGED <<world, launcher, exitOK, why, cleanup, result>>

KillUnit ==
  /\ position = "kill"
  /\ SignalUnit(TRUE)
  /\ position' = "reap"
  /\ UNCHANGED <<world, launcher, exitOK, lag, why, cleanup, reaped, result>>

\* defect: Run waits for the launcher without killing it
ReapPatiently ==
  /\ position = "reap"
  /\ (reaped \/ launcher = "done")
  /\ position' = "settle" /\ reaped' = TRUE
  /\ Settle
  /\ UNCHANGED <<world, child, why, result, failures>>

\* stop gives the launcher a chance to be reaped before it kills it
Reap ==
  /\ position = "reap"
  /\ \/ (reaped \/ launcher = "done") /\ position' = "settle" /\ reaped' = TRUE
     \/ ~reaped /\ position' = "force" /\ UNCHANGED reaped
  /\ Settle
  /\ UNCHANGED <<world, child, why, result, failures>>

KillLauncher ==
  /\ position = "force"
  /\ launcher' \in {launcher, IF launcher = "running" THEN "exited" ELSE launcher}
  /\ position' = "forced"
  /\ UNCHANGED <<world, exitOK, unit, lag, why, cleanup, reaped, result, failures>>

\* two seconds to reap it; a launcher that is not reaped is an error of its own
Forced ==
  /\ position = "forced"
  /\ \/ launcher = "done" /\ reaped' = TRUE /\ UNCHANGED result
     \/ result' = result \cup {"launcher"} /\ UNCHANGED reaped
  /\ position' = "settle"
  /\ UNCHANGED <<world, child, why, cleanup, failures>>

-----------------------------------------------------------------------------
(* cleanupUnitAfterLauncherExit *)

\* defect: one inactive answer is taken for a proof
QueryOnce(Proven, Active, Unknown) ==
  \/ Observed("inactive") /\ Proven
  \/ Observed("active") /\ Active
  \/ Unobserved /\ Unknown

\* waitUnitQuiescent, one query at a time: what follows a proof is Proven
Query(Proven, Active, Unknown) ==
  \/ /\ Observed("inactive")
     /\ IF samples + 1 >= Samples THEN Proven ELSE position' = position /\ samples' = samples + 1 /\ UNCHANGED <<tries, seen, unknown, result>>
  \/ Observed("active") /\ Active
  \/ Unobserved /\ Unknown

\* the errors of Run, by why it ended, once the cleanup is over
Errors(clean) ==
  result \cup (IF clean THEN {} ELSE {"cleanup"}) \cup
  IF why # "done" THEN {why}
  ELSE IF clean /\ ctx = "ended" THEN {"ctx"}
  ELSE (IF exitOK THEN {} ELSE {"command"}) \cup (IF clean /\ seen THEN {"active"} ELSE {})
         \cup (IF ctx = "ended" THEN {"ctx"} ELSE {})

Quiet(clean) == Return(Errors(clean)) /\ UNCHANGED <<samples, tries, seen, unknown>>

Intervene(active) ==
  /\ position' = "ended" /\ samples' = 0 /\ tries' = 0
  /\ seen' = active /\ unknown' = ~active
  /\ UNCHANGED result

Window ==
  /\ position = "settle"
  /\ Query(Quiet(TRUE), Intervene(TRUE),
            IF tries + 1 >= Attempts THEN Intervene(FALSE)
            ELSE position' = position /\ samples' = 0 /\ tries' = tries + 1 /\ UNCHANGED <<seen, unknown, result>>)
  /\ UNCHANGED <<world, launcher, exitOK, why, reaped>>

TerminateUnit ==
  /\ position = "ended"
  /\ SignalUnit(FALSE)
  /\ position' = "lastWait"
  /\ UNCHANGED <<world, launcher, exitOK, lag, why, cleanup, reaped, result>>

\* waitUnitInactive: bounded, so an active unit may not be gone in time
WaitInactive ==
  /\ position = "lastWait"
  /\ \/ Observed("inactive") /\ position' = "lastSettle" /\ samples' = 0
     \/ (Observed("active") \/ Unobserved) /\ position' = "last" /\ UNCHANGED samples
  /\ UNCHANGED <<world, launcher, exitOK, why, tries, seen, unknown, reaped, result>>

Again == position' = "last" /\ UNCHANGED <<samples, tries, seen, unknown, result>>

SettleAgain ==
  /\ position = "lastSettle"
  /\ Query(Quiet(~unknown), Again, Again)
  /\ UNCHANGED <<world, launcher, exitOK, why, reaped>>

KillAgain ==
  /\ position = "last"
  /\ \/ /\ tries < Kills
        /\ SignalUnit(TRUE)
        /\ tries' = tries + 1 /\ position' = "lastWait"
        /\ UNCHANGED <<samples, seen, unknown, result>>
     \/ tries = Kills /\ Quiet(FALSE) /\ UNCHANGED <<unit, failures>>
  /\ UNCHANGED <<world, launcher, exitOK, lag, why, reaped>>

-----------------------------------------------------------------------------
Run ==
  \/ CheckPriority \/ CheckAdmission \/ Spawn \/ LauncherDone
  \/ Terminate \/ WaitBefore \/ KillUnit \/ Reap \/ KillLauncher \/ Forced
  \/ Window \/ TerminateUnit \/ WaitInactive \/ SettleAgain \/ KillAgain

GuardNext ==
  \/ Run \/ Stop
  \/ ContextEnds \/ PriorityChanges \/ Request \/ Register \/ UnitEnds \/ LauncherExits \/ Waited

GuardSpec == GuardInit /\ [][GuardNext]_guardVars

\* Run goes on by itself, a reaped launcher is reported, and the poll and the
\* select see a context that has ended.
GuardFairSpec == GuardSpec /\ WF_guardVars(Run) /\ WF_guardVars(Waited) /\ WF_guardVars(ctx = "ended" /\ Stop)

-----------------------------------------------------------------------------
(* Properties *)

\* Run returns without a cleanup error only when its unit is inactive for good: no unit is
\* active, and no request is on its way that could still start one.
ProvenInactive ==
  position = "returned" /\ result \cap {"cleanup", "launcher"} = {} =>
    unit \notin {"requested", "active"}

\* A success means that the command itself ended, was not stopped and left nothing behind:
\* the launcher waited for its unit.
SuccessIsComplete ==
  position = "returned" /\ result = {} => launcher = "done" /\ exitOK /\ unit = "gone"

\* A run that was stopped says why, whatever else fails meanwhile.
StopIsReported ==
  position = "returned" /\ why \in {"ctx", "busy", "rss"} => why \in result

\* What a guarded command returns it has proved (guard.go:286-300, 434-474).
GuardSound == GuardTypeOK /\ ProvenInactive /\ SuccessIsComplete /\ StopIsReported

\* Once the context has ended Run returns, however the unit and the launcher behave.
CancelReturns == ctx = "ended" ~> position = "returned"
=============================================================================
