------------------------------ MODULE Workbench ------------------------------
(***************************************************************************)
(* The local workbench: a bounded table of jobs, one execution slot, and   *)
(* the dataset that the read APIs serve.  A job runs a command in a        *)
(* process group, compiles a folder in the server (Portable), or fetches   *)
(* and compiles a GitHub source under the connection it was posted with.   *)
(* Deadlines, cancellations, changes of the connection and Close race with *)
(* the end of the work; processes may leave descendants or survive.        *)
(***************************************************************************)
EXTENDS Naturals, FiniteSets, SequencesExt

CONSTANTS
  Jobs,     \* job IDs, each random and used at most once
  Kinds,    \* what is posted: "command", "quickstart", "github"
  Requests, \* POST or DELETE of the GitHub session
  Callers,  \* clients that cancel jobs
  MaxJobs,  \* the size of the job table
  Portable, \* CompileFolder is set: folders are compiled in the server
  None      \* no job or connection

ASSUME NoneAssumption ==
  None \notin Jobs \cup Requests \cup {"public", "command", "quickstart", "github"} /\ "public" \notin Requests
ASSUME TableAssumption == MaxJobs \in Nat \ {0} /\ Portable \in BOOLEAN
ASSUME FinitelyMany == IsFiniteSet(Jobs) /\ IsFiniteSet(Callers) /\ IsFiniteSet(Requests)
ASSUME KindsAssumption == Kinds \subseteq {"command", "quickstart", "github"}

VARIABLES
  kind, using,    \* a job's kind, and its sourceConnection
  st,             \* a job's Status
  table,          \* the jobs map, oldest CreatedAt first
  ctx,            \* a job's context
  retain,         \* how many cancellations hold a job in the table
  at, verdict,    \* where its runJob stands, and how that will finish it
  slot,           \* who holds the execution slot
  proc, result,   \* a command's process group, and what its leader returned
  dir,            \* a GitHub job's private source directory
  atlas,          \* the job that last wrote the folder's atlas
  loaded,         \* the atlas a job has loaded
  active,         \* activeDataset: the atlas, and the job that activated it
  activated,      \* the jobs with an ActivatedDataset
  generation, number, \* githubGeneration, and the one each request was given
  conn, dead,     \* githubConnection, and the connections cancelled
  connectCancel, expired, \* the request cancellable next, those whose context ended
  asking,         \* where each request stands
  cancel, target, answer, \* where each caller stands, its job, what it was told
  closed, closing, toCancel, pending, closeFails \* Close

records == <<kind, using, st, table, retain>>
running == <<at, verdict, slot, proc, result, dir, atlas, loaded>>
serving == <<active, activated>>
connecting == <<generation, number, conn, dead, connectCancel, expired, asking>>
calls == <<cancel, target, answer>>
shutdown == <<closed, closing, toCancel, pending, closeFails>>
vars == <<records, ctx, running, serving, connecting, calls, shutdown>>

Finished == {"succeeded", "failed", "timed_out", "canceled", "cleanup_failed"}

Terminal(j) == st[j] \in Finished

Conns == Requests \cup {"public", None}

Places == {"new", "posted", "refused", "queue", "admit", "run", "wait", "terminate", "verify",
           "fetch", "compile", "load", "activate", "clean", "release", "finish", "over"}

RecordsTyped ==
  /\ kind \in [Jobs -> Kinds \cup {None}] /\ using \in [Jobs -> Conns]
  /\ st \in [Jobs -> {"none", "queued", "running"} \cup Finished]
  /\ retain \in [Jobs -> Nat]

TableTyped ==
  /\ table \in Seq(Jobs) /\ IsInjective(table) /\ Len(table) <= MaxJobs
  /\ \A j \in ToSet(table) : st[j] # "none"

RunningTyped ==
  /\ ctx \in [Jobs -> {"live", "canceled", "timed_out"}]
  /\ at \in [Jobs -> Places]
  /\ verdict \in [Jobs -> {"none", "context", "unproven", "unless ended", "failed", "cleanup_failed", "succeeded"}]
  /\ slot \in Jobs \cup {None}
  /\ proc \in [Jobs -> {"none", "alive", "wrote", "left", "exited", "gone", "escaped"}]
  /\ result \in [Jobs -> {"none", "ok", "error"}]
  /\ dir \in [Jobs -> {"none", "empty", "present", "removed"}]
  /\ atlas \in Jobs \cup {None} /\ loaded \in [Jobs -> Jobs \cup {None}]

ServingTyped ==
  active \in [by : Jobs \cup {None}, atlas : Jobs \cup {None}] /\ activated \subseteq Jobs

ConnectingTyped ==
  /\ generation \in 0..Cardinality(Requests) /\ number \in [Requests \cup {"public"} -> 0..generation]
  /\ conn \in Conns /\ dead \subseteq Conns
  /\ connectCancel \in Requests \cup {None} /\ expired \subseteq Requests
  /\ asking \in [Requests -> {"new", "user", "install", "installed", "denied", "done", "refused"}]

CallsTyped ==
  /\ cancel \in [Callers -> {"idle", "fire", "await"}] /\ target \in [Callers -> Jobs \cup {None}]
  /\ answer \in [Callers -> {"none", "done", "unproven", "missing"}]

ShutdownTyped ==
  /\ closed \in BOOLEAN /\ closing \in {"open", "cancel", "wait", "ok", "unproven"}
  /\ toCancel \subseteq Jobs /\ pending \subseteq Jobs /\ closeFails \in BOOLEAN

TypeOK ==
  /\ RecordsTyped /\ TableTyped /\ RunningTyped /\ ServingTyped /\ ConnectingTyped /\ CallsTyped /\ ShutdownTyped

Init ==
  /\ kind = [j \in Jobs |-> None] /\ using = [j \in Jobs |-> None]
  /\ st = [j \in Jobs |-> "none"] /\ table = <<>>
  /\ ctx = [j \in Jobs |-> "live"] /\ retain = [j \in Jobs |-> 0]
  /\ at = [j \in Jobs |-> "new"] /\ verdict = [j \in Jobs |-> "none"]
  /\ slot = None
  /\ proc = [j \in Jobs |-> "none"] /\ result = [j \in Jobs |-> "none"]
  /\ dir = [j \in Jobs |-> "none"]
  /\ atlas = None /\ loaded = [j \in Jobs |-> None]
  /\ active = [by |-> None, atlas |-> None] /\ activated = {}
  /\ generation = 0 /\ number = [r \in Requests \cup {"public"} |-> 0]
  /\ conn = "public" /\ dead = {}
  /\ connectCancel = None /\ expired = {}
  /\ asking = [r \in Requests |-> "new"]
  /\ cancel = [c \in Callers |-> "idle"] /\ target = [c \in Callers |-> None]
  /\ answer = [c \in Callers |-> "none"]
  /\ closed = FALSE /\ closing = "open" /\ toCancel = {} /\ pending = {} /\ closeFails = FALSE

-----------------------------------------------------------------------------
(* Submission *)

\* a connection a source job may use: the current one, not cancelled
Usable(c) == c = conn /\ c \notin dead

Post(j) ==
  /\ at[j] = "new"
  /\ \E k \in Kinds :
       /\ kind' = [kind EXCEPT ![j] = k]
       /\ IF k = "github" THEN conn # None /\ using' = [using EXCEPT ![j] = conn]
                          ELSE UNCHANGED using
  /\ at' = [at EXCEPT ![j] = "posted"]
  /\ UNCHANGED <<st, table, retain, ctx, verdict, slot, proc, result, dir, atlas, loaded,
                 serving, connecting, calls, shutdown>>

\* defect: what a cancellation waits for is evicted
EvictableHeld(j) == Terminal(j)

Evictable(j) == Terminal(j) /\ retain[j] = 0

\* the table without its oldest evictable job, if it is full and has one
Evicted ==
  IF Len(table) >= MaxJobs /\ \E i \in DOMAIN table : Evictable(table[i])
  THEN RemoveAt(table, SelectInSeq(table, Evictable))
  ELSE table

Admissible(j) == ~closed /\ (kind[j] = "github" => Usable(using[j]))

Create(j) ==
  /\ at[j] = "posted" /\ Admissible(j) /\ Len(Evicted) < MaxJobs
  /\ table' = Append(Evicted, j)
  /\ st' = [st EXCEPT ![j] = "queued"]
  /\ at' = [at EXCEPT ![j] = "queue"]
  /\ UNCHANGED <<kind, using, retain, ctx, verdict, slot, proc, result, dir, atlas, loaded,
                 serving, connecting, calls, shutdown>>

Refuse(j) ==
  /\ at[j] = "posted" /\ ~(Admissible(j) /\ Len(Evicted) < MaxJobs)
  /\ at' = [at EXCEPT ![j] = "refused"]
  /\ UNCHANGED <<records, ctx, verdict, slot, proc, result, dir, atlas, loaded,
                 serving, connecting, calls, shutdown>>

-----------------------------------------------------------------------------
(* Contexts: the first reason to end one is the reason it keeps *)

Ended(j) == ctx[j] # "live"

CtxCanceled(S) == [j \in Jobs |-> IF j \in S /\ ~Ended(j) THEN "canceled" ELSE ctx[j]]

Deadline(j) ==
  /\ st[j] \in {"queued", "running"} /\ ~Ended(j)
  /\ ctx' = [ctx EXCEPT ![j] = "timed_out"]
  /\ UNCHANGED <<records, running, serving, connecting, calls, shutdown>>

\* context.AfterFunc(connection.context, cancel), on a goroutine of its own
SourceCanceled(j) ==
  /\ st[j] \in {"queued", "running"} /\ kind[j] = "github" /\ using[j] \in dead /\ ~Ended(j)
  /\ ctx' = CtxCanceled({j})
  /\ UNCHANGED <<records, running, serving, connecting, calls, shutdown>>

-----------------------------------------------------------------------------
(* runJob *)

Goto(j, where) == at' = [at EXCEPT ![j] = where]

\* the end of the work: the slot is released next, then the job finished
Leave(j, how) ==
  /\ at' = [at EXCEPT ![j] = "release"]
  /\ verdict' = [verdict EXCEPT ![j] = how]

TakeSlot(j) ==
  /\ at[j] = "queue" /\ slot = None
  /\ slot' = j
  /\ Goto(j, "admit")
  /\ UNCHANGED <<records, ctx, verdict, proc, result, dir, atlas, loaded, serving, connecting, calls, shutdown>>

GiveUp(j) ==
  /\ at[j] = "queue" /\ Ended(j)
  /\ at' = [at EXCEPT ![j] = "finish"]
  /\ verdict' = [verdict EXCEPT ![j] = "context"]
  /\ UNCHANGED <<records, ctx, slot, proc, result, dir, atlas, loaded, serving, connecting, calls, shutdown>>

\* defect: the cancellation of the connection is trusted to have arrived
RunnableUnlessEnded(j) == ~Ended(j)

Runnable(j) == ~Ended(j) /\ (kind[j] = "github" => Usable(using[j]))

Admit(j) ==
  /\ at[j] = "admit"
  /\ \/ /\ Runnable(j)
        /\ st' = [st EXCEPT ![j] = "running"]
        /\ Goto(j, "run")
        /\ UNCHANGED <<ctx, verdict>>
     \/ /\ ~Runnable(j)
        /\ ctx' = CtxCanceled({j})
        /\ Leave(j, "context")
        /\ UNCHANGED st
  /\ UNCHANGED <<kind, using, table, retain, slot, proc, result, dir, atlas, loaded,
                 serving, connecting, calls, shutdown>>

Command(j) == kind[j] = "command" \/ (kind[j] = "quickstart" /\ ~Portable)

Start(j) ==
  /\ at[j] = "run" /\ Command(j)
  /\ \/ Ended(j) /\ Leave(j, "context") /\ UNCHANGED proc
     \/ ~Ended(j) /\ Leave(j, "unless ended") /\ UNCHANGED proc
     \/ ~Ended(j) /\ Goto(j, "wait") /\ proc' = [proc EXCEPT ![j] = "alive"] /\ UNCHANGED verdict
  /\ UNCHANGED <<records, ctx, slot, result, dir, atlas, loaded, serving, connecting, calls, shutdown>>

\* what is left of a command's process group can still write to the folder
Alive(j) == proc[j] \in {"alive", "wrote", "left", "escaped"}

Write(j) ==
  /\ Alive(j)
  /\ atlas' = j
  /\ proc' = [proc EXCEPT ![j] = IF @ = "alive" THEN "wrote" ELSE @]
  /\ UNCHANGED <<records, ctx, at, verdict, slot, result, dir, loaded, serving, connecting, calls, shutdown>>

\* a quickstart succeeds only once it has published its atlas
Exit(j) ==
  /\ proc[j] \in {"alive", "wrote"}
  /\ \E r \in {"ok", "error"} :
       /\ r = "ok" /\ kind[j] = "quickstart" => proc[j] = "wrote"
       /\ result' = [result EXCEPT ![j] = r]
  /\ \E left \in {"exited", "left"} : proc' = [proc EXCEPT ![j] = left]
  /\ UNCHANGED <<records, ctx, at, verdict, slot, dir, atlas, loaded, serving, connecting, calls, shutdown>>

Completed(j) ==
  /\ at[j] = "wait" /\ result[j] # "none"
  /\ Goto(j, "verify")
  /\ UNCHANGED <<records, ctx, verdict, slot, proc, result, dir, atlas, loaded, serving, connecting, calls, shutdown>>

Interrupted(j) ==
  /\ at[j] = "wait" /\ Ended(j)
  /\ Goto(j, "terminate")
  /\ UNCHANGED <<records, ctx, verdict, slot, proc, result, dir, atlas, loaded, serving, connecting, calls, shutdown>>

\* the group is gone and the leader reaped in time, or that cannot be proven
Terminate(j) ==
  /\ at[j] = "terminate"
  /\ \/ proc' = [proc EXCEPT ![j] = "gone"] /\ Leave(j, "context")
     \/ /\ \E left \in {"gone", "escaped"} : proc' = [proc EXCEPT ![j] = IF Alive(j) THEN left ELSE @]
        /\ Leave(j, "unproven")
  /\ UNCHANGED <<records, ctx, slot, result, dir, atlas, loaded, serving, connecting, calls, shutdown>>

\* defect: the slot is given back as soon as the command has ended
VerifyAndRelease(j) ==
  /\ at[j] = "verify" /\ result[j] = "ok" /\ proc[j] # "left" /\ ~Ended(j)
  /\ Goto(j, "load")
  /\ slot' = None
  /\ UNCHANGED <<records, ctx, verdict, proc, result, dir, atlas, loaded, serving, connecting, calls, shutdown>>

Verify(j) ==
  /\ at[j] = "verify"
  /\ \/ /\ proc[j] = "left"
        /\ \/ proc' = [proc EXCEPT ![j] = "gone"] /\ Leave(j, "failed")
           \/ proc' = [proc EXCEPT ![j] = "escaped"] /\ Leave(j, "cleanup_failed")
     \/ /\ proc[j] # "left"
        /\ \/ result[j] = "error" /\ Leave(j, "failed")
           \/ result[j] = "ok" /\ Ended(j) /\ Leave(j, "context")
           \/ result[j] = "ok" /\ ~Ended(j) /\ Goto(j, "load") /\ UNCHANGED verdict
        /\ UNCHANGED proc
  /\ UNCHANGED <<records, ctx, slot, result, dir, atlas, loaded, serving, connecting, calls, shutdown>>

\* runFolderJob: the callback has returned, perhaps after it published an atlas
CompileFolder(j) ==
  /\ at[j] = "run" /\ kind[j] = "quickstart" /\ Portable
  /\ \E ok \in BOOLEAN, written \in BOOLEAN :
       /\ ok => written
       /\ atlas' = IF written THEN j ELSE atlas
       /\ \/ Ended(j) /\ Leave(j, "context")
          \/ ~Ended(j) /\ ~ok /\ Leave(j, "failed")
          \/ ~Ended(j) /\ ok /\ Goto(j, "load") /\ UNCHANGED verdict
  /\ UNCHANGED <<records, ctx, slot, proc, result, dir, loaded, serving, connecting, calls, shutdown>>

-----------------------------------------------------------------------------
(* runGitHubJob *)

MakeSource(j) ==
  /\ at[j] = "run" /\ kind[j] = "github"
  /\ \/ Leave(j, "failed") /\ \E d \in {"none", "empty"} : dir' = [dir EXCEPT ![j] = d]
     \/ Goto(j, "fetch") /\ dir' = [dir EXCEPT ![j] = "present"] /\ UNCHANGED verdict
  /\ UNCHANGED <<records, ctx, slot, proc, result, atlas, loaded, serving, connecting, calls, shutdown>>

Fetch(j) ==
  /\ at[j] = "fetch"
  /\ \E next \in {"compile", "clean"} : Goto(j, next)
  /\ UNCHANGED <<records, ctx, verdict, slot, proc, result, dir, atlas, loaded, serving, connecting, calls, shutdown>>

CompileGitHub(j) ==
  /\ at[j] = "compile"
  /\ \E next \in {"load", "clean"} : (next = "load" => ~Ended(j)) /\ Goto(j, next)
  /\ UNCHANGED <<records, ctx, verdict, slot, proc, result, dir, atlas, loaded, serving, connecting, calls, shutdown>>

\* a source that was not activated is removed before the slot is released
CleanSource(j) ==
  /\ at[j] = "clean"
  /\ \/ dir' = [dir EXCEPT ![j] = "removed"] /\ Leave(j, "unless ended")
     \/ Leave(j, "cleanup_failed") /\ UNCHANGED dir
  /\ UNCHANGED <<records, ctx, slot, proc, result, atlas, loaded, serving, connecting, calls, shutdown>>

-----------------------------------------------------------------------------
(* Activation and the end of a job *)

\* a job whose atlas was not activated fails; a GitHub job cleans up first
Unactivated(j) ==
  IF kind[j] = "github" THEN Goto(j, "clean") /\ UNCHANGED verdict ELSE Leave(j, "failed")

\* only an exact quickstart has an atlas to load; Load may reject it
LoadAtlas(j) ==
  /\ at[j] = "load"
  /\ \/ kind[j] = "command" /\ Leave(j, "succeeded") /\ UNCHANGED loaded
     \/ kind[j] # "command" /\ Unactivated(j) /\ UNCHANGED loaded
     \/ /\ kind[j] # "command"
        /\ loaded' = [loaded EXCEPT ![j] = IF kind[j] = "github" THEN j ELSE atlas]
        /\ Goto(j, "activate") /\ UNCHANGED verdict
  /\ UNCHANGED <<records, ctx, slot, proc, result, dir, atlas, serving, connecting, calls, shutdown>>

Activatable(j) == Runnable(j) /\ ~closed

Activate(j) ==
  /\ at[j] = "activate"
  /\ \/ /\ Activatable(j)
        /\ active' = [by |-> j, atlas |-> loaded[j]]
        /\ activated' = activated \cup {j}
        /\ Leave(j, "succeeded")
     \/ ~Activatable(j) /\ Unactivated(j) /\ UNCHANGED serving
  /\ UNCHANGED <<records, ctx, slot, proc, result, dir, atlas, loaded, connecting, calls, shutdown>>

ReleaseSlot(j) ==
  /\ at[j] = "release"
  /\ slot' = None
  /\ Goto(j, "finish")
  /\ UNCHANGED <<records, ctx, verdict, proc, result, dir, atlas, loaded, serving, connecting, calls, shutdown>>

FromContext(j) == IF ctx[j] = "timed_out" THEN "timed_out" ELSE "canceled"

Outcome(j) ==
  CASE verdict[j] = "context" -> FromContext(j)
    [] verdict[j] = "unproven" -> "cleanup_failed"
    [] verdict[j] = "unless ended" -> IF Ended(j) THEN FromContext(j) ELSE "failed"
    [] OTHER -> verdict[j]

Finish(j) ==
  /\ at[j] = "finish"
  /\ st' = [st EXCEPT ![j] = Outcome(j)]
  /\ ctx' = CtxCanceled({j})
  /\ Goto(j, "over")
  /\ UNCHANGED <<kind, using, table, retain, verdict, slot, proc, result, dir, atlas, loaded,
                 serving, connecting, calls, shutdown>>

-----------------------------------------------------------------------------
(* cancelJob *)

Told(j) == IF st[j] = "cleanup_failed" THEN "unproven" ELSE "done"

Answer(c, what) ==
  /\ cancel' = [cancel EXCEPT ![c] = "idle"]
  /\ answer' = [answer EXCEPT ![c] = what]

CancelJob(c, j) ==
  /\ cancel[c] = "idle" /\ st[j] # "none"
  /\ target' = [target EXCEPT ![c] = j]
  /\ \/ j \notin ToSet(table) /\ Answer(c, "missing") /\ UNCHANGED retain
     \/ j \in ToSet(table) /\ Terminal(j) /\ Answer(c, Told(j)) /\ UNCHANGED retain
     \/ /\ j \in ToSet(table) /\ ~Terminal(j)
        /\ retain' = [retain EXCEPT ![j] = @ + 1]
        /\ cancel' = [cancel EXCEPT ![c] = "fire"] /\ answer' = [answer EXCEPT ![c] = "none"]
  /\ UNCHANGED <<kind, using, st, table, ctx, running, serving, connecting, shutdown>>

Fire(c) ==
  /\ cancel[c] = "fire"
  /\ ctx' = CtxCanceled({target[c]})
  /\ cancel' = [cancel EXCEPT ![c] = "await"]
  /\ UNCHANGED <<records, running, serving, connecting, target, answer, shutdown>>

Await(c) ==
  /\ cancel[c] = "await" /\ Terminal(target[c])
  /\ \/ /\ target[c] \in ToSet(table)
        /\ retain' = [retain EXCEPT ![target[c]] = @ - 1]
        /\ Answer(c, Told(target[c]))
     \/ target[c] \notin ToSet(table) /\ Answer(c, "missing") /\ UNCHANGED retain
  /\ UNCHANGED <<kind, using, st, table, ctx, running, serving, connecting, target, shutdown>>

\* five seconds have passed
AwaitTooLong(c) ==
  /\ cancel[c] = "await"
  /\ retain' = [retain EXCEPT ![target[c]] = IF target[c] \in ToSet(table) /\ @ > 0 THEN @ - 1 ELSE @]
  /\ Answer(c, "unproven")
  /\ UNCHANGED <<kind, using, st, table, ctx, running, serving, connecting, target, shutdown>>

-----------------------------------------------------------------------------
(* handleGitHubSession *)

\* a newer request, or Close, cancels the one under way
Superseded == IF connectCancel = None THEN expired ELSE expired \cup {connectCancel}

Connect(r) ==
  /\ asking[r] = "new"
  /\ expired' = Superseded
  /\ generation' = generation + 1
  /\ number' = [number EXCEPT ![r] = generation + 1]
  /\ \/ ~closed /\ connectCancel' = r /\ asking' = [asking EXCEPT ![r] = "user"]
     \/ closed /\ UNCHANGED connectCancel /\ asking' = [asking EXCEPT ![r] = "denied"]
  /\ UNCHANGED <<conn, dead, records, ctx, running, serving, calls, shutdown>>

\* the client is gone or twenty seconds have passed
Expire(r) ==
  /\ asking[r] \in {"user", "install"}
  /\ expired' = expired \cup {r}
  /\ UNCHANGED <<generation, number, conn, dead, connectCancel, asking,
                 records, ctx, running, serving, calls, shutdown>>

\* client.User, whose success may be too late
LookUp(r) ==
  /\ asking[r] = "user"
  /\ \E found \in {"install", "denied"} : asking' = [asking EXCEPT ![r] = found]
  /\ UNCHANGED <<generation, number, conn, dead, connectCancel, expired,
                 records, ctx, running, serving, calls, shutdown>>

Current(r) == ~closed /\ number[r] = generation /\ r \notin expired

Install(r) ==
  /\ asking[r] = "install"
  /\ \/ /\ Current(r)
        /\ dead' = dead \cup {conn}
        /\ conn' = r
        /\ asking' = [asking EXCEPT ![r] = "installed"]
     \/ ~Current(r) /\ asking' = [asking EXCEPT ![r] = "denied"] /\ UNCHANGED <<conn, dead>>
  /\ UNCHANGED <<generation, number, connectCancel, expired, records, ctx, running, serving, calls, shutdown>>

\* The deferred reset takes the lock again: by now a newer request, or Close,
\* may have cancelled the context of this one.
ResetCancel(r) ==
  /\ \/ asking[r] = "installed" /\ asking' = [asking EXCEPT ![r] = "done"]
     \/ asking[r] = "denied" /\ asking' = [asking EXCEPT ![r] = "refused"]
  /\ connectCancel' = IF number[r] = generation THEN None ELSE connectCancel
  /\ UNCHANGED <<generation, number, conn, dead, expired, records, ctx, running, serving, calls, shutdown>>

-----------------------------------------------------------------------------
(* Close *)

Active == {j \in ToSet(table) : ~Terminal(j)}

Close ==
  /\ closing = "open"
  /\ closed' = TRUE
  /\ expired' = Superseded /\ connectCancel' = None
  /\ dead' = dead \cup {conn} /\ conn' = None
  /\ toCancel' = Active /\ pending' = Active
  /\ closeFails' = (\E j \in ToSet(table) : st[j] = "cleanup_failed")
  /\ closing' = "cancel"
  /\ UNCHANGED <<generation, number, asking, records, ctx, running, serving, calls>>

CloseCancel ==
  /\ closing = "cancel"
  /\ \/ \E j \in toCancel :
          ctx' = CtxCanceled({j}) /\ toCancel' = toCancel \ {j} /\ UNCHANGED closing
     \/ toCancel = {} /\ closing' = "wait" /\ UNCHANGED <<ctx, toCancel>>
  /\ UNCHANGED <<closed, pending, closeFails, records, running, serving, connecting, calls>>

CloseWait ==
  /\ closing = "wait"
  /\ \/ \E j \in pending :
          /\ Terminal(j)
          /\ pending' = pending \ {j}
          /\ closeFails' = (closeFails \/ j \notin ToSet(table) \/ st[j] = "cleanup_failed")
          /\ UNCHANGED closing
     \/ /\ pending = {}
        /\ closing' = IF closeFails THEN "unproven" ELSE "ok"
        /\ UNCHANGED <<pending, closeFails>>
  /\ UNCHANGED <<closed, toCancel, records, ctx, running, serving, connecting, calls>>

\* the caller's deadline, five seconds in serve.go
CloseTooLong ==
  /\ closing = "wait" /\ pending # {}
  /\ closing' = "unproven"
  /\ UNCHANGED <<closed, toCancel, pending, closeFails, records, ctx, running, serving, connecting, calls>>

-----------------------------------------------------------------------------
Work(j) ==
  \/ Create(j) \/ Refuse(j) \/ GiveUp(j) \/ TakeSlot(j) \/ Admit(j) \/ Start(j) \/ Completed(j) \/ Interrupted(j)
  \/ Terminate(j) \/ Verify(j) \/ CompileFolder(j) \/ MakeSource(j) \/ Fetch(j) \/ CompileGitHub(j)
  \/ CleanSource(j) \/ LoadAtlas(j) \/ Activate(j) \/ ReleaseSlot(j) \/ Finish(j)

Next ==
  \/ \E j \in Jobs : Post(j) \/ Work(j) \/ Deadline(j) \/ SourceCanceled(j) \/ Write(j) \/ Exit(j)
  \/ \E c \in Callers : Fire(c) \/ Await(c) \/ AwaitTooLong(c) \/ \E j \in Jobs : CancelJob(c, j)
  \/ \E r \in Requests : Connect(r) \/ Expire(r) \/ LookUp(r) \/ Install(r) \/ ResetCancel(r)
  \/ Close \/ CloseCancel \/ CloseWait \/ CloseTooLong

Spec == Init /\ [][Next]_vars

\* Goroutines run, timers fire, and a compiler callback returns: TakeSlot can be
\* missed for ever by one job of many, its context cannot.
Fairness ==
  \A j \in Jobs : WF_vars(Work(j)) /\ WF_vars(Deadline(j))

FairSpec == Spec /\ Fairness

-----------------------------------------------------------------------------
(* Properties.  The jobs and the callers are those of the state, for a state *)
(* may be that of an instance with fewer.                                    *)

\* A successful return of cancelJob means that the work is over: the slot is not
\* the job's, none of its processes is left, and the private source directory is
\* gone unless its atlas is served.
CancelReleases ==
  \A c \in DOMAIN cancel : answer[c] = "done" =>
    LET j == target[c] IN
      /\ Terminal(j) /\ slot # j /\ ~Alive(j)
      /\ dir[j] = "present" => j \in activated

\* A cancellation that has found its job finds it again, however full the table is:
\* neither a waiting caller's job nor one still being worked on is evicted.
HeldInTable ==
  /\ \A c \in DOMAIN cancel : cancel[c] # "idle" => target[c] \in ToSet(table)
  /\ \A j \in DOMAIN st : st[j] \in {"queued", "running"} => j \in ToSet(table)

\* Every waiting cancellation holds its job once and lets go of it however it ends: what
\* is held for nobody could never be evicted, and would fill the table for ever.
RetainBalanced ==
  \A j \in DOMAIN st : retain[j] = Cardinality({c \in DOMAIN cancel : cancel[c] # "idle" /\ target[c] = j})

\* The dataset the server switches to is the work of the job it is reported for: no
\* other job writes the folder's atlas between that job's end and its activation,
\* unless a process has outlived its proven cleanup.
OwnAtlas ==
  active.atlas # active.by => active.atlas \in DOMAIN st /\ proc[active.atlas] = "escaped"

\* A job that is reported as failed, canceled or timed out has not changed the dataset,
\* whatever ended while it was being activated; one that activated has succeeded.
OutcomeTruthful ==
  \A j \in DOMAIN st : Terminal(j) =>
    /\ j \in activated => st[j] = "succeeded"
    /\ st[j] = "succeeded" => j \in activated \/ kind[j] = "command"

\* The source of an activated dataset stays on disk.
ServedKept ==
  active.by # None /\ kind[active.by] = "github" => dir[active.by] = "present"

\* When Close returns without an error no job holds the slot or will run, and no process is
\* left that the table still accounts for.
ClosedIsQuiet ==
  closing = "ok" =>
    /\ slot = None /\ \A j \in DOMAIN st : at[j] \in {"new", "posted", "refused", "over"}
    /\ \A j \in ToSet(table) : ~Alive(j)

\* The job table keeps what is being waited for, and a cancellation that
\* returns has ended its job (jobs.go cancelJob, createJob).
TableSound == HeldInTable /\ RetainBalanced /\ CancelReleases

\* What a job reports is what it has done, what is served stays there, and Close
\* leaves nothing running (workbench.go runJob, activate, Close).
ReportsSound == OwnAtlas /\ OutcomeTruthful /\ ServedKept /\ ClosedIsQuiet

\* Connections are installed in the order their requests were admitted: an older
\* request whose login arrives late never replaces a newer one's connection, and
\* nothing is installed once Close has withdrawn it.
NewestConnectionStays ==
  conn' # conn => conn # None /\ (conn' # None => number[conn'] > number[conn])

\* No dataset of a withdrawn connection is activated after its withdrawal, although
\* the cancellation of its jobs runs on another goroutine and may come late.
WithdrawnStaysOut ==
  active' # active => using[active'.by] \notin dead /\ ~closed

\* A withdrawn connection brings nothing in, a late one replaces none.
ConnectionsSound == [][WithdrawnStaysOut /\ NewestConnectionStays]_vars

\* When Close returns without an error every job has released its resources
\* (the comment of Close).
CloseProves == closing = "ok" => \A j \in Jobs : ~Alive(j)

\* Every job ends, also one that waits for the slot behind another.
Waiting(j) == at[j] \in {"posted", "queue"}
Over(j) == at[j] \in {"refused", "over"}
JobsEnd == \A j \in Jobs : Waiting(j) ~> Over(j)

-----------------------------------------------------------------------------
(* Why they hold: one job at a time holds the slot, from its admission until *)
(* its processes are gone or given up.                                       *)

Holding(j) == at[j] \in {"admit", "run", "wait", "terminate", "verify", "fetch", "compile", "load",
                         "activate", "clean", "release"}

\* Where a job stands, what it is reported as, and whether it has the slot.
Placed(j) ==
  /\ st[j] = "none" <=> at[j] \in {"new", "posted", "refused"}
  /\ Terminal(j) <=> at[j] = "over"
  /\ slot = j <=> Holding(j)
  /\ kind[j] = None <=> at[j] = "new"

\* Its processes are gone or given up before it leaves.
Supervised(j) ==
  /\ proc[j] # "none" => at[j] \notin {"new", "posted", "refused", "queue", "admit", "run"}
  /\ proc[j] \in {"none", "alive", "wrote"} => result[j] = "none"
  /\ proc[j] \in {"alive", "wrote"} => at[j] \in {"wait", "terminate"}
  /\ proc[j] = "left" => at[j] \in {"wait", "terminate", "verify"}
  /\ proc[j] = "escaped" => verdict[j] \in {"unproven", "cleanup_failed"}
  /\ at[j] = "verify" => result[j] # "none"

\* It reports what it leaves with, and leaves with what it has done.
Reported(j) ==
  /\ verdict[j] # "none" <=> at[j] \in {"release", "finish", "over"}
  /\ at[j] = "over" =>
       /\ verdict[j] \in {"unproven", "cleanup_failed"} => st[j] = "cleanup_failed"
       /\ st[j] = "succeeded" <=> verdict[j] = "succeeded"
  /\ j \in activated => verdict[j] = "succeeded"
  /\ verdict[j] = "succeeded" => j \in activated \/ kind[j] = "command"

\* A GitHub job has its source until it has removed it or is served.
Sourced(j) ==
  LET busy == at[j] \in {"fetch", "compile", "load", "activate", "clean"}
  IN  /\ at[j] \in {"fetch", "compile", "clean"} => kind[j] = "github"
      /\ at[j] \in {"wait", "terminate", "verify"} => kind[j] # "github"
      /\ kind[j] = "github" /\ (busy \/ j \in activated) => dir[j] = "present"
      /\ dir[j] = "present" =>
           kind[j] = "github" /\ (busy \/ j \in activated \/ verdict[j] = "cleanup_failed")

JobInv == \A j \in Jobs : Placed(j) /\ Supervised(j) /\ Reported(j) /\ Sourced(j)

\* An atlas is the job's own, or of a process that has outlived its cleanup.
Own(a, j) == a = j \/ (a \in Jobs /\ proc[a] = "escaped")

Made(j) ==
  /\ proc[j] = "wrote" => Own(atlas, j)
  /\ kind[j] = "quickstart" /\ Holding(j) /\ (result[j] = "ok" \/ at[j] = "load") => Own(atlas, j)
  /\ at[j] = "activate" => Own(loaded[j], j)

AtlasInv ==
  /\ \A j \in Jobs : Made(j)
  /\ active.by \in activated \cup {None} /\ Own(active.atlas, active.by)

\* What was answered is so, and a job that is not over is in the table.
TableInv ==
  /\ HeldInTable /\ RetainBalanced
  /\ \A c \in Callers : cancel[c] # "idle" \/ answer[c] # "none" => target[c] \in Jobs
  /\ \A c \in Callers : answer[c] = "done" => at[target[c]] = "over" /\ st[target[c]] # "cleanup_failed"

\* Requests are numbered in the order of their admission; only the last may be installed.
ConnectionInv ==
  /\ number["public"] = 0
  /\ \A r \in Requests : asking[r] = "new" <=> number[r] = 0
  /\ generation = Cardinality({r \in Requests : asking[r] # "new"})
  /\ \A r, q \in Requests : number[r] = number[q] /\ number[r] # 0 => r = q
  /\ conn = None <=> closed
  /\ conn \in Requests => asking[conn] \in {"installed", "done"}
  /\ None \notin dead
  /\ \A j \in Jobs : kind[j] # "github" => using[j] = None

\* Close waits for whatever it found, and nothing comes after.
CloseInv ==
  /\ closed <=> closing # "open"
  /\ closing \in {"cancel", "wait", "ok"} =>
       /\ \A j \in Jobs : st[j] \in {"queued", "running"} => j \in pending
       /\ \A j \in ToSet(table) : j \in pending \/ closeFails \/ st[j] # "cleanup_failed"
  /\ closing = "ok" => pending = {} /\ ~closeFails

IInv == TypeOK /\ JobInv /\ AtlasInv /\ TableInv /\ ConnectionInv /\ CloseInv
=============================================================================
