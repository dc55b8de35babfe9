-------------------------- MODULE WorkbenchProofs --------------------------
(***************************************************************************)
(* The workbench keeps its promises for any number of jobs, callers,       *)
(* requests and kinds of work: a job that is reported as over has left the *)
(* slot, its processes and its source; nothing waited for is evicted; what *)
(* is served is the work of the job it is reported for; and no withdrawn   *)
(* or late connection comes in.                                            *)
(***************************************************************************)
EXTENDS Workbench, McpHttp, TLAPS, FiniteSetTheorems, SequenceTheorems, WellFoundedInduction

Local(j) == Placed(j) /\ Supervised(j) /\ Reported(j) /\ Sourced(j)

\* A step leaves alone what is recorded of job k.
Same(k) ==
  /\ kind'[k] = kind[k] /\ st'[k] = st[k] /\ at'[k] = at[k] /\ verdict'[k] = verdict[k]
  /\ proc'[k] = proc[k] /\ result'[k] = result[k] /\ dir'[k] = dir[k] /\ loaded'[k] = loaded[k]
  /\ slot' = k <=> slot = k
  /\ k \in activated' <=> k \in activated

LEMMA LocalKept ==
  ASSUME NEW k \in Jobs, Local(k), Same(k)
  PROVE  Local(k)'
<1>1. Placed(k)'
  BY DEF Local, Same, Placed, Holding, Terminal, Finished
<1>2. Supervised(k)'
  BY DEF Local, Same, Supervised
<1>3. Reported(k)'
  BY DEF Local, Same, Reported
<1>4. Sourced(k)'
  BY DEF Local, Same, Sourced
<1> QED BY <1>1, <1>2, <1>3, <1>4 DEF Local

\* Jobs whose cleanup could not be proven never recover.
Stays == \A k \in Jobs : proc[k] = "escaped" => proc'[k] = "escaped"

LEMMA MadeKept ==
  ASSUME NEW k \in Jobs, Made(k), Same(k), Stays, atlas' = atlas
  PROVE  Made(k)'
BY DEF Made, Same, Stays, Own, Holding

-----------------------------------------------------------------------------
(***************************************************************************)
(* What a step of one job leaves alone.                                    *)
(***************************************************************************)
LEMMA TableKept ==
  ASSUME TableInv, RecordsTyped, RecordsTyped', UNCHANGED <<table, retain, cancel, target, answer>>,
         \A k \in Jobs : st'[k] \in {"queued", "running"} => st[k] \in {"queued", "running"},
         \A k \in Jobs : at[k] = "over" => at'[k] = "over" /\ st'[k] = st[k]
  PROVE  TableInv'
<1>1. DOMAIN st = Jobs /\ DOMAIN st' = Jobs
  BY DEF RecordsTyped
<1>2. HeldInTable'
  BY <1>1 DEF TableInv, HeldInTable
<1>3. RetainBalanced'
  BY <1>1 DEF TableInv, RetainBalanced
<1>4. \A c \in Callers : answer[c] = "done" => target[c] \in Jobs /\ at[target[c]] = "over" /\ st[target[c]] # "cleanup_failed"
  BY DEF TableInv
<1>5. \A c \in Callers : answer'[c] = "done" => at'[target'[c]] = "over" /\ st'[target'[c]] # "cleanup_failed"
  BY <1>4
<1> QED BY <1>2, <1>3, <1>5 DEF TableInv

LEMMA CloseKept ==
  ASSUME CloseInv, TableTyped, UNCHANGED <<table, shutdown>>,
         \A k \in Jobs : st'[k] \in {"queued", "running"} => st[k] \in {"queued", "running"},
         \A k \in Jobs : st'[k] = "cleanup_failed" => st[k] \in {"cleanup_failed", "queued", "running"}
  PROVE  CloseInv'
<1>1. \A k \in ToSet(table) : k \in Jobs
  BY DEF TableTyped, ToSet
<1> QED BY <1>1 DEF CloseInv, shutdown

\* A step of one job that is not over.
LEMMA OneJobMoves ==
  ASSUME IInv, NEW j \in Jobs, UNCHANGED <<kind, using, table, retain, connecting, calls, shutdown>>,
         RecordsTyped', RunningTyped', ServingTyped',
         \A k \in Jobs \ {j} : Same(k), Local(j)',
         \A k \in Jobs : Made(k)', active'.by \in activated' \cup {None}, Own(active.atlas, active.by)',
         at[j] = "over" => at'[j] = "over" /\ st'[j] = st[j],
         st'[j] = "none" => st[j] = "none",
         st'[j] = st[j] \/ st[j] \in {"queued", "running"}
  PROVE  IInv'
<1>1. \A k \in Jobs : Local(k)
  BY DEF IInv, JobInv, Local
<1>2. JobInv'
  BY <1>1, LocalKept DEF JobInv, Local
<1>3. AtlasInv'
  BY DEF AtlasInv
<1>4. \A k \in Jobs \ {j} : st'[k] = st[k] /\ at'[k] = at[k]
  BY DEF Same
<1>5. st'[j] \in {"queued", "running"} => st[j] \in {"queued", "running"}
  BY DEF IInv, TypeOK, RecordsTyped, Finished
<1>6. TableInv'
  BY <1>4, <1>5, TableKept DEF calls, IInv, TypeOK
<1>7. CloseInv'
  BY <1>4, <1>5, CloseKept DEF IInv, TypeOK
<1>8. ConnectionInv'
  BY DEF IInv, ConnectionInv, connecting, shutdown
<1>9. TableTyped'
  <2>1. \A k \in ToSet(table) : k \in Jobs /\ st[k] # "none"
    BY DEF IInv, TypeOK, TableTyped, ToSet
  <2> QED BY <1>4, <2>1 DEF IInv, TypeOK, TableTyped
<1>10. ConnectingTyped' /\ CallsTyped' /\ ShutdownTyped'
  BY DEF IInv, TypeOK, ConnectingTyped, CallsTyped, ShutdownTyped, connecting, calls, shutdown, Conns
<1> QED BY <1>2, <1>3, <1>6, <1>7, <1>8, <1>9, <1>10 DEF IInv, TypeOK

-----------------------------------------------------------------------------
(***************************************************************************)
(* The work of a job.                                                      *)
(***************************************************************************)
\* What the invariant says of job j.
LEMMA JobFacts ==
  ASSUME IInv, NEW j \in Jobs
  PROVE  /\ Local(j) /\ Made(j) /\ AtlasInv /\ j # None
         /\ RecordsTyped /\ RunningTyped /\ ServingTyped
BY NoneAssumption DEF IInv, JobInv, AtlasInv, Local, TypeOK

LEMMA Domains ==
  ASSUME RecordsTyped, RunningTyped
  PROVE  /\ DOMAIN kind = Jobs /\ DOMAIN using = Jobs /\ DOMAIN st = Jobs /\ DOMAIN retain = Jobs
         /\ DOMAIN ctx = Jobs /\ DOMAIN at = Jobs /\ DOMAIN verdict = Jobs /\ DOMAIN proc = Jobs
         /\ DOMAIN result = Jobs /\ DOMAIN dir = Jobs /\ DOMAIN loaded = Jobs
         /\ \A k \in Jobs : at[k] \in Places
BY DEF RecordsTyped, RunningTyped

\* A step that only takes job j to another place.
LEMMA PlaceMoves ==
  ASSUME IInv, NEW j \in Jobs, NEW p \in Places, at' = [at EXCEPT ![j] = p],
         UNCHANGED <<records, ctx, verdict, slot, proc, result, dir, atlas, loaded,
                     serving, connecting, calls, shutdown>>,
         at[j] # "over", Local(j)', Made(j)'
  PROVE  IInv'
<1>1. /\ UNCHANGED <<kind, using, st, table, retain, ctx, verdict, slot, proc, result, dir, atlas, loaded,
                     active, activated>>
  BY DEF records, serving
<1>2. \A k \in Jobs \ {j} : Same(k)
  BY <1>1, JobFacts DEF Same, RunningTyped
<1>3. RecordsTyped' /\ ServingTyped'
  BY <1>1, JobFacts DEF RecordsTyped, ServingTyped, Conns
<1>4. RunningTyped'
  BY <1>1, JobFacts DEF RunningTyped
<1>5. Stays
  BY <1>1 DEF Stays
<1>6. \A k \in Jobs : Made(k)'
  BY <1>1, <1>2, <1>5, MadeKept, JobFacts
<1>7. active'.by \in activated' \cup {None} /\ Own(active.atlas, active.by)'
  BY <1>1, JobFacts DEF AtlasInv, Own
<1> QED BY <1>1, <1>2, <1>3, <1>4, <1>6, <1>7, OneJobMoves

\* A step that ends its work.
LEMMA LeaveMoves ==
  ASSUME IInv, NEW j \in Jobs, NEW how, Leave(j, how), Holding(j), at[j] # "release",
         how \in {"context", "unproven", "unless ended", "failed", "cleanup_failed"},
         UNCHANGED <<records, slot, result, atlas, loaded, serving, connecting, calls, shutdown>>,
         RunningTyped', \A k \in Jobs \ {j} : proc'[k] = proc[k] /\ dir'[k] = dir[k],
         proc'[j] \in {"none", "exited", "gone"} \/ (proc'[j] = "escaped" /\ how \in {"unproven", "cleanup_failed"}),
         proc'[j] = "none" => result[j] = "none",
         dir'[j] = "present" => how = "cleanup_failed" /\ kind[j] = "github"
  PROVE  IInv'
<1>0. DOMAIN at = Jobs /\ DOMAIN verdict = Jobs
  BY JobFacts, Domains
<1>1. /\ at' = [at EXCEPT ![j] = "release"] /\ verdict' = [verdict EXCEPT ![j] = how]
      /\ UNCHANGED <<kind, using, st, table, retain, slot, result, atlas, loaded, active, activated>>
  BY DEF Leave, records, serving
<1>2. \A k \in Jobs \ {j} : Same(k)
  BY <1>1, <1>0 DEF Same
<1>3. RecordsTyped' /\ ServingTyped'
  BY <1>1, JobFacts DEF RecordsTyped, ServingTyped, Conns
<1>4. at'[j] = "release" /\ verdict'[j] = how
  BY <1>0, <1>1
<1>5. Local(j) /\ at[j] # "over" /\ verdict[j] # "succeeded" /\ j \notin activated
  BY JobFacts DEF Holding, Local, Reported
<1>6. Local(j)'
  <2>1. Placed(j)'
    BY <1>1, <1>4, <1>5 DEF Local, Placed, Holding, Terminal, Finished
  <2>2. Supervised(j)'
    BY <1>1, <1>4, <1>5 DEF Local, Supervised
  <2>3. Reported(j)' /\ Sourced(j)'
    BY <1>1, <1>4, <1>5 DEF Local, Reported, Sourced
  <2> QED BY <2>1, <2>2, <2>3 DEF Local
<1>7. proc[j] # "escaped"
  BY <1>5 DEF Local, Supervised, Reported, Holding
<1>8. Stays
  BY <1>7 DEF Stays
<1>9. Made(j)'
  BY <1>1, <1>4, <1>8, JobFacts DEF Made, Own, Holding, Stays
<1>10. \A k \in Jobs : Made(k)'
  BY <1>1, <1>2, <1>8, <1>9, MadeKept, JobFacts
<1>11. active'.by \in activated' \cup {None} /\ Own(active.atlas, active.by)'
  BY <1>1, <1>8, JobFacts DEF AtlasInv, Own, Stays
<1> QED BY <1>1, <1>2, <1>3, <1>5, <1>6, <1>10, <1>11, OneJobMoves

\* A step of job j that writes and activates nothing.
LEMMA JobMoves ==
  ASSUME IInv, NEW j \in Jobs,
         UNCHANGED <<kind, using, table, retain, atlas, serving, connecting, calls, shutdown>>,
         RecordsTyped', RunningTyped', \A k \in Jobs \ {j} : Same(k), Local(j)', Made(j)',
         proc[j] # "escaped" \/ proc'[j] = proc[j], at[j] # "over",
         st'[j] = "none" => st[j] = "none", st'[j] = st[j] \/ st[j] \in {"queued", "running"}
  PROVE  IInv'
<1>1. UNCHANGED <<kind, using, table, retain, atlas, active, activated>>
  BY DEF serving
<1>2. ServingTyped'
  BY <1>1, JobFacts DEF ServingTyped
<1>3. Stays
  BY DEF Stays, Same
<1>4. \A k \in Jobs : Made(k)'
  BY <1>1, <1>3, MadeKept, JobFacts
<1>5. active'.by \in activated' \cup {None} /\ Own(active.atlas, active.by)'
  BY <1>1, <1>3, JobFacts DEF AtlasInv, Own, Stays
<1> QED BY <1>1, <1>2, <1>4, <1>5, OneJobMoves

LEMMA RefuseStep ==
  ASSUME IInv, NEW j \in Jobs, Refuse(j)
  PROVE  IInv'
<1>1. /\ at[j] = "posted" /\ at' = [at EXCEPT ![j] = "refused"]
      /\ UNCHANGED <<records, ctx, verdict, slot, proc, result, dir, atlas, loaded,
                     serving, connecting, calls, shutdown>>
  BY DEF Refuse
<1>2. Local(j) /\ Made(j) /\ at'[j] = "refused"
  BY <1>1, JobFacts, Domains
<1>3. Local(j)'
  BY <1>1, <1>2 DEF Local, Placed, Supervised, Reported, Sourced, Holding, Terminal, Finished, records, serving
<1>4. Made(j)'
  BY <1>1, <1>2 DEF Made, Own, Holding, records
<1> QED BY <1>1, <1>3, <1>4, PlaceMoves DEF Places

LEMMA GiveUpStep ==
  ASSUME IInv, NEW j \in Jobs, GiveUp(j)
  PROVE  IInv'
<1>1. /\ at[j] = "queue" /\ at' = [at EXCEPT ![j] = "finish"] /\ verdict' = [verdict EXCEPT ![j] = "context"]
      /\ UNCHANGED <<records, ctx, slot, proc, result, dir, atlas, loaded, serving, connecting, calls, shutdown>>
  BY DEF GiveUp
<1>2. UNCHANGED <<kind, using, st, table, retain, active, activated>>
  BY <1>1 DEF records, serving
<1>3. at'[j] = "finish" /\ verdict'[j] = "context"
  BY <1>1, JobFacts, Domains
<1>4. RecordsTyped' /\ RunningTyped'
  BY <1>1, <1>2, JobFacts DEF RecordsTyped, RunningTyped, Places, Conns
<1>5. \A k \in Jobs \ {j} : Same(k)
  BY <1>1, <1>2, JobFacts, Domains DEF Same
<1>6. Local(j)'
  BY <1>1, <1>2, <1>3, JobFacts DEF Local, Placed, Supervised, Reported, Sourced, Holding, Terminal, Finished
<1>7. Made(j)'
  BY <1>1, <1>2, <1>3, JobFacts DEF Made, Own, Holding
<1> QED BY <1>1, <1>2, <1>4, <1>5, <1>6, <1>7, JobMoves

LEMMA TakeSlotStep ==
  ASSUME IInv, NEW j \in Jobs, TakeSlot(j)
  PROVE  IInv'
<1>1. /\ at[j] = "queue" /\ slot = None /\ slot' = j /\ at' = [at EXCEPT ![j] = "admit"]
      /\ UNCHANGED <<records, ctx, verdict, proc, result, dir, atlas, loaded, serving, connecting, calls, shutdown>>
  BY DEF TakeSlot, Goto
<1>2. UNCHANGED <<kind, using, st, table, retain, active, activated>>
  BY <1>1 DEF records, serving
<1>3. at'[j] = "admit"
  BY <1>1, JobFacts, Domains
<1>4. RecordsTyped' /\ RunningTyped'
  BY <1>1, <1>2, JobFacts DEF RecordsTyped, RunningTyped, Places, Conns
<1>5. \A k \in Jobs \ {j} : Same(k)
  BY <1>1, <1>2, JobFacts, Domains DEF Same
<1>6. Local(j)'
  BY <1>1, <1>2, <1>3, JobFacts DEF Local, Placed, Supervised, Reported, Sourced, Holding, Terminal, Finished
<1>7. Made(j)'
  BY <1>1, <1>2, <1>3, JobFacts DEF Made, Own, Holding, Local, Supervised
<1> QED BY <1>1, <1>2, <1>4, <1>5, <1>6, <1>7, JobMoves

LEMMA AdmitStep ==
  ASSUME IInv, NEW j \in Jobs, Admit(j)
  PROVE  IInv'
<1>1. /\ at[j] = "admit"
      /\ UNCHANGED <<kind, using, table, retain, slot, proc, result, dir, atlas, loaded,
                     serving, connecting, calls, shutdown>>
  BY DEF Admit
<1>2. CASE /\ st' = [st EXCEPT ![j] = "running"] /\ at' = [at EXCEPT ![j] = "run"]
           /\ UNCHANGED <<ctx, verdict>>
  <2>1. at'[j] = "run" /\ st'[j] = "running" /\ st[j] \in {"queued", "running"}
    <3>1. at'[j] = "run" /\ st'[j] = "running"
      BY <1>2, JobFacts, Domains
    <3>2. st[j] # "none" /\ ~Terminal(j)
      BY <1>1, JobFacts DEF Local, Placed
    <3> QED BY <3>1, <3>2, JobFacts DEF RecordsTyped, Terminal
  <2>2. RecordsTyped' /\ RunningTyped'
    BY <1>1, <1>2, JobFacts DEF RecordsTyped, RunningTyped, Places, Conns
  <2>3. \A k \in Jobs \ {j} : Same(k)
    BY <1>1, <1>2, JobFacts, Domains DEF Same, serving
  <2>4. Local(j)'
    BY <1>1, <1>2, <2>1, JobFacts DEF Local, Placed, Supervised, Reported, Sourced, Holding, Terminal, Finished, serving
  <2>5. Made(j)'
    BY <1>1, <1>2, <2>1, JobFacts DEF Made, Own, Holding
  <2> QED BY <1>1, <2>1, <2>2, <2>3, <2>4, <2>5, JobMoves
<1>3. CASE ctx' = CtxCanceled({j}) /\ Leave(j, "context") /\ UNCHANGED st
  <2>1. RunningTyped'
    BY <1>1, <1>3, JobFacts DEF RunningTyped, Leave, CtxCanceled, Places
  <2>2. Holding(j) /\ proc[j] = "none" /\ result[j] = "none" /\ dir[j] # "present"
    BY <1>1, JobFacts DEF Holding, Local, Supervised, Sourced, Reported
  <2>3. UNCHANGED records
    BY <1>1, <1>3 DEF records
  <2> QED BY <1>1, <1>3, <2>1, <2>2, <2>3, LeaveMoves
<1> QED BY <1>2, <1>3 DEF Admit, Goto

LEMMA StartStep ==
  ASSUME IInv, NEW j \in Jobs, Start(j)
  PROVE  IInv'
<1>1. /\ at[j] = "run" /\ Command(j)
      /\ UNCHANGED <<records, ctx, slot, result, dir, atlas, loaded, serving, connecting, calls, shutdown>>
  BY DEF Start
<1>2. UNCHANGED <<kind, using, st, table, retain, active, activated>>
  BY <1>1 DEF records, serving
<1>3. Holding(j) /\ proc[j] = "none" /\ result[j] = "none" /\ dir[j] # "present" /\ kind[j] # "github"
  BY <1>1, JobFacts DEF Holding, Local, Supervised, Sourced, Reported, Command
<1>4. CASE \E how \in {"context", "unless ended"} : Leave(j, how) /\ UNCHANGED proc
  <2>1. PICK how \in {"context", "unless ended"} : Leave(j, how) /\ UNCHANGED proc
    BY <1>4
  <2>2. RunningTyped'
    BY <1>1, <2>1, JobFacts DEF RunningTyped, Leave, Places
  <2> QED BY <1>1, <1>3, <2>1, <2>2, LeaveMoves
<1>5. CASE at' = [at EXCEPT ![j] = "wait"] /\ proc' = [proc EXCEPT ![j] = "alive"] /\ UNCHANGED verdict
  <2>1. at'[j] = "wait" /\ proc'[j] = "alive"
    BY <1>5, JobFacts, Domains
  <2>2. RecordsTyped' /\ RunningTyped'
    BY <1>1, <1>2, <1>5, JobFacts DEF RecordsTyped, RunningTyped, Places, Conns
  <2>3. \A k \in Jobs \ {j} : Same(k)
    BY <1>1, <1>2, <1>5, JobFacts, Domains DEF Same
  <2>4. Local(j)'
    BY <1>1, <1>2, <1>3, <1>5, <2>1, JobFacts DEF Local, Placed, Supervised, Reported, Sourced, Holding, Terminal, Finished
  <2>5. Made(j)'
    BY <1>1, <1>2, <1>3, <1>5, <2>1, JobFacts DEF Made, Own, Holding
  <2> QED BY <1>1, <1>2, <1>3, <2>2, <2>3, <2>4, <2>5, JobMoves
<1> QED BY <1>4, <1>5 DEF Start, Goto

\* A quickstart that succeeds has published its atlas.
LEMMA ExitStep ==
  ASSUME IInv, NEW j \in Jobs, Exit(j)
  PROVE  IInv'
<1>1. /\ proc[j] \in {"alive", "wrote"}
      /\ \E r \in {"ok", "error"} : /\ r = "ok" /\ kind[j] = "quickstart" => proc[j] = "wrote"
                                    /\ result' = [result EXCEPT ![j] = r]
      /\ \E left \in {"exited", "left"} : proc' = [proc EXCEPT ![j] = left]
      /\ UNCHANGED <<records, ctx, at, verdict, slot, dir, atlas, loaded, serving, connecting, calls, shutdown>>
  BY DEF Exit
<1>2. UNCHANGED <<kind, using, st, table, retain, active, activated>>
  BY <1>1 DEF records, serving
<1>3. /\ result'[j] \in {"ok", "error"} /\ proc'[j] \in {"exited", "left"}
      /\ result'[j] = "ok" /\ kind[j] = "quickstart" => proc[j] = "wrote"
  BY <1>1, JobFacts, Domains
<1>4. RecordsTyped' /\ RunningTyped'
  BY <1>1, <1>2, JobFacts DEF RecordsTyped, RunningTyped, Conns
<1>5. \A k \in Jobs \ {j} : Same(k)
  BY <1>1, <1>2, JobFacts, Domains DEF Same
<1>6. at[j] \in {"wait", "terminate"}
  BY <1>1, JobFacts DEF Local, Supervised
<1>7. Local(j)'
  BY <1>1, <1>2, <1>3, <1>6, JobFacts DEF Local, Placed, Supervised, Reported, Sourced, Holding, Terminal, Finished
<1>8. Made(j)'
  <2>1. proc[j] = "wrote" => Own(atlas, j)
    BY JobFacts DEF Made
  <2>2. Stays
    BY <1>1, <1>5 DEF Stays, Same
  <2>3. Own(atlas, j) => Own(atlas, j)'
    BY <1>1, <2>2 DEF Own, Stays
  <2> QED BY <1>1, <1>2, <1>3, <1>6, <2>1, <2>3 DEF Made
<1> QED BY <1>1, <1>2, <1>4, <1>5, <1>6, <1>7, <1>8, JobMoves

LEMMA WaitStep ==
  ASSUME IInv, NEW j \in Jobs, Completed(j) \/ Interrupted(j)
  PROVE  IInv'
<1>1. PICK p \in {"verify", "terminate"} : at' = [at EXCEPT ![j] = p] /\ (p = "verify" => result[j] # "none")
  BY DEF Completed, Interrupted, Goto
<1>2. /\ at[j] = "wait"
      /\ UNCHANGED <<records, ctx, verdict, slot, proc, result, dir, atlas, loaded,
                     serving, connecting, calls, shutdown>>
  BY DEF Completed, Interrupted
<1>3. at'[j] = p
  BY <1>1, JobFacts, Domains
<1>4. Local(j)'
  BY <1>1, <1>2, <1>3, JobFacts DEF Local, Placed, Supervised, Reported, Sourced, Holding, Terminal, Finished, records, serving
<1>5. Made(j)'
  BY <1>1, <1>2, <1>3, JobFacts DEF Made, Own, Holding, records
<1> QED BY <1>1, <1>2, <1>4, <1>5, PlaceMoves DEF Places

LEMMA TerminateStep ==
  ASSUME IInv, NEW j \in Jobs, Terminate(j)
  PROVE  IInv'
<1>1. /\ at[j] = "terminate"
      /\ UNCHANGED <<records, ctx, slot, result, dir, atlas, loaded, serving, connecting, calls, shutdown>>
  BY DEF Terminate
<1>2. PICK how \in {"context", "unproven"}, p \in {"none", "exited", "gone", "escaped"} :
         /\ Leave(j, how) /\ proc' = [proc EXCEPT ![j] = p] /\ (p = "escaped" => how = "unproven")
         /\ (p = "none" => proc[j] = "none")
  <2>1. CASE proc' = [proc EXCEPT ![j] = "gone"] /\ Leave(j, "context")
    BY <2>1
  <2>2. CASE /\ \E left \in {"gone", "escaped"} : proc' = [proc EXCEPT ![j] = IF Alive(j) THEN left ELSE @]
             /\ Leave(j, "unproven")
    <3>1. proc[j] \in {"none", "alive", "wrote", "left", "exited", "gone", "escaped"}
      BY JobFacts DEF RunningTyped
    <3>2. PICK left \in {"gone", "escaped"} : proc' = [proc EXCEPT ![j] = IF Alive(j) THEN left ELSE @]
      BY <2>2
    <3>3. CASE Alive(j)
      BY <2>2, <3>2, <3>3
    <3>4. CASE ~Alive(j)
      BY <2>2, <3>1, <3>2, <3>4 DEF Alive
    <3> QED BY <3>3, <3>4
  <2> QED BY <2>1, <2>2 DEF Terminate
<1>3. Holding(j) /\ dir[j] # "present" /\ (p = "none" => result[j] = "none")
  BY <1>1, <1>2, JobFacts DEF Holding, Local, Supervised, Sourced, Reported
<1>4. RunningTyped'
  BY <1>1, <1>2, JobFacts DEF RunningTyped, Leave, Places
<1>5. proc'[j] = p /\ \A k \in Jobs \ {j} : proc'[k] = proc[k]
  BY <1>2, JobFacts, Domains
<1> QED BY <1>1, <1>2, <1>3, <1>4, <1>5, LeaveMoves

LEMMA VerifyStep ==
  ASSUME IInv, NEW j \in Jobs, Verify(j)
  PROVE  IInv'
<1>1. /\ at[j] = "verify"
      /\ UNCHANGED <<records, ctx, slot, result, dir, atlas, loaded, serving, connecting, calls, shutdown>>
  BY DEF Verify
<1>2. Holding(j) /\ dir[j] # "present" /\ result[j] # "none" /\ proc[j] \in {"left", "exited", "gone"}
  <2>1. proc[j] \in {"none", "alive", "wrote", "left", "exited", "gone", "escaped"}
    BY JobFacts DEF RunningTyped
  <2> QED BY <1>1, <2>1, JobFacts DEF Holding, Local, Supervised, Sourced, Reported
<1>3. CASE \E how \in {"failed", "cleanup_failed", "context"}, p \in {"gone", "escaped", proc[j]} :
             /\ Leave(j, how) /\ proc' = [proc EXCEPT ![j] = p]
             /\ (p = "escaped" => how = "cleanup_failed") /\ p # "left"
  <2>1. PICK how \in {"failed", "cleanup_failed", "context"}, p \in {"gone", "escaped", proc[j]} :
             /\ Leave(j, how) /\ proc' = [proc EXCEPT ![j] = p]
             /\ (p = "escaped" => how = "cleanup_failed") /\ p # "left"
    BY <1>3
  <2>2. p \in {"gone", "escaped", "exited"}
    BY <1>2, <2>1
  <2>3. RunningTyped'
    BY <1>1, <2>1, <2>2, JobFacts DEF RunningTyped, Leave, Places
  <2>4. proc'[j] = p /\ \A k \in Jobs \ {j} : proc'[k] = proc[k]
    BY <2>1, JobFacts, Domains
  <2>5. Leave(j, how) /\ how \in {"context", "unproven", "unless ended", "failed", "cleanup_failed"}
        /\ at[j] # "release"
    BY <1>1, <2>1
  <2> QED BY <1>1, <1>2, <2>1, <2>2, <2>3, <2>4, <2>5, LeaveMoves
<1>4. CASE at' = [at EXCEPT ![j] = "load"] /\ proc[j] # "left" /\ result[j] = "ok" /\ UNCHANGED <<verdict, proc>>
  <2>1. at'[j] = "load"
    BY <1>4, JobFacts, Domains
  <2>2. Local(j)'
    BY <1>1, <1>2, <1>4, <2>1, JobFacts DEF Local, Placed, Supervised, Reported, Sourced, Holding, Terminal, Finished, records, serving
  <2>3. Made(j)'
    BY <1>1, <1>2, <1>4, <2>1, JobFacts DEF Made, Own, Holding, records
  <2> QED BY <1>1, <1>4, <2>2, <2>3, PlaceMoves DEF Places
<1>5. CASE proc[j] = "left"
  BY <1>3, <1>5 DEF Verify
<1>6. CASE proc[j] # "left"
  <2>1. proc' = proc /\ proc' = [proc EXCEPT ![j] = proc[j]]
    BY <1>6, JobFacts DEF Verify, RunningTyped
  <2>2. Leave(j, "failed") \/ Leave(j, "context") \/
        (at' = [at EXCEPT ![j] = "load"] /\ result[j] = "ok" /\ UNCHANGED verdict)
    BY <1>6 DEF Verify, Goto
  <2>3. ASSUME Leave(j, "failed") \/ Leave(j, "context") PROVE IInv'
    BY <1>2, <1>3, <1>6, <2>1, <2>3
  <2> QED BY <1>4, <1>6, <2>1, <2>2, <2>3
<1> QED BY <1>5, <1>6

\* Whoever has the slot is the only one that may change the atlas.
LEMMA OthersMade ==
  ASSUME IInv, NEW j \in Jobs, Holding(j), atlas' \in {atlas, j}, Stays, NEW k \in Jobs \ {j}, Same(k)
  PROVE  Made(k)'
<1>1. Local(j) /\ Local(k) /\ Made(k)
  BY JobFacts
<1>2. ~Holding(k)
  BY <1>1 DEF Local, Placed
<1>3. proc'[k] # "wrote" /\ at'[k] # "activate"
  BY <1>1, <1>2 DEF Local, Supervised, Holding, Same
<1>4. ~Holding(k)'
  BY <1>2 DEF Holding, Same
<1> QED BY <1>3, <1>4 DEF Made

\* A process that is left writes as the job it belongs to, or after it was given up.
LEMMA WriteStep ==
  ASSUME IInv, NEW j \in Jobs, Write(j)
  PROVE  IInv'
<1>1. /\ Alive(j) /\ atlas' = j
      /\ proc' = [proc EXCEPT ![j] = IF @ = "alive" THEN "wrote" ELSE @]
      /\ UNCHANGED <<records, ctx, at, verdict, slot, result, dir, loaded, serving, connecting, calls, shutdown>>
  BY DEF Write
<1>2. UNCHANGED <<kind, using, st, table, retain, active, activated>>
  BY <1>1 DEF records, serving
<1>3. proc'[j] = (IF proc[j] = "alive" THEN "wrote" ELSE proc[j]) /\ \A k \in Jobs \ {j} : proc'[k] = proc[k]
  BY <1>1, JobFacts, Domains
<1>4. RecordsTyped' /\ ServingTyped'
  BY <1>1, <1>2, JobFacts DEF RecordsTyped, ServingTyped, Conns
<1>5. RunningTyped'
  <2>1. proc' \in [Jobs -> {"none", "alive", "wrote", "left", "exited", "gone", "escaped"}]
    BY <1>1, JobFacts DEF RunningTyped
  <2> QED BY <1>1, <2>1, JobFacts DEF RunningTyped
<1>6. \A k \in Jobs \ {j} : Same(k)
  BY <1>1, <1>2, <1>3 DEF Same
<1>7. Stays
  BY <1>3 DEF Stays
<1>8. Local(j)'
  BY <1>1, <1>2, <1>3, JobFacts DEF Local, Placed, Supervised, Reported, Sourced, Holding, Terminal, Finished
<1>9. Made(j)'
  BY <1>1, <1>2, <1>3, JobFacts DEF Made, Own, Local, Supervised, Reported, Alive
<1>10. ASSUME NEW k \in Jobs \ {j} PROVE Made(k)'
  <2>1. CASE proc[j] = "escaped"
    <3>1. Own(j, k)'
      BY <1>3, <2>1 DEF Own
    <3>2. at'[k] = "activate" => Own(loaded[k], k)'
      BY <1>6, <1>7, <1>10, JobFacts DEF Made, Own, Stays, Same
    <3> QED BY <1>1, <1>6, <3>1, <3>2 DEF Made
  <2>2. CASE proc[j] # "escaped"
    <3>1. Holding(j)
      BY <1>1, <2>2, JobFacts DEF Local, Supervised, Alive, Holding
    <3> QED BY <1>1, <1>6, <1>7, <1>10, <3>1, OthersMade
  <2> QED BY <2>1, <2>2
<1>11. active'.by \in activated' \cup {None} /\ Own(active.atlas, active.by)'
  BY <1>2, <1>7, JobFacts DEF AtlasInv, Own, Stays
<1>12. \A k \in Jobs : Made(k)'
  BY <1>9, <1>10
<1> QED BY <1>1, <1>2, <1>4, <1>5, <1>6, <1>8, <1>11, <1>12, OneJobMoves

LEMMA CompileFolderStep ==
  ASSUME IInv, NEW j \in Jobs, CompileFolder(j)
  PROVE  IInv'
<1>1. /\ at[j] = "run" /\ kind[j] = "quickstart"
      /\ UNCHANGED <<records, ctx, slot, proc, result, dir, loaded, serving, connecting, calls, shutdown>>
  BY DEF CompileFolder
<1>2. UNCHANGED <<kind, using, st, table, retain, active, activated>>
  BY <1>1 DEF records, serving
<1>3. PICK p \in {"release", "load"}, v \in {"none", "context", "failed"} :
         /\ at' = [at EXCEPT ![j] = p] /\ verdict' = [verdict EXCEPT ![j] = v]
         /\ v = "none" <=> p = "load"
         /\ atlas' \in {atlas, j} /\ (p = "load" => atlas' = j)
  <2>1. verdict[j] = "none" /\ verdict = [verdict EXCEPT ![j] = verdict[j]]
    <3>1. verdict[j] = "none"
      BY <1>1, JobFacts DEF Local, Reported
    <3> QED BY <3>1, JobFacts DEF RunningTyped
  <2>2. PICK ok \in BOOLEAN, written \in BOOLEAN :
          /\ ok => written
          /\ atlas' = IF written THEN j ELSE atlas
          /\ \/ Ended(j) /\ Leave(j, "context")
             \/ ~Ended(j) /\ ~ok /\ Leave(j, "failed")
             \/ ~Ended(j) /\ ok /\ Goto(j, "load") /\ UNCHANGED verdict
    BY DEF CompileFolder
  <2>3. atlas' \in {atlas, j} /\ (ok => atlas' = j)
    BY <2>2
  <2>4. CASE Leave(j, "context") \/ Leave(j, "failed")
    BY <2>3, <2>4 DEF Leave
  <2>5. CASE ok /\ Goto(j, "load") /\ UNCHANGED verdict
    BY <2>1, <2>3, <2>5 DEF Goto
  <2> QED BY <2>2, <2>4, <2>5
<1>4. at'[j] = p /\ verdict'[j] = v
  BY <1>3, JobFacts, Domains
<1>5. RecordsTyped' /\ ServingTyped'
  BY <1>2, JobFacts DEF RecordsTyped, ServingTyped, Conns
<1>6. RunningTyped'
  BY <1>1, <1>3, JobFacts DEF RunningTyped, Places
<1>7. \A k \in Jobs \ {j} : Same(k)
  BY <1>1, <1>2, <1>3, JobFacts, Domains DEF Same
<1>8. Stays
  BY <1>1 DEF Stays
<1>9. Local(j)'
  BY <1>1, <1>2, <1>3, <1>4, JobFacts DEF Local, Placed, Supervised, Reported, Sourced, Holding, Terminal, Finished
<1>10. Made(j)'
  BY <1>1, <1>2, <1>3, <1>4, JobFacts DEF Made, Own, Holding, Local, Supervised
<1>11. Holding(j)
  BY <1>1 DEF Holding
<1>12. \A k \in Jobs \ {j} : Made(k)'
  BY <1>3, <1>7, <1>8, <1>11, OthersMade
<1>13. active'.by \in activated' \cup {None} /\ Own(active.atlas, active.by)'
  BY <1>2, <1>8, JobFacts DEF AtlasInv, Own, Stays
<1>14. \A k \in Jobs : Made(k)'
  BY <1>10, <1>12
<1> QED BY <1>1, <1>2, <1>5, <1>6, <1>7, <1>9, <1>13, <1>14, OneJobMoves

-----------------------------------------------------------------------------
(***************************************************************************)
(* A GitHub job.                                                           *)
(***************************************************************************)
LEMMA MakeSourceStep ==
  ASSUME IInv, NEW j \in Jobs, MakeSource(j)
  PROVE  IInv'
<1>1. /\ at[j] = "run" /\ kind[j] = "github"
      /\ UNCHANGED <<records, ctx, slot, proc, result, atlas, loaded, serving, connecting, calls, shutdown>>
  BY DEF MakeSource
<1>2. UNCHANGED <<kind, using, st, table, retain, active, activated>>
  BY <1>1 DEF records, serving
<1>3. Holding(j) /\ proc[j] = "none" /\ result[j] = "none"
  BY <1>1, JobFacts DEF Holding, Local, Supervised, Sourced, Reported
<1>4. CASE Leave(j, "failed") /\ \E d \in {"none", "empty"} : dir' = [dir EXCEPT ![j] = d]
  <2>1. RunningTyped'
    BY <1>1, <1>4, JobFacts DEF RunningTyped, Leave, Places
  <2>2. dir'[j] # "present" /\ \A k \in Jobs \ {j} : dir'[k] = dir[k]
    BY <1>4, JobFacts, Domains
  <2> QED BY <1>1, <1>3, <1>4, <2>1, <2>2, LeaveMoves
<1>5. CASE at' = [at EXCEPT ![j] = "fetch"] /\ dir' = [dir EXCEPT ![j] = "present"] /\ UNCHANGED verdict
  <2>1. at'[j] = "fetch" /\ dir'[j] = "present"
    BY <1>5, JobFacts, Domains
  <2>2. RecordsTyped' /\ RunningTyped'
    BY <1>1, <1>2, <1>5, JobFacts DEF RecordsTyped, RunningTyped, Places, Conns
  <2>3. \A k \in Jobs \ {j} : Same(k)
    BY <1>1, <1>2, <1>5, JobFacts, Domains DEF Same
  <2>4. Local(j)'
    BY <1>1, <1>2, <1>3, <1>5, <2>1, JobFacts DEF Local, Placed, Supervised, Reported, Sourced, Holding, Terminal, Finished
  <2>5. Made(j)'
    BY <1>1, <1>2, <1>3, <1>5, <2>1, JobFacts DEF Made, Own, Holding
  <2> QED BY <1>1, <1>2, <2>2, <2>3, <2>4, <2>5, JobMoves
<1> QED BY <1>4, <1>5 DEF MakeSource, Goto

LEMMA GitHubStep ==
  ASSUME IInv, NEW j \in Jobs, Fetch(j) \/ CompileGitHub(j)
  PROVE  IInv'
<1>1. PICK p \in {"compile", "load", "clean"} : at' = [at EXCEPT ![j] = p]
  BY DEF Fetch, CompileGitHub, Goto
<1>2. /\ at[j] \in {"fetch", "compile"}
      /\ UNCHANGED <<records, ctx, verdict, slot, proc, result, dir, atlas, loaded, serving, connecting, calls, shutdown>>
  BY DEF Fetch, CompileGitHub
<1>3. at'[j] = p /\ kind[j] = "github"
  BY <1>1, <1>2, JobFacts, Domains DEF Local, Sourced
<1>4. Local(j)'
  BY <1>1, <1>2, <1>3, JobFacts DEF Local, Placed, Supervised, Reported, Sourced, Holding, Terminal, Finished, records, serving
<1>5. Made(j)'
  BY <1>1, <1>2, <1>3, JobFacts DEF Made, Own, Holding, records
<1> QED BY <1>1, <1>2, <1>4, <1>5, PlaceMoves DEF Places

\* After its command has ended and been verified, a job has no process left.
LEMMA Settled ==
  ASSUME IInv, NEW j \in Jobs, at[j] \in {"fetch", "compile", "clean", "load", "activate"}
  PROVE  proc[j] \in {"none", "exited", "gone"} /\ (proc[j] = "none" => result[j] = "none")
<1>1. proc[j] \in {"none", "alive", "wrote", "left", "exited", "gone", "escaped"}
  BY JobFacts DEF RunningTyped
<1> QED BY <1>1, JobFacts DEF Local, Supervised, Reported

LEMMA CleanSourceStep ==
  ASSUME IInv, NEW j \in Jobs, CleanSource(j)
  PROVE  IInv'
<1>1. /\ at[j] = "clean"
      /\ UNCHANGED <<records, ctx, slot, proc, result, atlas, loaded, serving, connecting, calls, shutdown>>
  BY DEF CleanSource
<1>2. Holding(j) /\ proc[j] \in {"none", "exited", "gone"} /\ (proc[j] = "none" => result[j] = "none")
  BY <1>1, Settled DEF Holding
<1>3. CASE dir' = [dir EXCEPT ![j] = "removed"] /\ Leave(j, "unless ended")
  <2>1. RunningTyped'
    BY <1>1, <1>3, JobFacts DEF RunningTyped, Leave, Places
  <2>2. dir'[j] = "removed" /\ \A k \in Jobs \ {j} : dir'[k] = dir[k]
    BY <1>3, JobFacts, Domains
  <2> QED BY <1>1, <1>2, <1>3, <2>1, <2>2, LeaveMoves
<1>4. CASE Leave(j, "cleanup_failed") /\ UNCHANGED dir
  <2>1. RunningTyped' /\ kind[j] = "github"
    BY <1>1, <1>4, JobFacts DEF RunningTyped, Leave, Places, Local, Sourced
  <2> QED BY <1>1, <1>2, <1>4, <2>1, LeaveMoves
<1> QED BY <1>3, <1>4 DEF CleanSource

-----------------------------------------------------------------------------
(***************************************************************************)
(* Activation and the end of a job.                                        *)
(***************************************************************************)
LEMMA UnactivatedMoves ==
  ASSUME IInv, NEW j \in Jobs, at[j] \in {"load", "activate"}, Unactivated(j),
         UNCHANGED <<records, ctx, slot, proc, result, dir, atlas, loaded, serving, connecting, calls, shutdown>>
  PROVE  IInv'
<1>1. Holding(j) /\ at[j] # "over"
  BY DEF Holding
<1>2. UNCHANGED <<kind, st, activated>>
  BY DEF records, serving
<1>3. CASE kind[j] = "github"
  <2>1. at' = [at EXCEPT ![j] = "clean"] /\ verdict' = verdict
    BY <1>3 DEF Unactivated, Goto
  <2>2. at'[j] = "clean"
    BY <2>1, JobFacts, Domains
  <2>3. Local(j)'
    <3>1. Placed(j)' /\ Supervised(j)'
      BY <1>1, <1>2, <1>3, <2>1, <2>2, Settled, JobFacts DEF Local, Placed, Supervised, Holding, Terminal, Finished
    <3>2. Reported(j)' /\ Sourced(j)'
      BY <1>1, <1>2, <1>3, <2>1, <2>2, JobFacts DEF Local, Reported, Sourced
    <3> QED BY <3>1, <3>2 DEF Local
  <2>4. Made(j)'
    BY <1>1, <1>2, <1>3, <2>2, Settled DEF Made
  <2> QED BY <1>1, <2>1, <2>3, <2>4, PlaceMoves DEF Places
<1>4. CASE kind[j] # "github"
  <2>1. Leave(j, "failed")
    BY <1>4 DEF Unactivated
  <2>2. RunningTyped'
    BY <2>1, JobFacts DEF RunningTyped, Leave, Places
  <2>3. dir[j] = "present" => FALSE
    BY <1>4, JobFacts DEF Local, Sourced
  <2> QED BY <1>1, <2>1, <2>2, <2>3, Settled, LeaveMoves
<1> QED BY <1>3, <1>4

\* The atlas that is loaded is the one the job has compiled.
LEMMA LoadAtlasStep ==
  ASSUME IInv, NEW j \in Jobs, LoadAtlas(j)
  PROVE  IInv'
<1>1. /\ at[j] = "load"
      /\ UNCHANGED <<records, ctx, slot, proc, result, dir, atlas, serving, connecting, calls, shutdown>>
  BY DEF LoadAtlas
<1>2. UNCHANGED <<kind, using, st, table, retain, active, activated>>
  BY <1>1 DEF records, serving
<1>3. CASE kind[j] = "command" /\ Leave(j, "succeeded") /\ UNCHANGED loaded
  <2>1. at' = [at EXCEPT ![j] = "release"] /\ verdict' = [verdict EXCEPT ![j] = "succeeded"]
    BY <1>3 DEF Leave
  <2>2. at'[j] = "release" /\ verdict'[j] = "succeeded"
    BY <2>1, JobFacts, Domains
  <2>3. RecordsTyped' /\ RunningTyped'
    BY <1>1, <1>2, <1>3, <2>1, JobFacts DEF RecordsTyped, RunningTyped, Places, Conns
  <2>4. \A k \in Jobs \ {j} : Same(k)
    BY <1>1, <1>2, <1>3, <2>1, JobFacts, Domains DEF Same
  <2>5. Local(j)'
    <3>1. Placed(j)' /\ Supervised(j)'
      BY <1>1, <1>2, <1>3, <2>2, Settled, JobFacts DEF Local, Placed, Supervised, Holding, Terminal, Finished
    <3>2. Reported(j)' /\ Sourced(j)'
      BY <1>1, <1>2, <1>3, <2>2, JobFacts DEF Local, Reported, Sourced
    <3> QED BY <3>1, <3>2 DEF Local
  <2>6. Made(j)'
    BY <1>1, <1>2, <1>3, <2>2, Settled DEF Made
  <2> QED BY <1>1, <1>2, <1>3, <2>3, <2>4, <2>5, <2>6, JobMoves
<1>4. CASE Unactivated(j) /\ UNCHANGED loaded
  BY <1>1, <1>4, UnactivatedMoves
<1>5. CASE /\ kind[j] # "command"
           /\ loaded' = [loaded EXCEPT ![j] = IF kind[j] = "github" THEN j ELSE atlas]
           /\ at' = [at EXCEPT ![j] = "activate"] /\ UNCHANGED verdict
  <2>1. at'[j] = "activate" /\ loaded'[j] = (IF kind[j] = "github" THEN j ELSE atlas)
    BY <1>5, JobFacts, Domains
  <2>2. RecordsTyped' /\ RunningTyped'
    BY <1>1, <1>2, <1>5, JobFacts DEF RecordsTyped, RunningTyped, Places, Conns
  <2>3. \A k \in Jobs \ {j} : Same(k)
    BY <1>1, <1>2, <1>5, JobFacts, Domains DEF Same
  <2>4. Local(j)'
    <3>1. Placed(j)' /\ Supervised(j)'
      BY <1>1, <1>2, <1>5, <2>1, Settled, JobFacts DEF Local, Placed, Supervised, Holding, Terminal, Finished
    <3>2. Reported(j)' /\ Sourced(j)'
      BY <1>1, <1>2, <1>5, <2>1, JobFacts DEF Local, Reported, Sourced
    <3> QED BY <3>1, <3>2 DEF Local
  <2>5. Made(j)'
    <3>1. kind[j] = "quickstart" => Own(atlas, j)
      BY <1>1, JobFacts DEF Made, Holding
    <3>2. kind[j] \in {"quickstart", "github"}
      <4>1. kind[j] \in Kinds \cup {None} /\ kind[j] # None
        BY <1>1, JobFacts DEF RecordsTyped, Local, Placed
      <4> QED BY <1>5, <4>1, KindsAssumption
    <3>3. Own(loaded'[j], j)
      BY <2>1, <3>1, <3>2 DEF Own
    <3>4. Own(loaded[j], j)'
      BY <1>1, <3>3 DEF Own
    <3> QED BY <1>1, <1>2, <1>5, <2>1, <3>1, <3>4, Settled DEF Made, Own
  <2> QED BY <1>1, <1>2, <2>2, <2>3, <2>4, <2>5, JobMoves
<1> QED BY <1>3, <1>4, <1>5 DEF LoadAtlas, Goto

LEMMA ActivateStep ==
  ASSUME IInv, NEW j \in Jobs, Activate(j)
  PROVE  IInv'
<1>1. /\ at[j] = "activate"
      /\ UNCHANGED <<records, ctx, slot, proc, result, dir, atlas, loaded, connecting, calls, shutdown>>
  BY DEF Activate
<1>2. UNCHANGED <<kind, using, st, table, retain>>
  BY <1>1 DEF records
<1>3. CASE Unactivated(j) /\ UNCHANGED serving
  BY <1>1, <1>3, UnactivatedMoves
<1>4. CASE /\ active' = [by |-> j, atlas |-> loaded[j]] /\ activated' = activated \cup {j}
           /\ at' = [at EXCEPT ![j] = "release"] /\ verdict' = [verdict EXCEPT ![j] = "succeeded"]
  <2>1. at'[j] = "release" /\ verdict'[j] = "succeeded"
    BY <1>4, JobFacts, Domains
  <2>2. RecordsTyped' /\ RunningTyped' /\ ServingTyped'
    <3>1. loaded[j] \in Jobs \cup {None}
      BY JobFacts DEF RunningTyped
    <3>2. ServingTyped'
      BY <1>4, <3>1, JobFacts DEF ServingTyped
    <3>3. RunningTyped'
      BY <1>1, <1>4, JobFacts DEF RunningTyped, Places
    <3>4. RecordsTyped'
      BY <1>2, JobFacts DEF RecordsTyped, Conns
    <3> QED BY <3>2, <3>3, <3>4
  <2>3. \A k \in Jobs \ {j} : Same(k)
    BY <1>1, <1>2, <1>4, JobFacts, Domains DEF Same
  <2>4. Local(j)'
    <3>1. Placed(j)' /\ Supervised(j)'
      BY <1>1, <1>2, <1>4, <2>1, Settled, JobFacts DEF Local, Placed, Supervised, Holding, Terminal, Finished
    <3>2. Reported(j)' /\ Sourced(j)'
      BY <1>1, <1>2, <1>4, <2>1, JobFacts DEF Local, Reported, Sourced
    <3> QED BY <3>1, <3>2 DEF Local
  <2>5. Stays
    BY <1>1 DEF Stays
  <2>6. Made(j)'
    <3>1. kind[j] = "quickstart" /\ result[j] = "ok" => Own(atlas, j)
      BY <1>1, JobFacts DEF Made, Holding
    <3> QED BY <1>1, <1>2, <2>1, <3>1, Settled DEF Made, Own
  <2>7. \A k \in Jobs : Made(k)'
    BY <1>1, <2>3, <2>5, <2>6, MadeKept, JobFacts
  <2>8. active'.by \in activated' \cup {None} /\ Own(active.atlas, active.by)'
    <3>1. Own(loaded[j], j)
      BY <1>1, JobFacts DEF Made
    <3> QED BY <1>1, <1>4, <3>1 DEF Own
  <2> QED BY <1>1, <1>2, <2>2, <2>3, <2>4, <2>7, <2>8, OneJobMoves
<1> QED BY <1>3, <1>4 DEF Activate, Leave

LEMMA ReleaseSlotStep ==
  ASSUME IInv, NEW j \in Jobs, ReleaseSlot(j)
  PROVE  IInv'
<1>1. /\ at[j] = "release" /\ slot' = None /\ at' = [at EXCEPT ![j] = "finish"]
      /\ UNCHANGED <<records, ctx, verdict, proc, result, dir, atlas, loaded, serving, connecting, calls, shutdown>>
  BY DEF ReleaseSlot, Goto
<1>2. UNCHANGED <<kind, using, st, table, retain, active, activated>>
  BY <1>1 DEF records, serving
<1>3. at'[j] = "finish" /\ slot = j
  BY <1>1, JobFacts, Domains DEF Local, Placed, Holding
<1>4. RecordsTyped' /\ RunningTyped'
  BY <1>1, <1>2, JobFacts DEF RecordsTyped, RunningTyped, Places, Conns
<1>5. \A k \in Jobs \ {j} : Same(k)
  BY <1>1, <1>2, <1>3, JobFacts, Domains, NoneAssumption DEF Same
<1>6. Local(j)'
  BY <1>1, <1>2, <1>3, JobFacts DEF Local, Placed, Supervised, Reported, Sourced, Holding, Terminal, Finished
<1>7. Made(j)'
  BY <1>1, <1>2, <1>3, JobFacts DEF Made, Own, Holding
<1> QED BY <1>1, <1>2, <1>4, <1>5, <1>6, <1>7, JobMoves

LEMMA FinishStep ==
  ASSUME IInv, NEW j \in Jobs, Finish(j)
  PROVE  IInv'
<1>1. /\ at[j] = "finish" /\ st' = [st EXCEPT ![j] = Outcome(j)] /\ ctx' = CtxCanceled({j})
      /\ at' = [at EXCEPT ![j] = "over"]
      /\ UNCHANGED <<kind, using, table, retain, verdict, slot, proc, result, dir, atlas, loaded,
                     serving, connecting, calls, shutdown>>
  BY DEF Finish, Goto
<1>2. at'[j] = "over" /\ st'[j] = Outcome(j)
  BY <1>1, JobFacts, Domains
<1>3. st[j] \in {"queued", "running"}
  <2>1. st[j] # "none" /\ ~Terminal(j)
    BY <1>1, JobFacts DEF Local, Placed
  <2> QED BY <2>1, JobFacts DEF RecordsTyped, Terminal
<1>4. /\ Outcome(j) \in Finished
      /\ verdict[j] \in {"unproven", "cleanup_failed"} => Outcome(j) = "cleanup_failed"
      /\ Outcome(j) = "succeeded" <=> verdict[j] = "succeeded"
  <2>1. verdict[j] \in {"context", "unproven", "unless ended", "failed", "cleanup_failed", "succeeded"}
    BY <1>1, JobFacts DEF Local, Reported, RunningTyped
  <2> QED BY <2>1 DEF Outcome, FromContext, Finished
<1>5. RecordsTyped' /\ RunningTyped'
  BY <1>1, <1>4, JobFacts DEF RecordsTyped, RunningTyped, Places, Conns, CtxCanceled
<1>6. \A k \in Jobs \ {j} : Same(k)
  BY <1>1, JobFacts, Domains DEF Same, serving
<1>7. Local(j)'
  <2>1. Placed(j)'
    BY <1>1, <1>2, <1>4, JobFacts DEF Local, Placed, Holding, Terminal, Finished
  <2>2. Supervised(j)'
    BY <1>1, <1>2, JobFacts DEF Local, Supervised
  <2>3. Reported(j)' /\ Sourced(j)'
    BY <1>1, <1>2, <1>4, JobFacts DEF Local, Reported, Sourced, serving
  <2> QED BY <2>1, <2>2, <2>3 DEF Local
<1>8. Made(j)'
  BY <1>1, <1>2, JobFacts DEF Made, Own, Holding
<1>9. st'[j] # "none"
  BY <1>2, <1>4 DEF Finished
<1> QED BY <1>1, <1>3, <1>5, <1>6, <1>7, <1>8, <1>9, JobMoves

-----------------------------------------------------------------------------
(***************************************************************************)
(* The job table.                                                          *)
(***************************************************************************)
LEMMA LeastOf ==
  ASSUME NEW S \in SUBSET Nat, S # {}
  PROVE  Min(S) \in S
<1> DEFINE R == {p \in Nat \X Nat : p[1] < p[2]}
<1>1. IsWellFoundedOn(R, Nat)
  <2>1. R = OpToRel(<, Nat)
    BY DEF OpToRel
  <2> QED BY <2>1, NatLessThanWellFounded
<1>2. PICK x \in S : \A y \in S : ~(<<y, x>> \in R)
  <2> HIDE DEF R
  <2> QED BY <1>1, WFMin
<1>3. ASSUME NEW y \in S PROVE x <= y
  <2>1. x \in Nat /\ y \in Nat /\ ~(<<y, x>> \in R)
    BY <1>2
  <2>2. ~(y < x)
    BY <2>1
  <2> QED BY <2>1, <2>2
<1> QED BY <1>3 DEF Min

LEMMA RemovalFacts ==
  ASSUME NEW S, NEW s \in Seq(S), NEW i \in 1..Len(s)
  PROVE  /\ RemoveAt(s, i) \in Seq(S) /\ Len(RemoveAt(s, i)) = Len(s) - 1
         /\ \A n \in 1..(Len(s) - 1) : RemoveAt(s, i)[n] = IF n < i THEN s[n] ELSE s[n + 1]
<1> DEFINE a == SubSeq(s, 1, i - 1)
           b == SubSeq(s, i + 1, Len(s))
<1>1. Len(s) \in Nat /\ i \in Nat /\ 1 <= i /\ i <= Len(s) /\ \A n \in 1..Len(s) : s[n] \in S
  OBVIOUS
<1>2. a \in Seq(S) /\ Len(a) = i - 1 /\ \A n \in 1..(i - 1) : a[n] = s[n]
  <2>1. \A n \in 1..(i - 1) : s[n] \in S
    BY <1>1
  <2> QED BY <1>1, <2>1, SubSeqProperties
<1>3. b \in Seq(S) /\ Len(b) = Len(s) - i /\ \A n \in 1..(Len(s) - i) : b[n] = s[i + n]
  <2>1. \A n \in (i + 1)..Len(s) : s[n] \in S
    BY <1>1
  <2> QED BY <1>1, <2>1, SubSeqProperties
<1>4. /\ a \o b \in Seq(S) /\ Len(a \o b) = Len(a) + Len(b)
      /\ \A n \in 1..(Len(a) + Len(b)) : (a \o b)[n] = IF n <= Len(a) THEN a[n] ELSE b[n - Len(a)]
  <2> HIDE DEF a, b
  <2> QED BY <1>2, <1>3, ConcatProperties
<1>5. RemoveAt(s, i) = a \o b
  BY DEF RemoveAt
<1> HIDE DEF a, b
<1>6. ASSUME NEW n \in 1..(Len(s) - 1)
      PROVE  RemoveAt(s, i)[n] = IF n < i THEN s[n] ELSE s[n + 1]
  <2>1. CASE n < i
    <3>1. n \in 1..(i - 1)
      BY <1>1, <2>1
    <3>2. (a \o b)[n] = a[n]
      BY <1>1, <1>2, <1>3, <1>4, <3>1
    <3> QED BY <1>2, <1>5, <2>1, <3>1, <3>2
  <2>2. CASE ~(n < i)
    <3>1. n - (i - 1) \in 1..(Len(s) - i) /\ i + (n - (i - 1)) = n + 1
      BY <1>1, <2>2
    <3>2. (a \o b)[n] = b[n - (i - 1)]
      BY <1>1, <1>2, <1>3, <1>4, <2>2
    <3> QED BY <1>3, <1>5, <2>2, <3>1, <3>2
  <2> QED BY <2>1, <2>2
<1>7. RemoveAt(s, i) \in Seq(S)
  BY <1>4, <1>5
<1>8. Len(RemoveAt(s, i)) = Len(s) - 1
  <2>1. Len(a \o b) = Len(a) + Len(b) /\ Len(a) = i - 1 /\ Len(b) = Len(s) - i
    BY <1>2, <1>3, <1>4
  <2>2. Len(s) \in Nat /\ i \in Nat
    BY <1>1
  <2>3. (i - 1) + (Len(s) - i) = Len(s) - 1
    BY <2>2
  <2> QED BY <1>5, <2>1, <2>3
<1> QED BY <1>6, <1>7, <1>8

\* Only a job that is over and held by nobody leaves the table.
LEMMA EvictedFacts ==
  ASSUME TableTyped
  PROVE  /\ Evicted \in Seq(Jobs) /\ IsInjective(Evicted)
         /\ ToSet(Evicted) \subseteq ToSet(table)
         /\ \A k \in ToSet(table) : k \in ToSet(Evicted) \/ Evictable(k)
<1>1. table \in Seq(Jobs) /\ IsInjective(table) /\ DOMAIN table = 1..Len(table) /\ Len(table) \in Nat
  BY DEF TableTyped
<1>2. CASE Evicted = table
  BY <1>1, <1>2
<1>3. CASE Evicted # table
  <2> DEFINE I == {n \in 1..Len(table) : Evictable(table[n])}
             i == Min(I)
             e == RemoveAt(table, i)
  <2>1. I # {} /\ Evicted = e
    BY <1>1, <1>3 DEF Evicted, SelectInSeq
  <2>2. i \in 1..Len(table) /\ Evictable(table[i])
    <3>1. I \in SUBSET Nat
      BY <1>1
    <3>2. i \in I
      BY <2>1, <3>1, LeastOf
    <3> QED BY <3>2
  <2> HIDE DEF i, I
  <2>3. /\ e \in Seq(Jobs) /\ Len(e) = Len(table) - 1
        /\ \A n \in 1..(Len(table) - 1) : e[n] = IF n < i THEN table[n] ELSE table[n + 1]
    BY <1>1, <2>2, RemovalFacts
  <2> HIDE DEF e
  <2>4. DOMAIN e = 1..(Len(table) - 1)
    BY <2>3
  <2>5. IsInjective(e)
    <3>1. ASSUME NEW m \in DOMAIN e, NEW n \in DOMAIN e, e[m] = e[n] PROVE m = n
      <4>1. /\ m \in 1..Len(table) /\ m + 1 \in 1..Len(table)
            /\ n \in 1..Len(table) /\ n + 1 \in 1..Len(table)
        BY <1>1, <2>4
      <4>2. \A x \in 1..Len(table), y \in 1..Len(table) : table[x] = table[y] => x = y
        BY <1>1 DEF IsInjective
      <4>3. (IF m < i THEN table[m] ELSE table[m + 1]) = (IF n < i THEN table[n] ELSE table[n + 1])
        BY <2>3, <2>4, <3>1
      <4>4. (IF m < i THEN m ELSE m + 1) = (IF n < i THEN n ELSE n + 1)
        BY <4>1, <4>2, <4>3
      <4>5. m \in Nat /\ n \in Nat /\ i \in Nat
        BY <1>1, <2>2, <4>1
      <4> QED BY <4>4, <4>5
    <3> QED BY <3>1 DEF IsInjective
  <2>6. ToSet(e) \subseteq ToSet(table)
    <3>1. ASSUME NEW n \in DOMAIN e PROVE e[n] \in ToSet(table)
      <4>1. n \in 1..Len(table) /\ n + 1 \in 1..Len(table)
        BY <1>1, <2>4
      <4> QED BY <1>1, <2>3, <2>4, <4>1 DEF ToSet
    <3> QED BY <3>1 DEF ToSet
  <2>7. ASSUME NEW k \in ToSet(table), ~Evictable(k) PROVE k \in ToSet(e)
    <3>1. PICK n \in 1..Len(table) : k = table[n]
      BY <1>1 DEF ToSet
    <3>2. n # i
      BY <2>2, <2>7, <3>1
    <3>3. CASE n < i
      <4>1. n \in DOMAIN e
        BY <1>1, <2>2, <2>4, <3>3
      <4> QED BY <2>3, <2>4, <3>1, <3>3, <4>1 DEF ToSet
    <3>4. CASE n > i
      <4>1. n - 1 \in DOMAIN e /\ ~(n - 1 < i) /\ n - 1 + 1 = n
        BY <1>1, <2>2, <2>4, <3>4
      <4>2. e[n - 1] = table[n]
        BY <2>3, <2>4, <4>1
      <4> QED BY <3>1, <4>1, <4>2 DEF ToSet
    <3> QED BY <1>1, <2>2, <3>2, <3>3, <3>4
  <2> QED BY <2>1, <2>3, <2>5, <2>6, <2>7
<1> QED BY <1>2, <1>3

LEMMA AppendFacts ==
  ASSUME NEW s \in Seq(Jobs), IsInjective(s), NEW j \in Jobs, j \notin ToSet(s)
  PROVE  /\ Append(s, j) \in Seq(Jobs) /\ IsInjective(Append(s, j))
         /\ Len(Append(s, j)) = Len(s) + 1 /\ ToSet(Append(s, j)) = ToSet(s) \cup {j}
<1> DEFINE t == Append(s, j)
<1>1. /\ t \in Seq(Jobs) /\ Len(t) = Len(s) + 1 /\ Len(s) \in Nat
      /\ DOMAIN s = 1..Len(s) /\ DOMAIN t = 1..(Len(s) + 1)
  OBVIOUS
<1>2. t[Len(s) + 1] = j /\ \A n \in 1..Len(s) : t[n] = s[n]
  OBVIOUS
<1> HIDE DEF t
<1>3. \A n \in 1..Len(s) : s[n] \in ToSet(s) /\ s[n] # j
  BY <1>1 DEF ToSet
<1>4. \A n \in 1..(Len(s) + 1) : n \in 1..Len(s) \/ n = Len(s) + 1
  BY <1>1
<1>5. IsInjective(t)
  <2>1. ASSUME NEW m \in DOMAIN t, NEW n \in DOMAIN t, t[m] = t[n] PROVE m = n
    <3>1. \A x, y \in 1..Len(s) : s[x] = s[y] => x = y
      BY <1>1 DEF IsInjective
    <3> QED BY <1>1, <1>2, <1>3, <1>4, <2>1, <3>1
  <2> QED BY <2>1 DEF IsInjective
<1>6. ToSet(t) = ToSet(s) \cup {j}
  <2>1. ToSet(t) \subseteq ToSet(s) \cup {j}
    BY <1>1, <1>2, <1>3, <1>4 DEF ToSet
  <2>2. ToSet(s) \subseteq ToSet(t)
    <3>1. \A n \in DOMAIN s : n \in DOMAIN t /\ s[n] = t[n]
      BY <1>1, <1>2
    <3> QED BY <3>1 DEF ToSet
  <2>3. j \in ToSet(t)
    <3>1. Len(s) + 1 \in DOMAIN t
      BY <1>1
    <3> QED BY <1>2, <3>1 DEF ToSet
  <2> QED BY <2>1, <2>2, <2>3
<1> QED BY <1>1, <1>5, <1>6 DEF t

\* A step that no job takes.
LEMMA JobsKept ==
  ASSUME IInv,
         UNCHANGED <<kind, using, st, at, verdict, slot, proc, result, dir, atlas, loaded, serving>>
  PROVE  JobInv' /\ AtlasInv' /\ ServingTyped'
<1>1. UNCHANGED <<active, activated>>
  BY DEF serving
<1>2. \A k \in Jobs : Same(k)
  BY <1>1 DEF Same
<1>3. JobInv'
  BY <1>2, LocalKept DEF JobInv, IInv, Local
<1>4. Stays
  BY DEF Stays
<1>5. \A k \in Jobs : Made(k)'
  BY <1>2, <1>4, MadeKept DEF IInv, AtlasInv
<1>6. Own(active.atlas, active.by)' /\ active'.by \in activated' \cup {None}
  BY <1>1, <1>4 DEF IInv, AtlasInv, Own, Stays
<1>7. ServingTyped'
  BY <1>1 DEF IInv, TypeOK, ServingTyped
<1> QED BY <1>3, <1>5, <1>6, <1>7 DEF AtlasInv

\* The callers that job k is held for.
Waiters(k) == {c \in Callers : cancel[c] # "idle" /\ target[c] = k}

LEMMA Held ==
  ASSUME IInv, NEW k \in Jobs
  PROVE  retain[k] = Cardinality(Waiters(k)) /\ IsFiniteSet(Waiters(k)) /\ retain[k] \in Nat
<1>1. DOMAIN st = Jobs /\ DOMAIN cancel = Callers /\ retain[k] \in Nat
  BY DEF IInv, TypeOK, RecordsTyped, CallsTyped
<1>2. retain[k] = Cardinality(Waiters(k))
  BY <1>1 DEF IInv, TableInv, RetainBalanced, Waiters
<1>3. IsFiniteSet(Waiters(k))
  BY FinitelyMany, FS_Subset DEF Waiters
<1> QED BY <1>1, <1>2, <1>3

LEMMA PostStep ==
  ASSUME IInv, NEW j \in Jobs, Post(j)
  PROVE  IInv'
<1>1. /\ at[j] = "new" /\ at' = [at EXCEPT ![j] = "posted"]
      /\ UNCHANGED <<st, table, retain, ctx, verdict, slot, proc, result, dir, atlas, loaded,
                     serving, connecting, calls, shutdown>>
  BY DEF Post
<1>2. PICK k \in Kinds :
        /\ kind' = [kind EXCEPT ![j] = k]
        /\ IF k = "github" THEN conn # None /\ using' = [using EXCEPT ![j] = conn]
                           ELSE UNCHANGED using
  BY DEF Post
<1>3. UNCHANGED <<active, activated, generation, number, conn, dead, connectCancel, expired, asking,
                  cancel, target, answer, closed, closing, toCancel, pending, closeFails>>
  BY <1>1 DEF serving, connecting, calls, shutdown
<1>4. at'[j] = "posted" /\ kind'[j] = k /\ k # None /\ k \in {"command", "quickstart", "github"}
  BY <1>1, <1>2, JobFacts, Domains, KindsAssumption, NoneAssumption
<1>5. RecordsTyped' /\ RunningTyped'
  <2>1. conn \in Conns
    BY DEF IInv, TypeOK, ConnectingTyped
  <2>2. using' \in [Jobs -> Conns]
    BY <1>2, <2>1, JobFacts DEF RecordsTyped, Conns
  <2>3. kind' \in [Jobs -> Kinds \cup {None}]
    BY <1>2, JobFacts DEF RecordsTyped
  <2>4. RunningTyped'
    BY <1>1, JobFacts DEF RunningTyped, Places
  <2> QED BY <1>1, <2>2, <2>3, <2>4, JobFacts DEF RecordsTyped, Conns
<1>6. \A i \in Jobs \ {j} : Same(i)
  BY <1>1, <1>2, <1>3, JobFacts, Domains DEF Same
<1>7. Local(j) /\ proc[j] = "none"
  BY <1>1, JobFacts DEF Local, Supervised
<1>8. Local(j)'
  <2>1. dir[j] # "present"
    <3>1. kind[j] = None
      BY <1>1, <1>7 DEF Local, Placed
    <3> QED BY <1>7, <3>1, NoneAssumption DEF Local, Sourced
  <2>2. j \notin activated /\ verdict[j] = "none"
    BY <1>1, <1>7 DEF Local, Reported
  <2>3. Placed(j)' /\ Supervised(j)'
    BY <1>1, <1>4, <1>7 DEF Local, Placed, Supervised, Holding, Terminal, Finished
  <2>4. Reported(j)' /\ Sourced(j)'
    BY <1>1, <1>3, <1>4, <1>7, <2>1, <2>2 DEF Local, Reported, Sourced
  <2> QED BY <2>3, <2>4 DEF Local
<1>9. JobInv'
  BY <1>6, <1>8, LocalKept, JobFacts DEF JobInv, Local
<1>10. AtlasInv'
  <2>1. Stays
    BY <1>1 DEF Stays
  <2>2. Made(j)'
    BY <1>1, <1>4, <1>7 DEF Made, Holding
  <2>3. \A i \in Jobs : Made(i)'
    BY <1>1, <1>6, <2>1, <2>2, MadeKept, JobFacts
  <2>4. active'.by \in activated' \cup {None} /\ Own(active.atlas, active.by)'
    BY <1>3, <2>1, JobFacts DEF AtlasInv, Own, Stays
  <2> QED BY <2>3, <2>4 DEF AtlasInv
<1>11. \A i \in Jobs : at[i] = "over" => at'[i] = "over"
  BY <1>1, JobFacts, Domains
<1>12. TableInv'
  BY <1>1, <1>3, <1>5, <1>11, TableKept DEF IInv, TypeOK
<1>13. CloseInv'
  BY <1>1, CloseKept DEF IInv, TypeOK
<1>14. ConnectionInv'
  <2>1. \A i \in Jobs : kind'[i] # "github" => using'[i] = None
    <3>1. ASSUME kind'[j] # "github" PROVE using'[j] = None
      <4>1. kind[j] = None /\ None # "github"
        BY <1>1, <1>7, NoneAssumption DEF Local, Placed
      <4>2. using' = using
        BY <1>2, <1>4, <3>1
      <4> QED BY <4>1, <4>2 DEF IInv, ConnectionInv
    <3>2. \A i \in Jobs \ {j} : kind'[i] = kind[i] /\ using'[i] = using[i]
      BY <1>2, JobFacts, Domains
    <3> QED BY <3>1, <3>2 DEF IInv, ConnectionInv
  <2> QED BY <1>3, <2>1 DEF IInv, ConnectionInv
<1>15. TableTyped' /\ ConnectingTyped' /\ CallsTyped' /\ ShutdownTyped' /\ ServingTyped'
  BY <1>1, <1>3 DEF IInv, TypeOK, TableTyped, ConnectingTyped, CallsTyped, ShutdownTyped, ServingTyped, Conns
<1> QED BY <1>5, <1>9, <1>10, <1>12, <1>13, <1>14, <1>15 DEF IInv, TypeOK

\* A full table gives up a job that is over and held by nobody, or nothing.
LEMMA CreateStep ==
  ASSUME IInv, NEW j \in Jobs, Create(j)
  PROVE  IInv'
<1>1. /\ at[j] = "posted" /\ ~closed /\ Len(Evicted) < MaxJobs
      /\ table' = Append(Evicted, j) /\ st' = [st EXCEPT ![j] = "queued"] /\ at' = [at EXCEPT ![j] = "queue"]
      /\ UNCHANGED <<kind, using, retain, ctx, verdict, slot, proc, result, dir, atlas, loaded,
                     serving, connecting, calls, shutdown>>
  BY DEF Create, Admissible
<1>2. UNCHANGED <<active, activated, generation, number, conn, dead, connectCancel, expired, asking,
                  cancel, target, answer, closed, closing, toCancel, pending, closeFails>>
  BY <1>1 DEF serving, connecting, calls, shutdown
<1>3. at'[j] = "queue" /\ st'[j] = "queued" /\ st[j] = "none"
  BY <1>1, JobFacts, Domains DEF Local, Placed
<1>4. \A i \in Jobs \ {j} : Same(i) /\ st'[i] = st[i]
  BY <1>1, <1>2, JobFacts, Domains DEF Same
<1>5. RecordsTyped' /\ RunningTyped'
  BY <1>1, JobFacts DEF RecordsTyped, RunningTyped, Places, Conns
<1>6. Local(j)' /\ Made(j)'
  <2>1. Placed(j)' /\ Supervised(j)'
    BY <1>1, <1>3, JobFacts DEF Local, Placed, Supervised, Holding, Terminal, Finished
  <2>2. Reported(j)' /\ Sourced(j)'
    BY <1>1, <1>2, <1>3, JobFacts DEF Local, Reported, Sourced
  <2>3. Made(j)'
    BY <1>1, <1>3, JobFacts DEF Made, Holding, Local, Supervised
  <2> QED BY <2>1, <2>2, <2>3 DEF Local
<1>7. JobInv'
  BY <1>4, <1>6, LocalKept, JobFacts DEF JobInv, Local
<1>8. AtlasInv'
  <2>1. Stays
    BY <1>1 DEF Stays
  <2>2. \A i \in Jobs : Made(i)'
    BY <1>1, <1>4, <1>6, <2>1, MadeKept, JobFacts
  <2>3. active'.by \in activated' \cup {None} /\ Own(active.atlas, active.by)'
    BY <1>2, <2>1, JobFacts DEF AtlasInv, Own, Stays
  <2> QED BY <2>2, <2>3 DEF AtlasInv
<1>9. TableTyped
  BY DEF IInv, TypeOK
<1>10. j \notin ToSet(Evicted)
  BY <1>3, <1>9, EvictedFacts DEF TableTyped
<1>11. /\ table' \in Seq(Jobs) /\ IsInjective(table') /\ Len(table') = Len(Evicted) + 1
       /\ ToSet(table') = ToSet(Evicted) \cup {j}
  BY <1>1, <1>9, <1>10, EvictedFacts, AppendFacts
<1>12. \A k \in ToSet(table) : k \in Jobs /\ st[k] # "none"
  BY <1>9 DEF TableTyped, ToSet
<1>13. TableTyped'
  <2>1. Len(Evicted) \in Nat
    BY <1>9, EvictedFacts
  <2>2. Len(table') <= MaxJobs
    BY <1>1, <1>11, <2>1, TableAssumption
  <2>3. \A k \in ToSet(table') : st'[k] # "none"
    BY <1>3, <1>4, <1>9, <1>11, <1>12, EvictedFacts
  <2> QED BY <1>11, <2>2, <2>3 DEF TableTyped
<1>14. TableInv'
  <2>1. \A k \in ToSet(table) : Evictable(k) \/ k \in ToSet(table')
    BY <1>9, <1>11, EvictedFacts
  <2>2. ASSUME NEW c \in Callers, cancel[c] # "idle" PROVE target[c] \in ToSet(table')
    <3>1. target[c] \in ToSet(table) /\ target[c] \in Jobs
      BY <2>2 DEF IInv, TableInv, HeldInTable, TypeOK, CallsTyped
    <3>2. retain[target[c]] # 0
      <4>1. c \in Waiters(target[c])
        BY <2>2 DEF Waiters
      <4> QED BY <3>1, <4>1, Held, FS_EmptySet
    <3> QED BY <2>1, <3>1, <3>2 DEF Evictable
  <2>3. ASSUME NEW k \in Jobs, st'[k] \in {"queued", "running"} PROVE k \in ToSet(table')
    <3>1. CASE k = j
      BY <1>11, <3>1
    <3>2. CASE k # j
      <4>1. st[k] \in {"queued", "running"} /\ DOMAIN st = Jobs
        BY <1>4, <2>3, <3>2, JobFacts, Domains
      <4>2. k \in ToSet(table) /\ ~Terminal(k)
        BY <4>1 DEF IInv, TableInv, HeldInTable, Terminal, Finished
      <4> QED BY <2>1, <4>2 DEF Evictable
    <3> QED BY <3>1, <3>2
  <2>4. DOMAIN st = Jobs /\ DOMAIN st' = Jobs /\ DOMAIN cancel = Callers
    BY <1>5 DEF IInv, TypeOK, RecordsTyped, CallsTyped
  <2>5. HeldInTable'
    BY <1>2, <2>2, <2>3, <2>4 DEF HeldInTable
  <2>6. RetainBalanced'
    BY <1>1, <1>2, <2>4 DEF IInv, TableInv, RetainBalanced
  <2>7. ASSUME NEW c \in Callers, answer'[c] = "done"
        PROVE  at'[target'[c]] = "over" /\ st'[target'[c]] # "cleanup_failed"
    <3>1. target[c] \in Jobs /\ at[target[c]] = "over" /\ st[target[c]] # "cleanup_failed"
      BY <1>2, <2>7 DEF IInv, TableInv
    <3>2. target[c] # j
      BY <1>1, <3>1
    <3> QED BY <1>2, <1>4, <3>1, <3>2 DEF Same
  <2> QED BY <1>2, <2>5, <2>6, <2>7 DEF IInv, TableInv
<1>15. CloseInv'
  BY <1>1, <1>2 DEF IInv, CloseInv
<1>16. ConnectionInv'
  BY <1>1, <1>2 DEF IInv, ConnectionInv
<1>17. ConnectingTyped' /\ CallsTyped' /\ ShutdownTyped' /\ ServingTyped'
  BY <1>2 DEF IInv, TypeOK, ConnectingTyped, CallsTyped, ShutdownTyped, ServingTyped, Conns
<1> QED BY <1>5, <1>7, <1>8, <1>13, <1>14, <1>15, <1>16, <1>17 DEF IInv, TypeOK

-----------------------------------------------------------------------------
(***************************************************************************)
(* Contexts and cancellations.                                             *)
(***************************************************************************)
\* A step that changes contexts, and what the callers or Close do.
LEMMA ContextMoves ==
  ASSUME IInv, UNCHANGED <<kind, using, st, table, at, verdict, slot, proc, result, dir, atlas, loaded,
                           serving, connecting>>, closed' = closed,
         ctx' \in [Jobs -> {"live", "canceled", "timed_out"}],
         retain' \in [Jobs -> Nat], CallsTyped', ShutdownTyped', TableInv', CloseInv'
  PROVE  IInv'
<1>1. JobInv' /\ AtlasInv' /\ ServingTyped'
  BY JobsKept
<1>2. RecordsTyped' /\ TableTyped'
  BY DEF IInv, TypeOK, RecordsTyped, TableTyped, Conns
<1>3. RunningTyped'
  BY JobFacts DEF IInv, TypeOK, RunningTyped
<1>4. ConnectingTyped'
  BY DEF IInv, TypeOK, ConnectingTyped, Conns, connecting
<1>5. ConnectionInv'
  BY DEF IInv, ConnectionInv, connecting
<1> QED BY <1>1, <1>2, <1>3, <1>4, <1>5 DEF IInv, TypeOK

LEMMA CanceledTyped ==
  ASSUME IInv, NEW S
  PROVE  CtxCanceled(S) \in [Jobs -> {"live", "canceled", "timed_out"}]
BY DEF IInv, TypeOK, RunningTyped, CtxCanceled

LEMMA EndStep ==
  ASSUME IInv, NEW j \in Jobs, Deadline(j) \/ SourceCanceled(j)
  PROVE  IInv'
<1>1. ctx' \in [Jobs -> {"live", "canceled", "timed_out"}]
  <2>1. CASE Deadline(j)
    BY <2>1 DEF Deadline, IInv, TypeOK, RunningTyped
  <2>2. CASE SourceCanceled(j)
    BY <2>2, CanceledTyped DEF SourceCanceled
  <2> QED BY <2>1, <2>2
<1>2. UNCHANGED <<records, running, serving, connecting, calls, shutdown>>
  BY DEF Deadline, SourceCanceled
<1>3. UNCHANGED <<kind, using, st, table, retain, at, verdict, slot, proc, result, dir, atlas, loaded>>
  BY <1>2 DEF records, running
<1>4. CallsTyped' /\ ShutdownTyped'
  BY <1>2 DEF IInv, TypeOK, CallsTyped, ShutdownTyped, calls, shutdown
<1>5. TableInv'
  BY <1>2, <1>3 DEF IInv, TableInv, HeldInTable, RetainBalanced, calls
<1>6. CloseInv'
  BY <1>2, <1>3 DEF IInv, CloseInv, shutdown
<1>7. retain' \in [Jobs -> Nat]
  BY <1>3 DEF IInv, TypeOK, RecordsTyped
<1> QED BY <1>1, <1>2, <1>3, <1>4, <1>5, <1>6, <1>7, ContextMoves DEF shutdown

\* A step of caller c alone, which may count on a job or let go of it.
LEMMA CallMoves ==
  ASSUME IInv, NEW c \in Callers, NEW j \in Jobs,
         UNCHANGED <<kind, using, st, table, at, verdict, slot, proc, result, dir, atlas, loaded,
                     serving, connecting, shutdown>>,
         ctx' \in [Jobs -> {"live", "canceled", "timed_out"}], retain' \in [Jobs -> Nat], CallsTyped',
         \A b \in Callers \ {c} : cancel'[b] = cancel[b] /\ target'[b] = target[b] /\ answer'[b] = answer[b],
         \A k \in Jobs \ {j} : retain'[k] = retain[k], target'[c] = j,
         cancel[c] # "idle" => target[c] = j,
         retain'[j] = retain[j] + (IF cancel[c] = "idle" /\ cancel'[c] # "idle" THEN 1
                                   ELSE IF cancel[c] # "idle" /\ cancel'[c] = "idle" THEN -1 ELSE 0),
         cancel'[c] # "idle" => j \in ToSet(table),
         answer'[c] = "done" => at[j] = "over" /\ st[j] # "cleanup_failed"
  PROVE  IInv'
<1>1. /\ DOMAIN st = Jobs /\ DOMAIN cancel = Callers /\ DOMAIN cancel' = Callers /\ st' = st /\ table' = table
  BY DEF IInv, TypeOK, RecordsTyped, CallsTyped
<1>2. HeldInTable'
  <2>1. \A b \in Callers : cancel[b] # "idle" => target[b] \in ToSet(table)
    BY <1>1 DEF IInv, TableInv, HeldInTable
  <2>2. \A b \in Callers : cancel'[b] # "idle" => target'[b] \in ToSet(table)
    BY <2>1
  <2>3. \A k \in Jobs : st[k] \in {"queued", "running"} => k \in ToSet(table)
    BY <1>1 DEF IInv, TableInv, HeldInTable
  <2> QED BY <1>1, <2>2, <2>3 DEF HeldInTable
<1>3. ASSUME NEW k \in Jobs
      PROVE  retain'[k] = Cardinality({b \in Callers : cancel'[b] # "idle" /\ target'[b] = k})
  <2> DEFINE W == {b \in Callers : cancel'[b] # "idle" /\ target'[b] = k}
  <2>1. retain[k] = Cardinality(Waiters(k)) /\ IsFiniteSet(Waiters(k)) /\ retain[k] \in Nat
    BY Held
  <2>2. CASE k # j
    <3>1. W = Waiters(k)
      BY <2>2 DEF Waiters
    <3> QED BY <2>1, <2>2, <3>1
  <2>3. CASE k = j /\ cancel[c] = "idle" /\ cancel'[c] # "idle"
    <3>1. W = Waiters(k) \cup {c} /\ c \notin Waiters(k)
      BY <2>3 DEF Waiters
    <3>2. Cardinality(W) = retain[k] + 1
      <4>1. Cardinality(Waiters(k) \cup {c}) = Cardinality(Waiters(k)) + 1
        BY <2>1, <3>1, FS_AddElement
      <4>2. Cardinality(W) = Cardinality(Waiters(k) \cup {c})
        BY <3>1
      <4> QED BY <2>1, <4>1, <4>2
    <3>3. retain'[k] = retain[k] + 1
      BY <2>3
    <3> QED BY <3>2, <3>3
  <2>4. CASE k = j /\ cancel[c] # "idle" /\ cancel'[c] = "idle"
    <3>1. W = Waiters(k) \ {c} /\ c \in Waiters(k)
      BY <2>4 DEF Waiters
    <3>2. Cardinality(W) = retain[k] - 1
      BY <2>1, <3>1, FS_RemoveElement
    <3> QED BY <2>1, <2>4, <3>2
  <2>5. CASE k = j /\ (cancel[c] = "idle" <=> cancel'[c] = "idle")
    <3>1. W = Waiters(k)
      BY <2>5 DEF Waiters
    <3>2. retain'[k] = retain[k]
      BY <2>1, <2>5
    <3>3. Cardinality(W) = Cardinality(Waiters(k))
      BY <3>1
    <3> QED BY <2>1, <3>2, <3>3
  <2> QED BY <2>2, <2>3, <2>4, <2>5
<1>4. RetainBalanced'
  BY <1>1, <1>3 DEF RetainBalanced
<1>5. \A b \in Callers : cancel'[b] # "idle" \/ answer'[b] # "none" => target'[b] \in Jobs
  BY DEF IInv, TableInv
<1>6. \A b \in Callers : answer'[b] = "done" => at[target'[b]] = "over" /\ st[target'[b]] # "cleanup_failed"
  BY DEF IInv, TableInv
<1>7. TableInv'
  BY <1>1, <1>2, <1>4, <1>5, <1>6 DEF TableInv
<1>8. CloseInv'
  BY DEF IInv, CloseInv, shutdown
<1>9. ShutdownTyped' /\ closed' = closed
  BY DEF IInv, TypeOK, ShutdownTyped, shutdown
<1> QED BY <1>7, <1>8, <1>9, ContextMoves

\* A job is reported as over when its work is, and answered for as it is reported.
LEMMA ToldTruly ==
  ASSUME IInv, NEW j \in Jobs, Terminal(j), Told(j) = "done"
  PROVE  at[j] = "over" /\ st[j] # "cleanup_failed"
BY JobFacts DEF Local, Placed, Told

LEMMA CancelJobStep ==
  ASSUME IInv, NEW c \in Callers, NEW j \in Jobs, CancelJob(c, j)
  PROVE  IInv'
<1>1. /\ cancel[c] = "idle" /\ target' = [target EXCEPT ![c] = j]
      /\ UNCHANGED <<kind, using, st, table, ctx, running, serving, connecting, shutdown>>
  BY DEF CancelJob
<1>2. UNCHANGED <<at, verdict, slot, proc, result, dir, atlas, loaded>>
  BY <1>1 DEF running
<1>3. CallsTyped /\ RecordsTyped /\ ctx' \in [Jobs -> {"live", "canceled", "timed_out"}]
  BY <1>1 DEF IInv, TypeOK, RunningTyped
<1>4. target'[c] = j /\ \A b \in Callers \ {c} : target'[b] = target[b]
  BY <1>1, <1>3 DEF CallsTyped
<1>5. retain[j] \in Nat
  BY <1>3 DEF RecordsTyped
<1>6. CASE \E what \in {"missing", "done", "unproven"} :
             /\ what = "done" => Terminal(j) /\ Told(j) = "done"
             /\ Answer(c, what) /\ UNCHANGED retain
  <2>1. PICK what \in {"missing", "done", "unproven"} :
               /\ what = "done" => Terminal(j) /\ Told(j) = "done"
               /\ cancel' = [cancel EXCEPT ![c] = "idle"] /\ answer' = [answer EXCEPT ![c] = what]
               /\ UNCHANGED retain
    BY <1>6 DEF Answer
  <2>2. /\ CallsTyped' /\ cancel'[c] = "idle" /\ answer'[c] = what
        /\ \A b \in Callers \ {c} : cancel'[b] = cancel[b] /\ answer'[b] = answer[b]
    BY <1>1, <1>3, <2>1 DEF CallsTyped
  <2>3. retain' \in [Jobs -> Nat] /\ \A k \in Jobs : retain'[k] = retain[k]
    BY <1>3, <2>1 DEF RecordsTyped
  <2>4. answer'[c] = "done" => at[j] = "over" /\ st[j] # "cleanup_failed"
    BY <2>1, <2>2, ToldTruly
  <2>5. retain'[j] = retain[j] + 0
    BY <1>5, <2>3
  <2> QED BY <1>1, <1>2, <1>3, <1>4, <2>2, <2>3, <2>4, <2>5, CallMoves
<1>7. CASE /\ j \in ToSet(table)
           /\ retain' = [retain EXCEPT ![j] = @ + 1]
           /\ cancel' = [cancel EXCEPT ![c] = "fire"] /\ answer' = [answer EXCEPT ![c] = "none"]
  <2>1. /\ CallsTyped' /\ cancel'[c] = "fire" /\ answer'[c] = "none"
        /\ \A b \in Callers \ {c} : cancel'[b] = cancel[b] /\ answer'[b] = answer[b]
    BY <1>1, <1>3, <1>7 DEF CallsTyped
  <2>2. /\ retain' \in [Jobs -> Nat] /\ retain'[j] = retain[j] + 1
        /\ \A k \in Jobs \ {j} : retain'[k] = retain[k]
    BY <1>3, <1>7 DEF RecordsTyped
  <2> QED BY <1>1, <1>2, <1>3, <1>4, <1>7, <2>1, <2>2, CallMoves
<1>8. Told(j) \in {"done", "unproven"}
  BY DEF Told
<1> QED BY <1>6, <1>7, <1>8 DEF CancelJob

LEMMA FireStep ==
  ASSUME IInv, NEW c \in Callers, Fire(c)
  PROVE  IInv'
<1>1. /\ cancel[c] = "fire" /\ ctx' = CtxCanceled({target[c]}) /\ cancel' = [cancel EXCEPT ![c] = "await"]
      /\ UNCHANGED <<records, running, serving, connecting, target, answer, shutdown>>
  BY DEF Fire
<1>2. UNCHANGED <<kind, using, st, table, retain, at, verdict, slot, proc, result, dir, atlas, loaded>>
  BY <1>1 DEF records, running
<1>3. DOMAIN st = Jobs /\ DOMAIN cancel = Callers /\ CallsTyped /\ RecordsTyped
  BY DEF IInv, TypeOK, RecordsTyped, CallsTyped
<1>4. target[c] \in Jobs /\ target[c] \in ToSet(table)
  BY <1>1, <1>3 DEF IInv, TableInv, HeldInTable
<1>5. /\ CallsTyped' /\ cancel'[c] = "await" /\ \A b \in Callers \ {c} : cancel'[b] = cancel[b]
  BY <1>1, <1>3 DEF CallsTyped
<1>6. ctx' \in [Jobs -> {"live", "canceled", "timed_out"}]
  BY <1>1, CanceledTyped
<1>7. retain' \in [Jobs -> Nat] /\ retain'[target[c]] = retain[target[c]] + 0
  BY <1>2, <1>3, <1>4 DEF RecordsTyped
<1>8. answer[c] = "done" => at[target[c]] = "over" /\ st[target[c]] # "cleanup_failed"
  BY DEF IInv, TableInv
<1> QED BY <1>1, <1>2, <1>4, <1>5, <1>6, <1>7, <1>8, CallMoves

LEMMA AwaitStep ==
  ASSUME IInv, NEW c \in Callers, Await(c) \/ AwaitTooLong(c)
  PROVE  IInv'
<1> DEFINE j == target[c]
<1>1. cancel[c] = "await" /\ UNCHANGED <<kind, using, st, table, ctx, running, serving, connecting, target, shutdown>>
  BY DEF Await, AwaitTooLong
<1>2. UNCHANGED <<at, verdict, slot, proc, result, dir, atlas, loaded>>
  BY <1>1 DEF running
<1>3. /\ DOMAIN st = Jobs /\ DOMAIN cancel = Callers /\ CallsTyped /\ RecordsTyped
      /\ ctx' \in [Jobs -> {"live", "canceled", "timed_out"}]
  BY <1>1 DEF IInv, TypeOK, RecordsTyped, CallsTyped, RunningTyped
<1>4. j \in Jobs /\ j \in ToSet(table)
  BY <1>1, <1>3 DEF IInv, TableInv, HeldInTable
<1>5. retain[j] \in Nat /\ retain[j] > 0
  <2>1. c \in Waiters(j)
    BY <1>1 DEF Waiters
  <2> QED BY <1>4, <2>1, Held, FS_EmptySet
<1>6. PICK what \in {"done", "unproven"} :
        /\ what = "done" => Terminal(j) /\ Told(j) = "done"
        /\ cancel' = [cancel EXCEPT ![c] = "idle"] /\ answer' = [answer EXCEPT ![c] = what]
        /\ retain' = [retain EXCEPT ![j] = @ - 1]
  <2>1. CASE Await(c)
    <3>1. Told(j) \in {"done", "unproven"}
      BY DEF Told
    <3> QED BY <1>4, <2>1, <3>1 DEF Await, Answer
  <2>2. CASE AwaitTooLong(c)
    BY <1>3, <1>4, <1>5, <2>2 DEF AwaitTooLong, Answer, RecordsTyped
  <2> QED BY <2>1, <2>2
<1>7. /\ CallsTyped' /\ cancel'[c] = "idle" /\ answer'[c] = what
      /\ \A b \in Callers \ {c} : cancel'[b] = cancel[b] /\ answer'[b] = answer[b]
  BY <1>1, <1>3, <1>6 DEF CallsTyped
<1>8. /\ retain' \in [Jobs -> Nat] /\ retain'[j] = retain[j] - 1 /\ retain[j] - 1 = retain[j] + (-1)
      /\ \A k \in Jobs \ {j} : retain'[k] = retain[k]
  BY <1>3, <1>4, <1>5, <1>6 DEF RecordsTyped
<1>9. answer'[c] = "done" => at[j] = "over" /\ st[j] # "cleanup_failed"
  BY <1>4, <1>6, <1>7, ToldTruly
<1> HIDE DEF j
<1>10. target'[c] = j /\ target[c] = j
  BY <1>1 DEF j
<1> QED BY <1>1, <1>2, <1>3, <1>4, <1>7, <1>8, <1>9, <1>10, CallMoves

-----------------------------------------------------------------------------
(***************************************************************************)
(* Connections and Close.                                                  *)
(***************************************************************************)
\* A step of a request, or of Close.
LEMMA SessionMoves ==
  ASSUME IInv, UNCHANGED <<records, ctx, running, serving, calls>>,
         ConnectingTyped', ShutdownTyped', ConnectionInv', CloseInv'
  PROVE  IInv'
<1>1. UNCHANGED <<kind, using, st, table, retain, at, verdict, slot, proc, result, dir, atlas, loaded>>
  BY DEF records, running
<1>2. JobInv' /\ AtlasInv' /\ ServingTyped'
  BY <1>1, JobsKept
<1>3. RecordsTyped' /\ TableTyped' /\ RunningTyped' /\ CallsTyped'
  BY <1>1 DEF IInv, TypeOK, RecordsTyped, TableTyped, RunningTyped, CallsTyped, calls, Conns
<1>4. TableInv'
  BY <1>1 DEF IInv, TableInv, HeldInTable, RetainBalanced, calls
<1> QED BY <1>2, <1>3, <1>4 DEF IInv, TypeOK

\* What the invariant says of the requests.
LEMMA SessionFacts ==
  ASSUME IInv
  PROVE  /\ ConnectingTyped /\ ShutdownTyped /\ ConnectionInv /\ CloseInv /\ Superseded \subseteq Requests
         /\ DOMAIN number = Requests \cup {"public"} /\ DOMAIN asking = Requests
         /\ generation \in Nat /\ \A r \in Requests \cup {"public"} : number[r] \in 0..generation
<1>1. ConnectingTyped /\ ShutdownTyped /\ ConnectionInv /\ CloseInv
  BY DEF IInv, TypeOK
<1>2. Superseded \subseteq Requests
  BY <1>1 DEF ConnectingTyped, Superseded
<1>3. Cardinality(Requests) \in Nat
  BY FinitelyMany, FS_CardinalityType
<1> QED BY <1>1, <1>2, <1>3 DEF ConnectingTyped

\* The requests that have been admitted.
Asked == {r \in Requests : asking[r] # "new"}

LEMMA ConnectStep ==
  ASSUME IInv, NEW r \in Requests, Connect(r)
  PROVE  IInv'
<1>1. /\ asking[r] = "new" /\ expired' = Superseded
      /\ generation' = generation + 1 /\ number' = [number EXCEPT ![r] = generation + 1]
      /\ UNCHANGED <<conn, dead, records, ctx, running, serving, calls, shutdown>>
  BY DEF Connect
<1>2. PICK how \in {"user", "denied"} :
        asking' = [asking EXCEPT ![r] = how] /\ connectCancel' \in Requests \cup {None}
  BY SessionFacts DEF Connect, ConnectingTyped
<1>3. /\ asking'[r] = how /\ \A q \in Requests \ {r} : asking'[q] = asking[q]
      /\ number'[r] = generation + 1 /\ \A q \in (Requests \cup {"public"}) \ {r} : number'[q] = number[q]
      /\ r # "public"
  BY <1>1, <1>2, SessionFacts, NoneAssumption
<1>4. generation = Cardinality(Asked) /\ IsFiniteSet(Asked) /\ r \notin Asked
  BY <1>1, SessionFacts, FinitelyMany, FS_Subset DEF ConnectionInv, Asked
<1>5. {q \in Requests : asking'[q] # "new"} = Asked \cup {r}
  BY <1>3 DEF Asked
<1>6. Cardinality(Asked \cup {r}) = generation + 1
  BY <1>4, FS_AddElement
<1>7. Cardinality(Asked \cup {r}) <= Cardinality(Requests) /\ Cardinality(Requests) \in Nat
  <2>1. Asked \cup {r} \in SUBSET Requests
    BY DEF Asked
  <2> QED BY <2>1, FinitelyMany, FS_Subset, FS_CardinalityType
<1>8. generation' \in 0..Cardinality(Requests)
  BY <1>1, <1>6, <1>7, SessionFacts
<1>9. \A q \in Requests \cup {"public"} : number'[q] \in 0..generation'
  <2>1. ASSUME NEW q \in Requests \cup {"public"} PROVE number'[q] \in 0..(generation + 1)
    <3>1. CASE q = r
      BY <1>3, <3>1, SessionFacts
    <3>2. CASE q # r
      <4>1. number'[q] = number[q] /\ number[q] \in 0..generation /\ generation \in Nat
        BY <1>3, <3>2, SessionFacts
      <4> QED BY <4>1
    <3> QED BY <3>1, <3>2
  <2> QED BY <1>1, <2>1
<1>10. ConnectingTyped'
  <2>1. number' \in [Requests \cup {"public"} -> 0..generation']
    <3>1. number' = [q \in Requests \cup {"public"} |-> number'[q]]
      BY <1>1, SessionFacts DEF ConnectingTyped
    <3> QED BY <1>9, <3>1
  <2>2. asking' \in [Requests -> {"new", "user", "install", "installed", "denied", "done", "refused"}]
    BY <1>2, SessionFacts DEF ConnectingTyped
  <2>3. expired' \subseteq Requests /\ conn' \in Conns /\ dead' \subseteq Conns'
    BY <1>1, SessionFacts DEF ConnectingTyped, Conns
  <2> QED BY <1>2, <1>8, <2>1, <2>2, <2>3 DEF ConnectingTyped, Conns
<1>11. ConnectionInv'
  <2>1. \A q \in Requests : asking'[q] = "new" <=> number'[q] = 0
    <3>1. number'[r] # 0 /\ asking'[r] # "new"
      BY <1>3, SessionFacts
    <3> QED BY <1>3, <3>1, SessionFacts DEF ConnectionInv
  <2>2. ASSUME NEW q \in Requests, NEW p \in Requests, number'[q] = number'[p], number'[q] # 0
        PROVE  q = p
    <3>1. \A x \in Requests \ {r} : number'[x] = number[x] /\ number[x] <= generation /\ number[x] \in Nat
      BY <1>3, SessionFacts
    <3>2. \A x \in Requests \ {r} : number'[x] # number'[r]
      BY <1>3, <3>1, SessionFacts
    <3>3. CASE q = r \/ p = r
      BY <2>2, <3>2, <3>3
    <3>4. CASE q # r /\ p # r
      BY <2>2, <3>1, <3>4, SessionFacts DEF ConnectionInv
    <3> QED BY <3>3, <3>4
  <2>3. generation' = Cardinality({q \in Requests : asking'[q] # "new"})
    BY <1>1, <1>5, <1>6
  <2>4. number'["public"] = 0
    BY <1>3, SessionFacts DEF ConnectionInv
  <2>5. conn' \in Requests => asking'[conn'] \in {"installed", "done"}
    BY <1>1, <1>3, SessionFacts DEF ConnectionInv
  <2>6. /\ conn' = None <=> closed'
        /\ None \notin dead' /\ \A j \in Jobs : kind'[j] # "github" => using'[j] = None
    BY <1>1, SessionFacts DEF ConnectionInv, records, shutdown
  <2> QED BY <2>1, <2>2, <2>3, <2>4, <2>5, <2>6 DEF ConnectionInv
<1>12. CloseInv' /\ ShutdownTyped'
  BY <1>1, SessionFacts DEF CloseInv, ShutdownTyped, records, shutdown
<1> QED BY <1>1, <1>10, <1>11, <1>12, SessionMoves

\* The steps of a request that has been admitted.
LEMMA RequestStep ==
  ASSUME IInv, NEW r \in Requests, Expire(r) \/ LookUp(r) \/ Install(r) \/ ResetCancel(r)
  PROVE  IInv'
<1>1. /\ asking[r] \in {"user", "install", "installed", "denied"}
      /\ UNCHANGED <<generation, number, records, ctx, running, serving, calls, shutdown>>
  BY DEF Expire, LookUp, Install, ResetCancel
<1>2. /\ asking' \in [Requests -> {"new", "user", "install", "installed", "denied", "done", "refused"}]
      /\ \A q \in Requests \ {r} : asking'[q] = asking[q]
      /\ asking'[r] \in {"user", "install", "installed", "denied", "refused", "done"}
      /\ asking[r] = "installed" => asking'[r] = "done"
      /\ connectCancel' \in Requests \cup {None} /\ expired' \subseteq Requests
  <2>1. CASE Expire(r)
    BY <1>1, <2>1, SessionFacts DEF Expire, ConnectingTyped
  <2>2. CASE LookUp(r)
    BY <2>2, SessionFacts DEF LookUp, ConnectingTyped
  <2>3. CASE Install(r)
    BY <2>3, SessionFacts DEF Install, ConnectingTyped
  <2>4. CASE ResetCancel(r)
    BY <2>4, SessionFacts DEF ResetCancel, ConnectingTyped
  <2> QED BY <2>1, <2>2, <2>3, <2>4
<1>3. \/ conn' = conn /\ dead' = dead
      \/ ~closed /\ dead' = dead \cup {conn} /\ conn' = r /\ asking'[r] = "installed"
  BY SessionFacts DEF Expire, LookUp, Install, Current, ResetCancel
<1>4. conn \in Conns /\ dead \subseteq Conns
  BY SessionFacts DEF ConnectingTyped
<1>5. ConnectingTyped'
  <2>1. conn' \in Conns /\ dead' \subseteq Conns
    BY <1>3, <1>4 DEF Conns
  <2> QED BY <1>1, <1>2, <2>1, SessionFacts DEF ConnectingTyped, Conns
<1>6. {q \in Requests : asking'[q] # "new"} = {q \in Requests : asking[q] # "new"}
  BY <1>1, <1>2
<1>7. UNCHANGED <<kind, using, closed>>
  BY <1>1 DEF records, shutdown
<1>8. ConnectionInv'
  <2>1. \A q \in Requests : asking'[q] = "new" <=> number'[q] = 0
    BY <1>1, <1>2, SessionFacts DEF ConnectionInv
  <2>2. conn' = None <=> closed'
    BY <1>3, <1>7, SessionFacts, NoneAssumption DEF ConnectionInv
  <2>3. None \notin dead'
    BY <1>3, SessionFacts DEF ConnectionInv
  <2>4. conn' \in Requests => asking'[conn'] \in {"installed", "done"}
    BY <1>1, <1>2, <1>3, SessionFacts DEF ConnectionInv
  <2>5. /\ number'["public"] = 0 /\ \A q, p \in Requests : number'[q] = number'[p] /\ number'[q] # 0 => q = p
        /\ \A j \in Jobs : kind'[j] # "github" => using'[j] = None
    BY <1>1, <1>7, SessionFacts DEF ConnectionInv
  <2>6. generation' = Cardinality({q \in Requests : asking'[q] # "new"})
    BY <1>1, <1>6, SessionFacts DEF ConnectionInv
  <2> QED BY <2>1, <2>2, <2>3, <2>4, <2>5, <2>6 DEF ConnectionInv
<1>9. CloseInv' /\ ShutdownTyped'
  BY <1>1, SessionFacts DEF CloseInv, ShutdownTyped, records, shutdown
<1> QED BY <1>1, <1>5, <1>8, <1>9, SessionMoves

\* Every job in the table that is not over is waited for.
LEMMA CloseStep ==
  ASSUME IInv, Close
  PROVE  IInv'
<1>1. /\ closing = "open" /\ closed' = TRUE /\ expired' = Superseded /\ connectCancel' = None
      /\ dead' = dead \cup {conn} /\ conn' = None /\ toCancel' = Active /\ pending' = Active
      /\ closeFails' = (\E j \in ToSet(table) : st[j] = "cleanup_failed") /\ closing' = "cancel"
      /\ UNCHANGED <<generation, number, asking, records, ctx, running, serving, calls>>
  BY DEF Close
<1>2. UNCHANGED <<kind, using, st, table>>
  BY <1>1 DEF records
<1>3. ToSet(table) \subseteq Jobs /\ DOMAIN st = Jobs
  BY DEF IInv, TypeOK, TableTyped, ToSet, RecordsTyped
<1>4. Active \subseteq Jobs
  BY <1>3 DEF Active
<1>5. ShutdownTyped'
  BY <1>1, <1>4 DEF ShutdownTyped
<1>6. ConnectingTyped'
  BY <1>1, SessionFacts DEF ConnectingTyped, Conns
<1>7. conn # None
  BY <1>1, SessionFacts DEF ConnectionInv, CloseInv
<1>8. ConnectionInv'
  <2>1. conn' \notin Requests
    BY <1>1, NoneAssumption
  <2> QED BY <1>1, <1>2, <1>7, <2>1, SessionFacts DEF ConnectionInv
<1>9. CloseInv'
  <2>1. \A j \in Jobs : st[j] \in {"queued", "running"} => j \in Active
    BY <1>3 DEF IInv, TableInv, HeldInTable, Active, Terminal, Finished
  <2> QED BY <1>1, <1>2, <2>1 DEF CloseInv
<1> QED BY <1>1, <1>5, <1>6, <1>8, <1>9, SessionMoves

LEMMA ClosingStep ==
  ASSUME IInv, CloseCancel \/ CloseWait \/ CloseTooLong
  PROVE  IInv'
<1>1. /\ closing \in {"cancel", "wait"} /\ closing' \in {"cancel", "wait", "ok", "unproven"}
      /\ UNCHANGED <<closed, records, running, serving, connecting, calls>>
  BY DEF CloseCancel, CloseWait, CloseTooLong
<1>2. UNCHANGED <<kind, using, st, table, retain, at, verdict, slot, proc, result, dir, atlas, loaded>>
  BY <1>1 DEF records, running
<1>3. ctx' \in [Jobs -> {"live", "canceled", "timed_out"}]
  <2>1. ctx \in [Jobs -> {"live", "canceled", "timed_out"}]
    BY DEF IInv, TypeOK, RunningTyped
  <2> QED BY <2>1, CanceledTyped DEF CloseCancel, CloseWait, CloseTooLong
<1>4. ShutdownTyped /\ CloseInv /\ CallsTyped'
  BY <1>1 DEF IInv, TypeOK, CallsTyped, calls
<1>5. ShutdownTyped' /\ closed' = closed
  <2>1. CASE CloseCancel
    BY <1>4, <2>1 DEF ShutdownTyped, CloseCancel
  <2>2. CASE CloseWait
    <3>1. closeFails' \in BOOLEAN
      BY <1>4, <2>2 DEF ShutdownTyped, CloseWait
    <3> QED BY <1>4, <2>2, <3>1 DEF ShutdownTyped, CloseWait
  <2>3. CASE CloseTooLong
    BY <1>4, <2>3 DEF ShutdownTyped, CloseTooLong
  <2> QED BY <2>1, <2>2, <2>3
<1>6. CloseInv'
  <2>1. CASE CloseCancel \/ CloseTooLong
    <3>1. /\ UNCHANGED <<pending, closeFails>> /\ closed' = closed
          /\ closing' = "unproven" \/ (closing = "cancel" /\ closing' \in {"cancel", "wait"})
      BY <1>1, <2>1 DEF CloseCancel, CloseTooLong
    <3>2. CASE closing' = "unproven"
      BY <1>1, <1>4, <3>1, <3>2 DEF CloseInv
    <3>3. CASE closing = "cancel" /\ closing' \in {"cancel", "wait"}
      BY <1>1, <1>2, <1>4, <3>1, <3>3 DEF CloseInv
    <3> QED BY <3>1, <3>2, <3>3
  <2>2. CASE CloseWait
    <3>1. CASE \E j \in pending :
                 /\ Terminal(j) /\ pending' = pending \ {j}
                 /\ closeFails' = (closeFails \/ j \notin ToSet(table) \/ st[j] = "cleanup_failed")
                 /\ UNCHANGED closing
      <4>1. PICK j \in pending :
                 /\ Terminal(j) /\ pending' = pending \ {j}
                 /\ closeFails' = (closeFails \/ j \notin ToSet(table) \/ st[j] = "cleanup_failed")
                 /\ closing' = closing
        BY <3>1
      <4>2. \A k \in Jobs : st[k] \in {"queued", "running"} => k # j
        BY <4>1 DEF Terminal, Finished
      <4>3. \A k \in Jobs : st[k] \in {"queued", "running"} => k \in pending'
        BY <1>1, <1>4, <4>1, <4>2 DEF CloseInv
      <4>4. \A k \in ToSet(table) : k \in pending' \/ closeFails' \/ st[k] # "cleanup_failed"
        BY <1>1, <1>4, <4>1 DEF CloseInv
      <4>5. closed' /\ closing' = "wait"
        BY <1>1, <1>4, <2>2, <4>1 DEF CloseInv, CloseWait
      <4> QED BY <1>2, <4>3, <4>4, <4>5 DEF CloseInv
    <3>2. CASE /\ pending = {} /\ closing' = (IF closeFails THEN "unproven" ELSE "ok")
               /\ UNCHANGED <<pending, closeFails>>
      BY <1>1, <1>2, <1>4, <3>2 DEF CloseInv
    <3> QED BY <2>2, <3>1, <3>2 DEF CloseWait
  <2> QED BY <2>1, <2>2
<1>7. TableInv'
  BY <1>1, <1>2 DEF IInv, TableInv, HeldInTable, RetainBalanced, calls
<1>8. retain' \in [Jobs -> Nat]
  BY <1>2 DEF IInv, TypeOK, RecordsTyped
<1> QED BY <1>1, <1>2, <1>3, <1>4, <1>5, <1>6, <1>7, <1>8, ContextMoves

-----------------------------------------------------------------------------
LEMMA WriteOrExitStep ==
  ASSUME IInv, NEW j \in Jobs, Write(j) \/ Exit(j)
  PROVE  IInv'
BY WriteStep, ExitStep

LEMMA WorkStep ==
  ASSUME IInv, NEW j \in Jobs, Work(j)
  PROVE  IInv'
<1>1. CASE Create(j) \/ Refuse(j) \/ GiveUp(j) \/ TakeSlot(j) \/ Admit(j) \/ Start(j)
  BY <1>1, CreateStep, RefuseStep, GiveUpStep, TakeSlotStep, AdmitStep, StartStep
<1>2. CASE Completed(j) \/ Interrupted(j) \/ Terminate(j) \/ Verify(j) \/ CompileFolder(j)
  BY <1>2, WaitStep, TerminateStep, VerifyStep, CompileFolderStep
<1>3. CASE MakeSource(j) \/ Fetch(j) \/ CompileGitHub(j) \/ CleanSource(j)
  BY <1>3, MakeSourceStep, GitHubStep, CleanSourceStep
<1>4. CASE LoadAtlas(j) \/ Activate(j) \/ ReleaseSlot(j) \/ Finish(j)
  BY <1>4, LoadAtlasStep, ActivateStep, ReleaseSlotStep, FinishStep
<1> QED BY <1>1, <1>2, <1>3, <1>4 DEF Work

LEMMA StandStill ==
  ASSUME IInv, UNCHANGED vars
  PROVE  IInv'
<1>1. UNCHANGED <<records, ctx, running, serving, connecting, calls, shutdown>>
  BY DEF vars
<1>2. ConnectingTyped' /\ ShutdownTyped'
  BY <1>1 DEF IInv, TypeOK, ConnectingTyped, ShutdownTyped, connecting, shutdown, Conns
<1>3. ConnectionInv' /\ CloseInv'
  BY <1>1 DEF IInv, ConnectionInv, CloseInv, connecting, shutdown, records
<1> QED BY <1>1, <1>2, <1>3, SessionMoves

LEMMA NextInv == IInv /\ [Next]_vars => IInv'
<1> SUFFICES ASSUME IInv, [Next]_vars PROVE IInv'
  OBVIOUS
<1>1. CASE UNCHANGED vars
  BY <1>1, StandStill
<1>2. CASE \E j \in Jobs : Post(j) \/ Work(j) \/ Deadline(j) \/ SourceCanceled(j) \/ Write(j) \/ Exit(j)
  BY <1>2, PostStep, WorkStep, EndStep, WriteOrExitStep
<1>3. CASE \E c \in Callers : Fire(c) \/ Await(c) \/ AwaitTooLong(c) \/ \E j \in Jobs : CancelJob(c, j)
  BY <1>3, FireStep, AwaitStep, CancelJobStep
<1>4. CASE \E r \in Requests : Connect(r) \/ Expire(r) \/ LookUp(r) \/ Install(r) \/ ResetCancel(r)
  BY <1>4, ConnectStep, RequestStep
<1>5. CASE Close \/ CloseCancel \/ CloseWait \/ CloseTooLong
  BY <1>5, CloseStep, ClosingStep
<1> QED BY <1>1, <1>2, <1>3, <1>4, <1>5 DEF Next

LEMMA InitInv == Init => IInv
<1> SUFFICES ASSUME Init PROVE IInv
  OBVIOUS
<1>1. RecordsTyped /\ RunningTyped /\ ServingTyped /\ CallsTyped /\ ShutdownTyped
  BY DEF Init, RecordsTyped, RunningTyped, ServingTyped, CallsTyped, ShutdownTyped, Places, Conns
<1>2. TableTyped
  <2>1. table = <<>> /\ table \in Seq(Jobs) /\ Len(table) = 0 /\ DOMAIN table = {}
    BY DEF Init
  <2> QED BY <2>1, TableAssumption DEF TableTyped, IsInjective, ToSet
<1>3. Cardinality(Requests) \in Nat
  BY FinitelyMany, FS_CardinalityType
<1>4. ConnectingTyped
  BY <1>3 DEF Init, ConnectingTyped, Conns
<1>5. JobInv
  <2> SUFFICES ASSUME NEW j \in Jobs PROVE Placed(j) /\ Supervised(j) /\ Reported(j) /\ Sourced(j)
    BY DEF JobInv
  <2>1. /\ kind[j] = None /\ st[j] = "none" /\ at[j] = "new" /\ verdict[j] = "none" /\ slot = None /\ j # None
        /\ proc[j] = "none" /\ result[j] = "none" /\ dir[j] = "none" /\ activated = {}
    BY NoneAssumption DEF Init
  <2>2. Placed(j) /\ Supervised(j)
    BY <2>1 DEF Placed, Supervised, Terminal, Finished, Holding
  <2>3. Reported(j) /\ Sourced(j)
    BY <2>1 DEF Reported, Sourced
  <2> QED BY <2>2, <2>3
<1>6. AtlasInv
  <2>1. \A j \in Jobs : proc[j] = "none" /\ kind[j] = None /\ at[j] = "new"
    BY DEF Init
  <2>2. active.by = None /\ active.atlas = None
    BY DEF Init
  <2> QED BY <2>1, <2>2 DEF AtlasInv, Made, Own, Holding
<1>7. TableInv
  <2>1. /\ \A j \in Jobs : st[j] = "none" /\ retain[j] = 0
        /\ \A c \in Callers : cancel[c] = "idle" /\ answer[c] = "none"
        /\ DOMAIN st = Jobs /\ DOMAIN cancel = Callers
    BY DEF Init
  <2>2. HeldInTable
    BY <2>1 DEF HeldInTable
  <2>3. RetainBalanced
    <3>1. \A j \in Jobs : {c \in DOMAIN cancel : cancel[c] # "idle" /\ target[c] = j} = {}
      BY <2>1
    <3> QED BY <2>1, <3>1, FS_EmptySet DEF RetainBalanced
  <2> QED BY <2>1, <2>2, <2>3 DEF TableInv
<1>8. ConnectionInv
  <2>1. \A r \in Requests : asking[r] = "new" /\ number[r] = 0
    BY DEF Init
  <2>2. {r \in Requests : asking[r] # "new"} = {}
    BY <2>1
  <2>3. generation = Cardinality({r \in Requests : asking[r] # "new"})
    BY <2>2, FS_EmptySet DEF Init
  <2> QED BY <2>1, <2>3, NoneAssumption DEF Init, ConnectionInv
<1>9. CloseInv
  BY DEF Init, CloseInv
<1> QED BY <1>1, <1>2, <1>4, <1>5, <1>6, <1>7, <1>8, <1>9 DEF IInv, TypeOK

(***************************************************************************)
(* One job at a time holds the slot, from its admission until its          *)
(* processes are gone or given up: in every state the fields of a job      *)
(* agree with where its runJob stands, the table with who waits, and the   *)
(* requests with their numbers.                                            *)
(***************************************************************************)
THEOREM Invariance == Spec => []IInv
BY InitInv, NextInv, PTL DEF Spec

(***************************************************************************)
(* What is waited for or worked on stays in the table, is held once for    *)
(* each that waits, and a cancellation that returns has ended its job,     *)
(* processes and source included (cancelJob, createJob).                   *)
(***************************************************************************)
THEOREM Table == Spec => []TableSound
<1>1. IInv => TableSound
  <2> SUFFICES ASSUME IInv PROVE CancelReleases
    BY DEF IInv, TableInv, TableSound
  <2>1. DOMAIN cancel = Callers
    BY DEF IInv, TypeOK, CallsTyped
  <2>2. ASSUME NEW c \in Callers, answer[c] = "done"
        PROVE  /\ Terminal(target[c]) /\ slot # target[c] /\ ~Alive(target[c])
               /\ dir[target[c]] = "present" => target[c] \in activated
    <3>1. target[c] \in Jobs /\ at[target[c]] = "over" /\ st[target[c]] # "cleanup_failed"
      BY <2>2 DEF IInv, TableInv
    <3>2. verdict[target[c]] \notin {"unproven", "cleanup_failed"}
      BY <3>1, JobFacts DEF Local, Reported
    <3> QED BY <3>1, <3>2, JobFacts DEF Local, Placed, Holding, Supervised, Sourced, Alive
  <2> QED BY <2>1, <2>2 DEF CancelReleases
<1> QED BY <1>1, Invariance, PTL

(***************************************************************************)
(* What is served is the work of the job it is reported for and stays on   *)
(* disk, a job that failed or was cancelled has not changed it, and a      *)
(* Close that returns without an error leaves nothing running (runJob,     *)
(* activate, Close).                                                       *)
(***************************************************************************)
THEOREM Reports == Spec => []ReportsSound
<1>1. IInv => ReportsSound
  <2> SUFFICES ASSUME IInv PROVE ReportsSound
    OBVIOUS
  <2>1. DOMAIN st = Jobs
    BY JobFacts, Domains DEF IInv, TypeOK
  <2>2. AtlasInv /\ RecordsTyped /\ RunningTyped /\ ServingTyped /\ TableTyped /\ CloseInv /\ TableInv
    BY DEF IInv, TypeOK
  <2>3. OwnAtlas
    BY <2>1, <2>2 DEF OwnAtlas, AtlasInv, Own
  <2>4. OutcomeTruthful
    <3>1. ASSUME NEW j \in Jobs, Terminal(j)
          PROVE  /\ j \in activated => st[j] = "succeeded"
                 /\ st[j] = "succeeded" => j \in activated \/ kind[j] = "command"
      BY <3>1, JobFacts DEF Local, Placed, Reported
    <3> QED BY <2>1, <3>1 DEF OutcomeTruthful
  <2>5. ServedKept
    <3>1. active.by # None => active.by \in activated /\ active.by \in Jobs
      BY <2>2 DEF AtlasInv, ServingTyped
    <3> QED BY <3>1, JobFacts DEF ServedKept, Local, Sourced
  <2>6. ClosedIsQuiet
    <3> SUFFICES ASSUME closing = "ok"
                 PROVE  /\ slot = None /\ \A j \in Jobs : at[j] \in {"new", "posted", "refused", "over"}
                        /\ \A j \in ToSet(table) : ~Alive(j)
      BY <2>1 DEF ClosedIsQuiet
    <3>1. pending = {} /\ ~closeFails
      BY <2>2 DEF CloseInv
    <3>2. \A j \in Jobs : at[j] \in {"new", "posted", "refused", "over"}
      <4> SUFFICES ASSUME NEW j \in Jobs PROVE at[j] \in {"new", "posted", "refused", "over"}
        OBVIOUS
      <4>1. st[j] \notin {"queued", "running"}
        BY <2>2, <3>1 DEF CloseInv
      <4>2. st[j] = "none" \/ Terminal(j)
        BY <2>2, <4>1 DEF RecordsTyped, Terminal
      <4> QED BY <4>2, JobFacts DEF Local, Placed
    <3>3. slot = None
      <4>1. slot \in Jobs \cup {None}
        BY <2>2 DEF RunningTyped
      <4>2. \A j \in Jobs : ~Holding(j)
        BY <3>2 DEF Holding
      <4> QED BY <4>1, <4>2, JobFacts DEF Local, Placed
    <3>4. ASSUME NEW j \in ToSet(table) PROVE ~Alive(j)
      <4>1. j \in Jobs /\ st[j] # "none" /\ st[j] # "cleanup_failed"
        BY <2>2, <3>1 DEF TableTyped, ToSet, CloseInv
      <4>2. at[j] = "over"
        BY <3>2, <4>1, JobFacts DEF Local, Placed
      <4>3. verdict[j] \notin {"unproven", "cleanup_failed"}
        BY <4>1, <4>2, JobFacts DEF Local, Reported
      <4> QED BY <4>1, <4>2, <4>3, JobFacts DEF Local, Supervised, Alive
    <3> QED BY <3>2, <3>3, <3>4
  <2> QED BY <2>3, <2>4, <2>5, <2>6 DEF ReportsSound
<1> QED BY <1>1, Invariance, PTL

(***************************************************************************)
(* Nothing is activated for a connection that was withdrawn, and no older  *)
(* request replaces a newer one's connection (handleGitHubSession, Close,  *)
(* activateSourceAtlas).                                                   *)
(***************************************************************************)
THEOREM Connections == Spec => ConnectionsSound
<1>1. IInv /\ [Next]_vars => [WithdrawnStaysOut /\ NewestConnectionStays]_vars
  <2> SUFFICES ASSUME IInv, Next PROVE WithdrawnStaysOut /\ NewestConnectionStays
    OBVIOUS
  <2>1. WithdrawnStaysOut
    <3> SUFFICES ASSUME active' # active PROVE using[active'.by] \notin dead /\ ~closed
      BY DEF WithdrawnStaysOut
    <3>1. PICK j \in Jobs : Activate(j)
      <4>1. ~UNCHANGED serving
        BY DEF serving
      <4>2. ASSUME NEW j \in Jobs, Work(j) PROVE Activate(j)
        BY <4>1, <4>2 DEF Work, Create, Refuse, GiveUp, TakeSlot, Admit, Start, Completed, Interrupted,
             Terminate, Verify, CompileFolder, MakeSource, Fetch, CompileGitHub, CleanSource, LoadAtlas,
             ReleaseSlot, Finish
      <4>3. ASSUME NEW j \in Jobs
            PROVE  ~(Post(j) \/ Deadline(j) \/ SourceCanceled(j) \/ Write(j) \/ Exit(j))
        BY <4>1 DEF Post, Deadline, SourceCanceled, Write, Exit
      <4>4. ASSUME NEW c \in Callers
            PROVE  ~(Fire(c) \/ Await(c) \/ AwaitTooLong(c) \/ \E j \in Jobs : CancelJob(c, j))
        BY <4>1 DEF Fire, Await, AwaitTooLong, CancelJob
      <4>5. ASSUME NEW r \in Requests PROVE ~(Connect(r) \/ Expire(r) \/ LookUp(r) \/ Install(r) \/ ResetCancel(r))
        BY <4>1 DEF Connect, Expire, LookUp, Install, ResetCancel
      <4>6. ~(Close \/ CloseCancel \/ CloseWait \/ CloseTooLong)
        BY <4>1 DEF Close, CloseCancel, CloseWait, CloseTooLong
      <4> QED BY <4>2, <4>3, <4>4, <4>5, <4>6 DEF Next
    <3>2. Activatable(j) /\ active'.by = j
      BY <3>1 DEF Activate, serving
    <3>3. using[j] \notin dead
      BY <3>2, SessionFacts DEF Activatable, Runnable, Usable, ConnectionInv
    <3> QED BY <3>2, <3>3 DEF Activatable
  <2>2. NewestConnectionStays
    <3> SUFFICES ASSUME conn' # conn PROVE conn # None /\ (conn' # None => number[conn'] > number[conn])
      BY DEF NewestConnectionStays
    <3>1. CASE Close
      BY <3>1, SessionFacts DEF Close, ConnectionInv, CloseInv
    <3>2. CASE \E r \in Requests : Install(r)
      <4>1. PICK r \in Requests : Install(r)
        BY <3>2
      <4>2. asking[r] = "install" /\ Current(r) /\ conn' = r
        BY <4>1 DEF Install
      <4>3. conn # None /\ conn \in Requests \cup {"public"} /\ conn # r
        BY <4>2, SessionFacts DEF Current, ConnectionInv, ConnectingTyped, Conns
      <4>4. number[r] = generation /\ number[r] # 0
        BY <4>2, SessionFacts DEF Current, ConnectionInv
      <4>5. number[conn] # number[r]
        BY <4>3, <4>4, SessionFacts DEF ConnectionInv
      <4>6. number[conn] \in 0..generation /\ generation \in Nat
        BY <4>3, SessionFacts
      <4> QED BY <4>2, <4>3, <4>4, <4>5, <4>6
    <3>3. Close \/ \E r \in Requests : Install(r)
      <4>1. ~UNCHANGED connecting
        BY DEF connecting
      <4>2. ASSUME NEW j \in Jobs PROVE ~Work(j)
        BY <4>1 DEF Work, Create, Refuse, GiveUp, TakeSlot, Admit, Start, Completed, Interrupted, Terminate,
             Verify, CompileFolder, MakeSource, Fetch, CompileGitHub, CleanSource, LoadAtlas, Activate,
             ReleaseSlot, Finish
      <4>3. ASSUME NEW j \in Jobs
            PROVE  ~(Post(j) \/ Deadline(j) \/ SourceCanceled(j) \/ Write(j) \/ Exit(j))
        BY <4>1 DEF Post, Deadline, SourceCanceled, Write, Exit
      <4>4. ASSUME NEW c \in Callers
            PROVE  ~(Fire(c) \/ Await(c) \/ AwaitTooLong(c) \/ \E j \in Jobs : CancelJob(c, j))
        BY <4>1 DEF Fire, Await, AwaitTooLong, CancelJob
      <4>5. ASSUME NEW r \in Requests PROVE ~(Connect(r) \/ Expire(r) \/ LookUp(r) \/ ResetCancel(r))
        BY <4>1 DEF Connect, Expire, LookUp, ResetCancel
      <4>6. ~(CloseCancel \/ CloseWait \/ CloseTooLong)
        BY <4>1 DEF CloseCancel, CloseWait, CloseTooLong
      <4> QED BY <4>2, <4>3, <4>4, <4>5, <4>6 DEF Next
    <3> QED BY <3>1, <3>2, <3>3
  <2> QED BY <2>1, <2>2
<1> QED BY <1>1, Invariance, PTL DEF Spec, ConnectionsSound

(***************************************************************************)
(* The permits of the MCP transport, which a server runs beside its jobs.  *)
(***************************************************************************)

Stations == {"new", "admitted", "dispatching", "working", "replying", "done"}

\* Handlers stand at known places, and as many are at work as permits are taken.
PermitsInv ==
  /\ handler \in [Posts -> Stations]
  /\ IsFiniteSet(Busy)
  /\ SlotsHeld

\* A handler that begins to work adds one to the busy ones.
LEMMA PermitTaken ==
  ASSUME PermitsInv, PermitsAssumption, NEW r \in Posts, handler[r] = "new",
         NEW where \in Stations \ {"new", "done"}, MoveTo(r, where),
         permits < MaximumConcurrent, permits' = permits + 1
  PROVE  PermitsInv'
<1>1. handler' = [handler EXCEPT ![r] = where] /\ handler' \in [Posts -> Stations] BY DEF PermitsInv, MoveTo
<1>2. Busy' = Busy \cup {r} BY <1>1 DEF Busy, PermitsInv
<1>3. r \notin Busy BY DEF Busy
<1>4. IsFiniteSet(Busy') /\ Cardinality(Busy') = Cardinality(Busy) + 1
  BY <1>2, <1>3, FS_AddElement DEF PermitsInv
<1>5. permits' \in Nat /\ permits' <= MaximumConcurrent
  BY FS_CardinalityType DEF PermitsInv, SlotsHeld, PermitsAssumption
<1> QED BY <1>1, <1>4, <1>5 DEF PermitsInv, SlotsHeld

\* A handler that returns gives back the permit it held.
LEMMA PermitReturned ==
  ASSUME PermitsInv, PermitsAssumption, NEW r \in Posts, handler[r] \notin {"new", "done"}, Conclude(r)
  PROVE  PermitsInv'
<1>1. handler' = [handler EXCEPT ![r] = "done"] /\ handler' \in [Posts -> Stations]
  BY DEF PermitsInv, Conclude, MoveTo, Stations
<1>2. Busy' = Busy \ {r} BY <1>1 DEF Busy, PermitsInv
<1>3. r \in Busy BY DEF Busy
<1>4. IsFiniteSet(Busy') /\ Cardinality(Busy') = Cardinality(Busy) - 1
  BY <1>2, <1>3, FS_RemoveElement DEF PermitsInv
<1>5. permits \in Nat BY FS_CardinalityType DEF PermitsInv, SlotsHeld
<1>6. permits' = permits - 1 BY DEF Conclude, Returns
<1>7. permits' <= MaximumConcurrent BY <1>5, <1>6 DEF PermitsInv, SlotsHeld, PermitsAssumption
<1> QED BY <1>1, <1>4, <1>6, <1>7 DEF PermitsInv, SlotsHeld

\* A handler that stays at work, or never was, changes no permit.
LEMMA PermitsStay ==
  ASSUME PermitsInv, NEW r \in Posts, NEW where \in Stations, MoveTo(r, where),
         handler[r] \in {"new", "done"} <=> where \in {"new", "done"}, UNCHANGED permits
  PROVE  PermitsInv'
<1>1. handler' = [handler EXCEPT ![r] = where] /\ handler' \in [Posts -> Stations] BY DEF PermitsInv, MoveTo
<1>2. Busy' = Busy BY <1>1 DEF Busy, PermitsInv
<1> QED BY <1>1, <1>2 DEF PermitsInv, SlotsHeld

\* One step per action of a handler; a timeout and a shutdown change no permit.
LEMMA PermitsStep == ASSUME PermitsAssumption, PermitsInv, [HttpNext]_httpVars PROVE PermitsInv'
<1>1. ASSUME NEW r \in Posts, Handler(r) PROVE PermitsInv'
  <2>1. CASE Forbid(r) \/ RejectHeaders(r) \/ NotAcceptable(r)
    <3>1. handler[r] = "new" /\ MoveTo(r, "done") /\ UNCHANGED permits
      BY <2>1 DEF Forbid, RejectHeaders, NotAcceptable, Unadmitted
    <3> QED BY <3>1, PermitsStay DEF Stations
  <2>2. CASE TakePermit(r)
    <3>1. CASE permits < MaximumConcurrent
      <4>1. handler[r] = "new" /\ MoveTo(r, "admitted") /\ permits' = permits + 1 BY <2>2, <3>1 DEF TakePermit
      <4> QED BY <3>1, <4>1, PermitTaken DEF Stations
    <3>2. CASE ~(permits < MaximumConcurrent)
      <4>1. handler[r] = "new" /\ MoveTo(r, "done") /\ UNCHANGED permits BY <2>2, <3>2 DEF TakePermit
      <4> QED BY <4>1, PermitsStay DEF Stations
    <3> QED BY <3>1, <3>2
  <2>3. CASE RejectBody(r) \/ RejectRequest(r) \/ RejectParams(r) \/ Notify(r)
    <3>1. handler[r] = "admitted" /\ Conclude(r)
      BY <2>3 DEF RejectBody, RejectRequest, RejectParams, Notify, Early
    <3> QED BY <3>1, PermitReturned
  <2>4. CASE Decode(r) \/ Dispatch(r) \/ RunTool(r)
    <3>1. /\ handler[r] \in {"admitted", "dispatching", "working"} /\ UNCHANGED permits
          /\ \E where \in {"dispatching", "replying", "working"} : MoveTo(r, where)
      BY <2>4 DEF Decode, Dispatch, RunTool
    <3>2. PICK where \in {"dispatching", "replying", "working"} : MoveTo(r, where) BY <3>1
    <3> QED BY <3>1, <3>2, PermitsStay DEF Stations
  <2>5. CASE Reply(r) 
    <3>1. handler[r] = "replying" /\ Conclude(r) BY <2>5 DEF Reply
    <3> QED BY <3>1, PermitReturned
  <2> QED BY <1>1, <2>1, <2>2, <2>3, <2>4, <2>5 DEF Handler
<1>2. UNCHANGED <<handler, permits>> => PermitsInv'
  BY DEF PermitsInv, SlotsHeld, Busy
<1>3. ASSUME NEW r \in Posts, TimeOut(r) PROVE PermitsInv'
  BY <1>2, <1>3 DEF TimeOut
<1>4. CASE Shutdown \/ ServeReturns \/ UNCHANGED httpVars
  BY <1>2, <1>4 DEF Shutdown, ServeReturns, httpVars
<1> QED BY <1>1, <1>3, <1>4 DEF HttpNext

\* No more handlers are at work than permits allow, however many clients have had their timeout or
\* gone: a permit is taken before the work and given back when the handler returns, not when its
\* client has an answer (httpTransport.ServeHTTP).
THEOREM Permits == ASSUME PermitsAssumption PROVE HttpSpec => []SlotsHeld
<1>1. HttpInit => PermitsInv
  <2> SUFFICES ASSUME HttpInit PROVE PermitsInv OBVIOUS
  <2>1. Busy = {} BY DEF HttpInit, Busy
  <2> QED BY <2>1, FS_EmptySet DEF HttpInit, PermitsInv, SlotsHeld, Stations, PermitsAssumption
<1>2. PermitsInv /\ [HttpNext]_httpVars => PermitsInv' BY PermitsStep
<1>3. PermitsInv => SlotsHeld BY DEF PermitsInv
<1> QED BY <1>1, <1>2, <1>3, PTL DEF HttpSpec
=============================================================================
