----------------------------- MODULE SafeOutput -----------------------------
(***************************************************************************)
(* safeoutput: a generated directory is built beside its target, then      *)
(* published by a rename or, over an older output, by an exchange (Linux,  *)
(* macOS) or two renames (Windows) under a journal in a quarantine beside  *)
(* it.  Begin first recovers what an interrupted publication has left.     *)
(* Nothing locks the target: publishers, recoveries and a user who edits   *)
(* it are told apart by directory identities only.                         *)
(***************************************************************************)
EXTENDS Naturals, FiniteSets

CONSTANTS
  Publishers,   \* processes that publish to the one target
  Dirs,         \* directories (inodes) the publications create, each for one
  UserDirs,     \* directories the user puts in the target's place
  NoDir,        \* no directory
  MaxStrikes,   \* bound on crashes and I/O errors
  MaxEdits      \* bound on what the user does to the target

OutputAssumption ==
  /\ NoDir \notin Dirs \cup UserDirs /\ Dirs \cap UserDirs = {}
  /\ MaxStrikes \in Nat /\ MaxEdits \in Nat

Paths == Dirs \cup UserDirs \cup {NoDir}

VARIABLES
  exchanging,   \* whether the platform can exchange two paths
  target,       \* the directory at the target path
  staging,      \* staging[d]: what is at the path d was built at
  quar,         \* quar[d]: the quarantine beside the target of d's replacement
  state,        \* state[d]: "final" is marked, complete and unchanged
  place,        \* where each publisher stands
  mine,         \* the directory it publishes
  prior,        \* the output it is replacing
  unseen,       \* quarantines its recovery has yet to look at
  matched,      \* whether it has met a journal of the target
  journal,      \* the quarantine it works in
  known,        \* which of its journal files it knows
  doomed,       \* the directory it is to remove from there
  role,         \* "recover" in Begin, "commit", or "withdraw" after a failed rename
  strikes, edits, deep,  \* history: deep once a fault struck a recovery or a removal
  met           \* history: two publications have been under way at once

onDisk == <<target, staging, quar, state>>
working == <<place, mine, prior, unseen, matched, journal, known, doomed, role>>
incidents == <<strikes, edits, deep>>
outputVars == <<exchanging, onDisk, working, incidents, met>>

States == {"free", "staging", "final", "edited", "torn", "gone"}
OutputPlaces == {"idle", "scan", "judge", "restore", "restored", "move", "moveBack", "note", "purge",
           "removing", "unlist", "rmdir", "check", "commit", "prior", "publish", "verifyNew",
           "journal", "exchange", "verify", "rollback", "unwind", "exchanged", "quarantine",
           "quarantined", "place", "putBack", "finish", "settle", "abort"}

OutputTypes ==
  /\ target \in Paths /\ staging \in [Dirs -> Paths]
  /\ quar \in [Dirs -> [root : BOOLEAN, record : BOOLEAN, ver : Nat, prior : Paths, payload : Paths]]
  /\ state \in [Dirs \cup UserDirs -> States]
  /\ place \in [Publishers -> OutputPlaces]
  /\ mine \in [Publishers -> Paths] /\ prior \in [Publishers -> Paths]
  /\ unseen \in [Publishers -> SUBSET Dirs] /\ matched \in [Publishers -> BOOLEAN]
  /\ journal \in [Publishers -> Paths] /\ doomed \in [Publishers -> Paths]
  /\ known \in [Publishers -> Nat]
  /\ role \in [Publishers -> {"recover", "commit", "withdraw"}]
  /\ strikes \in 0..MaxStrikes /\ edits \in 0..MaxEdits /\ deep \in BOOLEAN
  /\ exchanging \in BOOLEAN /\ met \in BOOLEAN

\* A directory is at one path: a rename leaves nothing behind.
OnePlace ==
  \A q, r \in Dirs :
    /\ target # NoDir => target # staging[q] /\ target # quar[q].payload
    /\ staging[q] # NoDir => staging[q] # quar[r].payload /\ (staging[q] = staging[r] => q = r)

OutputTypeOK == OutputTypes /\ OnePlace

NoQuarantine == [root |-> FALSE, record |-> FALSE, ver |-> 0, prior |-> NoDir, payload |-> NoDir]

OutputInit ==
  /\ target = NoDir
  /\ staging = [d \in Dirs |-> NoDir]
  /\ quar = [d \in Dirs |-> NoQuarantine]
  /\ state = [d \in Dirs \cup UserDirs |-> IF d \in UserDirs THEN "edited" ELSE "free"]
  /\ place = [p \in Publishers |-> "idle"]
  /\ mine = [p \in Publishers |-> NoDir] /\ prior = [p \in Publishers |-> NoDir]
  /\ unseen = [p \in Publishers |-> {}] /\ matched = [p \in Publishers |-> FALSE]
  /\ journal = [p \in Publishers |-> NoDir] /\ doomed = [p \in Publishers |-> NoDir]
  /\ known = [p \in Publishers |-> 0]
  /\ role = [p \in Publishers |-> "recover"]
  /\ strikes = 0 /\ edits = 0 /\ deep = FALSE
  /\ exchanging \in BOOLEAN /\ met = FALSE

-----------------------------------------------------------------------------
StandAt(p, where) == place' = [place EXCEPT ![p] = where]

\* validateOwnedOutput of the directory with a known identity.
Sound(d, identity) == d # NoDir /\ d = identity /\ state[d] = "final"

\* Mutant: the marker is enough.
MarkedPrior(d, identity) == d # NoDir /\ state[d] \in {"final", "edited"}

\* The prior output must be the validated one when it is about to go.
SoundPrior(d, identity) == Sound(d, identity)

Owned == target = NoDir \/ state[target] = "final"

\* Where an error leads: Begin returns it, Commit's caller aborts.
OnError(p) == IF role[p] = "recover" THEN "idle" ELSE "abort"

\* Rename refuses a source that is gone and a destination that exists.
CanQuarantine(d, path) == path # NoDir /\ quar[d].root /\ quar[d].payload = NoDir

\* The journal file is replaced as a whole; who knew the old file will notice.
Rewritten(q) ==
  [root |-> q.root, record |-> TRUE, ver |-> q.ver + 1, prior |-> q.prior, payload |-> q.payload]

Persist(p) ==
  LET q == journal[p]
  IN /\ quar[q].root
     /\ quar' = [quar EXCEPT ![q] = Rewritten(@)]
     /\ known' = [known EXCEPT ![p] = quar[q].ver + 1]

-----------------------------------------------------------------------------
(***************************************************************************)
(* Begin: recoverInterruptedReplacements, then the staging directory.      *)
(***************************************************************************)
BeginOutput(p) ==
  /\ place[p] = "idle"
  /\ \E d \in Dirs :
       /\ state[d] = "free" /\ \A o \in Publishers : place[o] = "idle" \/ mine[o] # d
       /\ mine' = [mine EXCEPT ![p] = d]
  /\ unseen' = [unseen EXCEPT ![p] = {q \in Dirs : quar[q].root}]
  /\ matched' = [matched EXCEPT ![p] = FALSE]
  /\ role' = [role EXCEPT ![p] = "recover"]
  /\ StandAt(p, "scan")
  /\ UNCHANGED <<onDisk, prior, journal, known, doomed, incidents>>

LoadJournal(p) ==
  /\ place[p] = "scan"
  /\ \/ \E q \in unseen[p] :
          /\ unseen' = [unseen EXCEPT ![p] = @ \ {q}]
          /\ matched' = [matched EXCEPT ![p] = @ \/ quar[q].record]
          /\ journal' = [journal EXCEPT ![p] = q]
          /\ known' = [known EXCEPT ![p] = quar[q].ver]
          /\ StandAt(p, IF ~quar[q].record THEN "scan" ELSE IF matched[p] THEN "idle" ELSE "judge")
     \/ unseen[p] = {} /\ StandAt(p, "check") /\ UNCHANGED <<unseen, matched, journal, known>>
  /\ UNCHANGED <<onDisk, mine, prior, doomed, role, incidents>>

\* What recoverReplacement decides to do about the journal of q, and which
\* directory it will remove.
Published(q) == target = q /\ Sound(target, q)

PriorStaged(q) ==
  /\ Published(q) /\ quar[q].payload = NoDir
  /\ Sound(staging[q], quar[q].prior)

PriorQuarantined(q) ==
  /\ Published(q) /\ staging[q] # quar[q].prior
  /\ Sound(quar[q].payload, quar[q].prior)

PriorRemoved(q) == Published(q) /\ staging[q] = NoDir /\ quar[q].payload = NoDir

NotExchanged(q) ==
  /\ Sound(target, quar[q].prior) /\ Sound(staging[q], q) /\ quar[q].payload = NoDir

TargetMissing(q) ==
  target = NoDir /\ staging[q] = q /\ Sound(quar[q].payload, quar[q].prior)

Recoverable(q) ==
  PriorStaged(q) \/ PriorQuarantined(q) \/ PriorRemoved(q) \/ NotExchanged(q) \/ TargetMissing(q)

Judge(p) ==
  /\ place[p] = "judge"
  /\ LET q == journal[p]
         Decide(where, d) == StandAt(p, where) /\ doomed' = [doomed EXCEPT ![p] = d]
     IN \/ PriorStaged(q) /\ Decide("move", quar[q].prior)
        \/ PriorQuarantined(q) /\ Decide("purge", quar[q].prior)
        \/ PriorRemoved(q) /\ Decide("unlist", NoDir)
        \/ NotExchanged(q) /\ Decide("move", q)
        \/ TargetMissing(q) /\ Decide("restore", q)
        \/ ~Recoverable(q) /\ Decide("idle", NoDir)
  /\ UNCHANGED <<onDisk, mine, prior, unseen, matched, journal, known, role, incidents>>

\* The portable replacement is undone: the prior output goes back.
Restore(p) ==
  /\ place[p] = "restore"
  /\ LET q == journal[p]
     IN \/ /\ target = NoDir /\ quar[q].payload # NoDir
           /\ target' = quar[q].payload
           /\ quar' = [quar EXCEPT ![q].payload = NoDir]
           /\ StandAt(p, "restored")
        \/ /\ target # NoDir \/ quar[q].payload = NoDir
           /\ StandAt(p, "idle") /\ UNCHANGED <<target, quar>>
  /\ UNCHANGED <<staging, state, mine, prior, unseen, matched, journal, known, doomed, role, incidents>>

Restored(p) ==
  /\ place[p] = "restored"
  /\ StandAt(p, IF Sound(target, quar[journal[p]].prior) THEN "moveBack" ELSE "idle")
  /\ UNCHANGED <<onDisk, mine, prior, unseen, matched, journal, known, doomed, role, incidents>>

\* Whatever is at the staging path goes into the quarantine.
MoveStaging(p) ==
  /\ place[p] \in {"move", "moveBack"}
  /\ LET q == journal[p]
     IN IF CanQuarantine(q, staging[q])
          THEN /\ quar' = [quar EXCEPT ![q].payload = staging[q]]
               /\ staging' = [staging EXCEPT ![q] = NoDir]
               /\ StandAt(p, IF place[p] = "move" THEN "note" ELSE "purge")
          ELSE StandAt(p, "idle") /\ UNCHANGED <<quar, staging>>
  /\ UNCHANGED <<target, state, mine, prior, unseen, matched, journal, known, doomed, role, incidents>>

\* Every update of the journal, and what follows it.
Note(p) ==
  /\ place[p] \in {"note", "exchanged", "quarantined", "settle"}
  /\ \/ /\ Persist(p)
        /\ StandAt(p, CASE place[p] = "exchanged" -> "finish" [] place[p] = "quarantined" -> "place"
                     [] OTHER -> "purge")
     \/ ~quar[journal[p]].root /\ StandAt(p, OnError(p)) /\ UNCHANGED <<quar, known>>
  /\ UNCHANGED <<target, staging, state, mine, prior, unseen, matched, journal, doomed, role, incidents>>

\* quarantine.remove: exactly the doomed directory, complete, and never while
\* the output that supersedes it is not in place.
Purge(p) ==
  /\ place[p] = "purge"
  /\ LET q == journal[p]
     IN IF /\ SoundPrior(quar[q].payload, doomed[p])
           /\ doomed[p] = quar[q].prior => Published(q)
          THEN /\ state' = [state EXCEPT ![quar[q].payload] = "torn"]
               /\ StandAt(p, "removing")
          ELSE StandAt(p, OnError(p)) /\ UNCHANGED state
  /\ UNCHANGED <<target, staging, quar, mine, prior, unseen, matched, journal, known, doomed, role, incidents>>

RemovePayload(p) ==
  /\ place[p] = "removing"
  /\ LET q == journal[p]
     IN /\ state' = [d \in DOMAIN state |-> IF d = quar[q].payload THEN "gone" ELSE state[d]]
        /\ quar' = [quar EXCEPT ![q].payload = NoDir]
  /\ StandAt(p, "unlist")
  /\ UNCHANGED <<target, staging, mine, prior, unseen, matched, journal, known, doomed, role, incidents>>

AfterRmdir(p) == CASE role[p] = "recover" -> "scan" [] role[p] = "commit" -> "idle" [] OTHER -> "abort"
AfterFailedRmdir(p) == IF role[p] = "withdraw" THEN "abort" ELSE "idle"

\* The journal must still be the file the publisher knows.
Unlist(p) ==
  /\ place[p] = "unlist"
  /\ LET q == journal[p]
     IN IF quar[q].root /\ quar[q].record /\ quar[q].ver = known[p]
          THEN quar' = [quar EXCEPT ![q].record = FALSE] /\ StandAt(p, "rmdir")
          ELSE StandAt(p, AfterFailedRmdir(p)) /\ UNCHANGED quar
  /\ UNCHANGED <<target, staging, state, mine, prior, unseen, matched, journal, known, doomed, role, incidents>>

Rmdir(p) ==
  /\ place[p] = "rmdir"
  /\ LET q == journal[p]
     IN IF quar[q].root /\ ~quar[q].record /\ quar[q].payload = NoDir
          THEN quar' = [quar EXCEPT ![q].root = FALSE] /\ StandAt(p, AfterRmdir(p))
          ELSE StandAt(p, AfterFailedRmdir(p)) /\ UNCHANGED quar
  /\ UNCHANGED <<target, staging, state, mine, prior, unseen, matched, journal, known, doomed, role, incidents>>

\* checkExisting, then the staging directory and its marker.
Build(p) ==
  /\ place[p] = "check"
  /\ IF Owned
       THEN /\ staging' = [staging EXCEPT ![mine[p]] = mine[p]]
            /\ state' = [state EXCEPT ![mine[p]] = "staging"]
            /\ role' = [role EXCEPT ![p] = "commit"]
            /\ StandAt(p, "commit")
       ELSE StandAt(p, "idle") /\ UNCHANGED <<staging, state, role>>
  /\ UNCHANGED <<target, quar, mine, prior, unseen, matched, journal, known, doomed, incidents>>

-----------------------------------------------------------------------------
(***************************************************************************)
(* Commit.                                                                 *)
(***************************************************************************)
Intact(p) == staging[mine[p]] = mine[p]

\* The final marker is written and the manifest validated.
FinalizeOutput(p) ==
  /\ place[p] = "commit"
  /\ IF Intact(p) /\ Owned
       THEN state' = [state EXCEPT ![mine[p]] = "final"] /\ StandAt(p, "prior")
       ELSE StandAt(p, "abort") /\ UNCHANGED state
  /\ UNCHANGED <<target, staging, quar, mine, prior, unseen, matched, journal, known, doomed, role, incidents>>

InspectPrior(p) ==
  /\ place[p] = "prior"
  /\ prior' = [prior EXCEPT ![p] = target]
  /\ StandAt(p, IF ~Intact(p) \/ ~Owned THEN "abort" ELSE IF target = NoDir THEN "publish" ELSE "journal")
  /\ UNCHANGED <<onDisk, mine, unseen, matched, journal, known, doomed, role, incidents>>

PublishNew(p) ==
  /\ place[p] = "publish"
  /\ IF target = NoDir /\ staging[mine[p]] # NoDir
       THEN /\ target' = staging[mine[p]]
            /\ staging' = [staging EXCEPT ![mine[p]] = NoDir]
            /\ StandAt(p, "verifyNew")
       ELSE StandAt(p, "abort") /\ UNCHANGED <<target, staging>>
  /\ UNCHANGED <<quar, state, mine, prior, unseen, matched, journal, known, doomed, role, incidents>>

\* An output that was changed at once is taken back, if it is still there.
TakenBack(d) ==
  /\ target = d /\ staging[d] = NoDir
  /\ target' = NoDir /\ staging' = [staging EXCEPT ![d] = d]

VerifyNew(p) ==
  /\ place[p] = "verifyNew"
  /\ LET d == mine[p]
     IN \/ Sound(target, d) /\ StandAt(p, "idle") /\ UNCHANGED <<target, staging>>
        \/ ~Sound(target, d) /\ TakenBack(d) /\ StandAt(p, "abort")
        \/ /\ ~Sound(target, d) /\ (target # d \/ staging[d] # NoDir)
           /\ StandAt(p, "abort") /\ UNCHANGED <<target, staging>>
  /\ UNCHANGED <<quar, state, mine, prior, unseen, matched, journal, known, doomed, role, incidents>>

\* Mutant: the quarantine is made, its journal comes with the first update.
LateJournal(p) == [root |-> TRUE, record |-> FALSE, ver |-> 1, prior |-> prior[p], payload |-> NoDir]

JournalOf(p) == [root |-> TRUE, record |-> TRUE, ver |-> 1, prior |-> prior[p], payload |-> NoDir]

FirstMove == IF exchanging THEN "exchange" ELSE "quarantine"

\* The journal names both directories before anything moves.
CreateJournal(p) ==
  /\ place[p] = "journal"
  /\ LET d == mine[p]
     IN IF target = prior[p] /\ staging[d] # NoDir
          THEN /\ quar' = [quar EXCEPT ![d] = JournalOf(p)]
               /\ StandAt(p, FirstMove)
          ELSE StandAt(p, "abort") /\ UNCHANGED quar
  /\ journal' = [journal EXCEPT ![p] = mine[p]]
  /\ known' = [known EXCEPT ![p] = 1]
  /\ doomed' = [doomed EXCEPT ![p] = prior[p]]
  /\ UNCHANGED <<target, staging, state, mine, prior, unseen, matched, role, incidents>>

\* A failed first rename: the journal is discarded, then the staging aborted.
Withdraw(p) == StandAt(p, "unlist") /\ role' = [role EXCEPT ![p] = "withdraw"]

SwapPaths(d) == target' = staging[d] /\ staging' = [staging EXCEPT ![d] = target]

ExchangePaths(p) ==
  /\ place[p] = "exchange"
  /\ IF staging[mine[p]] # NoDir /\ target # NoDir
       THEN SwapPaths(mine[p]) /\ StandAt(p, "verify") /\ UNCHANGED role
       ELSE Withdraw(p) /\ UNCHANGED <<target, staging>>
  /\ UNCHANGED <<quar, state, mine, prior, unseen, matched, journal, known, doomed, incidents>>

VerifyExchange(p) ==
  /\ place[p] = "verify"
  /\ StandAt(p, IF Sound(target, mine[p]) /\ Sound(staging[mine[p]], prior[p]) THEN "exchanged" ELSE "rollback")
  /\ UNCHANGED <<onDisk, mine, prior, unseen, matched, journal, known, doomed, role, incidents>>

\* Only the two directories the transaction knows are exchanged back.
Rollback(p) ==
  /\ place[p] = "rollback"
  /\ IF target = mine[p] /\ staging[mine[p]] = prior[p]
       THEN SwapPaths(mine[p]) /\ StandAt(p, "unwind")
       ELSE StandAt(p, "abort") /\ UNCHANGED <<target, staging>>
  /\ UNCHANGED <<quar, state, mine, prior, unseen, matched, journal, known, doomed, role, incidents>>

Unwind(p) ==
  /\ place[p] = "unwind"
  /\ IF Sound(target, prior[p]) THEN Withdraw(p) ELSE StandAt(p, "abort") /\ UNCHANGED role
  /\ UNCHANGED <<onDisk, mine, prior, unseen, matched, journal, known, doomed, incidents>>

\* The portable replacement takes the prior output away first.
QuarantinePrior(p) ==
  /\ place[p] = "quarantine"
  /\ IF CanQuarantine(mine[p], target)
       THEN /\ quar' = [quar EXCEPT ![mine[p]].payload = target]
            /\ target' = NoDir
            /\ StandAt(p, "quarantined") /\ UNCHANGED role
       ELSE Withdraw(p) /\ UNCHANGED <<target, quar>>
  /\ UNCHANGED <<staging, state, mine, prior, unseen, matched, journal, known, doomed, incidents>>

Place(p) ==
  /\ place[p] = "place"
  /\ IF target = NoDir /\ staging[mine[p]] # NoDir
       THEN /\ target' = staging[mine[p]]
            /\ staging' = [staging EXCEPT ![mine[p]] = NoDir]
            /\ StandAt(p, "finish")
       ELSE StandAt(p, "putBack") /\ UNCHANGED <<target, staging>>
  /\ UNCHANGED <<quar, state, mine, prior, unseen, matched, journal, known, doomed, role, incidents>>

PutBack(p) ==
  /\ place[p] = "putBack"
  /\ IF target = NoDir /\ quar[mine[p]].payload # NoDir
       THEN /\ target' = quar[mine[p]].payload
            /\ quar' = [quar EXCEPT ![mine[p]].payload = NoDir]
            /\ Withdraw(p)
       ELSE StandAt(p, "abort") /\ UNCHANGED <<target, quar, role>>
  /\ UNCHANGED <<staging, state, mine, prior, unseen, matched, journal, known, doomed, incidents>>

\* finishReplacement, up to the removal it shares with the recovery.
Finish(p) ==
  /\ place[p] = "finish"
  /\ LET d == mine[p]
         old == IF exchanging THEN staging[d] ELSE quar[d].payload
     IN IF Sound(target, d) /\ SoundPrior(old, prior[p]) /\ (exchanging => CanQuarantine(d, old))
          THEN /\ quar' = [quar EXCEPT ![d].payload = old]
               /\ staging' = [staging EXCEPT ![d] = IF exchanging THEN NoDir ELSE @]
               /\ StandAt(p, "settle")
          ELSE StandAt(p, "abort") /\ UNCHANGED <<quar, staging>>
  /\ UNCHANGED <<target, state, mine, prior, unseen, matched, journal, known, doomed, role, incidents>>

\* Abort removes only the directory the transaction created.
AbortOutput(p) ==
  /\ place[p] = "abort"
  /\ StandAt(p, "idle")
  /\ IF Intact(p)
       THEN /\ staging' = [staging EXCEPT ![mine[p]] = NoDir]
            /\ state' = [state EXCEPT ![mine[p]] = "gone"]
       ELSE UNCHANGED <<staging, state>>
  /\ UNCHANGED <<target, quar, mine, prior, unseen, matched, journal, known, doomed, role, incidents>>

-----------------------------------------------------------------------------
\* Where a fault leaves a journal no recovery understands: while a directory is
\* being removed, and once an undoing recovery has moved the staging directory.
Delicate(p) ==
  \/ place[p] = "removing"
  \/ role[p] = "recover" /\ doomed[p] = journal[p] /\ place[p] \in {"note", "purge", "unlist"}

\* The same for errors after which Abort removes the staging the journal names.
Orphans(p) ==
  \/ place[p] \in {"journal", "quarantined", "putBack", "unwind"}
  \/ place[p] = "unlist" /\ role[p] = "withdraw"

Struck(p, where, fatal) ==
  /\ strikes < MaxStrikes /\ strikes' = strikes + 1
  /\ deep' = (deep \/ fatal)
  /\ StandAt(p, where)
  /\ UNCHANGED <<target, staging, state, mine, prior, unseen, matched, doomed, edits>>

PublisherDies(p) ==
  /\ place[p] # "idle"
  /\ Struck(p, "idle", Delicate(p))
  /\ UNCHANGED <<quar, journal, known, role>>

\* Where an I/O error of the next operation leads.
FailedAt(p) ==
  IF role[p] = "recover" THEN "idle"
  ELSE CASE place[p] \in {"removing", "unlist", "rmdir"} -> AfterFailedRmdir(p)
         [] place[p] \in {"exchange", "quarantine"} -> "unlist"
         [] place[p] = "place" -> "putBack"
         [] OTHER -> "abort"

StepFails(p) ==
  /\ place[p] \notin {"abort", "idle"}
  /\ Struck(p, FailedAt(p), Delicate(p) \/ Orphans(p))
  /\ role' = [role EXCEPT ![p] = IF place[p] \in {"exchange", "quarantine"} THEN "withdraw" ELSE @]
  \* The journal is durable although syncing its parent failed.
  /\ IF place[p] = "journal"
       THEN quar' = [quar EXCEPT ![mine[p]] = JournalOf(p)]
       ELSE UNCHANGED quar
  /\ UNCHANGED <<journal, known>>

\* A validation after the rename that cannot read the output undoes it as well.
ValidationFails(p) ==
  /\ strikes < MaxStrikes /\ strikes' = strikes + 1
  /\ \/ place[p] = "verifyNew" /\ TakenBack(mine[p]) /\ StandAt(p, "abort")
     \/ place[p] = "verify" /\ StandAt(p, "rollback") /\ UNCHANGED <<target, staging>>
  /\ UNCHANGED <<quar, state, mine, prior, unseen, matched, journal, known, doomed, role, edits, deep>>

\* The user edits the published output, or puts a directory of theirs there.
Edit ==
  /\ edits < MaxEdits /\ edits' = edits + 1
  /\ \/ /\ target # NoDir /\ state[target] = "final"
        /\ state' = [state EXCEPT ![target] = "edited"]
        /\ UNCHANGED target
     \/ /\ target \in Dirs => state[target] = "final"
        /\ target \notin UserDirs
        /\ target' \in {u \in UserDirs : \A q \in Dirs : u # staging[q] /\ u # quar[q].payload}
        /\ state' = [d \in DOMAIN state |-> IF d = target THEN "gone" ELSE state[d]]
  /\ UNCHANGED <<staging, quar, working, strikes, deep>>

Publication(p) ==
  \/ LoadJournal(p) \/ Judge(p) \/ Restore(p) \/ Restored(p) \/ MoveStaging(p) \/ Note(p)
  \/ Purge(p) \/ RemovePayload(p) \/ Unlist(p) \/ Rmdir(p) \/ Build(p) \/ FinalizeOutput(p)
  \/ InspectPrior(p) \/ PublishNew(p) \/ VerifyNew(p) \/ CreateJournal(p) \/ ExchangePaths(p)
  \/ VerifyExchange(p) \/ Rollback(p) \/ Unwind(p) \/ QuarantinePrior(p) \/ Place(p)
  \/ PutBack(p) \/ Finish(p) \/ AbortOutput(p)

OutputNext ==
  /\ \/ \E p \in Publishers : BeginOutput(p) \/ Publication(p) \/ PublisherDies(p) \/ StepFails(p) \/ ValidationFails(p)
     \/ Edit
  /\ exchanging' = exchanging
  /\ met' = (met \/ \E p, o \in Publishers : p # o /\ place'[p] # "idle" /\ place'[o] # "idle")

OutputSpec == OutputInit /\ [][OutputNext]_outputVars

-----------------------------------------------------------------------------
\* Readers of the target see complete outputs only, whoever publishes, recovers
\* or dies at the same time (Commit, recoverReplacement).
TargetComplete == target # NoDir => state[target] \in {"final", "edited"}

\* Without an exchange the absence is bounded: the old output is in the
\* quarantine of a journal from which the next publication restores it.
AbsenceRecoverable ==
  (target = NoDir /\ edits = 0 /\ \E d \in Dirs : quar[d].root /\ quar[d].payload # NoDir) =>
    \E q \in Dirs : quar[q].record /\ quar[q].prior # NoDir /\ Sound(quar[q].payload, quar[q].prior)

\* An interrupted publication is completed or undone by the next one, unless a
\* fault struck while a directory was being removed or while a recovery moved
\* one: then no case of recoverReplacement applies and every Begin fails.
NextRecovers ==
  (\A p \in Publishers : place[p] = "idle") /\ ~deep /\ edits = 0 =>
    \A q \in Dirs : quar[q].record => Recoverable(q)

\* What holds beside other publishers where paths can be exchanged, and of
\* publications one after the other on every platform.
OutputSound ==
  /\ OutputTypeOK
  /\ exchanging => TargetComplete
  /\ ~met => AbsenceRecoverable /\ NextRecovers /\ (edits = 0 => TargetComplete)

\* docs/SECURITY_MODEL.md: with an exchange the target is never absent once it
\* has been published; only the author of a first output may take it back.
NeverAbsent ==
  target # NoDir /\ target' = NoDir =>
    \E p \in Publishers : place[p] = "verifyNew" /\ target = mine[p]

Pending(d) == \E p \in Publishers : place[p] # "idle" /\ mine[p] = d

\* Directories the user has touched are never removed, in whatever step of a
\* replacement they appear at the target (ErrTargetUnowned); Abort may remove
\* the directory its own transaction has created and not yet published.
UserDataKept ==
  \A d \in DOMAIN state :
    state[d] = "edited" /\ ~Pending(d) => state'[d] = "edited"

\* Where paths can be exchanged the target never goes missing and what the user
\* touched stays, whoever publishes at the same time.
OutputStepsSound == [][exchanging => NeverAbsent /\ UserDataKept]_outputVars
=============================================================================
