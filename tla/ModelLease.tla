----------------------------- MODULE ModelLease -----------------------------
(***************************************************************************)
(* The observation of another program's lease before a workspace refresh:  *)
(* the lease is a kernel lock on the file at a fixed path.  The observer   *)
(* opens the path once, then twice compares it with what it opened, reads  *)
(* the kernel's lock table, and compares again, while files are created,   *)
(* locked, rewritten, unlinked and replaced.                               *)
(***************************************************************************)
EXTENDS Naturals, Sequences

CONSTANTS
  Inodes,     \* files that are ever made at the path
  NoInode,
  MaxChanges  \* bound on what the other programs do

LeaseAssumption == NoInode \notin Inodes /\ MaxChanges \in Nat

VARIABLES
  path,     \* the file at the path
  version,  \* of each file, its change time: every write and link of it counts
  locked,   \* the files with a lock or a waiter
  linked,   \* files that have been at the path
  changes,
  observer, pass, \* where the observer stands
  opened,   \* what it opened, with the version it saw
  free      \* auxiliary: of each reading of the lock table, whether the lease was free

files == <<path, version, locked, linked, changes>>
leaseVars == <<files, observer, pass, opened, free>>

LeaseTypeOK ==
  /\ path \in Inodes \cup {NoInode} /\ version \in [Inodes -> 0..MaxChanges]
  /\ locked \subseteq Inodes /\ linked \subseteq Inodes /\ changes \in 0..MaxChanges
  /\ observer \in {"open", "before", "read", "after", "clear", "refused"} /\ pass \in 0..2
  /\ opened.inode \in Inodes \cup {NoInode} /\ free \in Seq(BOOLEAN)

LeaseInit ==
  /\ path \in Inodes \cup {NoInode} /\ version = [i \in Inodes |-> 0]
  /\ locked = {} /\ linked = {path} \ {NoInode} /\ changes = 0
  /\ observer = "open" /\ pass = 0 /\ opened = [inode |-> NoInode, version |-> 0] /\ free = << >>

-----------------------------------------------------------------------------
(* The program that takes the lease, and others.                           *)

Change ==
  /\ observer \notin {"clear", "refused"} /\ changes < MaxChanges /\ changes' = changes + 1
  /\ UNCHANGED <<observer, pass, opened, free>>

Touch(i) == version' = [version EXCEPT ![i] = @ + 1]

Create(i) == Change /\ path = NoInode /\ i \notin linked /\ path' = i /\ linked' = linked \cup {i} /\ UNCHANGED <<version, locked>>
Rewrite(i) == Change /\ i \in linked /\ Touch(i) /\ UNCHANGED <<path, locked, linked>>
Unlink == Change /\ path # NoInode /\ path' = NoInode /\ Touch(path) /\ UNCHANGED <<locked, linked>>
Replace(i) == Change /\ path \notin {NoInode, i} /\ path' = i /\ linked' = linked \cup {i} /\ Touch(i) /\ UNCHANGED locked
Lock(i) == Change /\ i \in linked \ locked /\ locked' = locked \cup {i} /\ UNCHANGED <<path, version, linked>>
Unlock(i) == Change /\ i \in locked /\ locked' = locked \ {i} /\ UNCHANGED <<path, version, linked>>

-----------------------------------------------------------------------------
(* The observer.  A path, a table or a namespace it cannot prove refuses.  *)

RefuseRefresh == observer' = "refused" /\ UNCHANGED <<files, pass, opened, free>>

Unproven == observer \notin {"clear", "refused"} /\ RefuseRefresh

OpenTree ==
  /\ observer = "open" /\ observer' = "before" /\ pass' = 1
  /\ opened' = [inode |-> path, version |-> IF path = NoInode THEN 0 ELSE version[path]]
  /\ UNCHANGED <<files, free>>

\* The opened file and the file at the path are both what was opened; a path
\* that was missing is still missing.
Same ==
  /\ path = opened.inode
  /\ path = NoInode \/ version[path] = opened.version

RecheckBefore ==
  /\ observer = "before"
  /\ IF Same THEN observer' = "read" /\ UNCHANGED <<files, pass, opened, free>> ELSE RefuseRefresh

\* The lock table names files by their inode; a missing file has none.
ModelLeaseTableBusy == opened.inode \in locked

ReadLocks ==
  /\ observer = "read"
  /\ free' = Append(free, path \notin locked)
  /\ observer' = IF ModelLeaseTableBusy THEN "refused" ELSE "after"
  /\ UNCHANGED <<files, pass, opened>>

RecheckAfter ==
  /\ observer = "after"
  /\ IF Same
     THEN /\ observer' = IF pass = 2 THEN "clear" ELSE "before"
          /\ pass' = IF pass = 2 THEN 2 ELSE pass + 1
          /\ UNCHANGED <<files, opened, free>>
     ELSE RefuseRefresh

LeaseNext ==
  \/ \E i \in Inodes : Create(i) \/ Rewrite(i) \/ Replace(i) \/ Lock(i) \/ Unlock(i)
  \/ Unlink \/ Unproven
  \/ OpenTree \/ RecheckBefore \/ ReadLocks \/ RecheckAfter

LeaseSpec == LeaseInit /\ [][LeaseNext]_leaseVars

-----------------------------------------------------------------------------
\* A refresh is let through only if the lease was free at both readings of the
\* lock table, whatever file was at the path then: a lease that moves to another
\* file during the observation is not overlooked.  A path that was missing when
\* it was opened may have been used in between; it is missing at the end.
LeaseObserved ==
  observer = "clear" =>
    /\ Len(free) = 2
    /\ opened.inode # NoInode => free = <<TRUE, TRUE>>

\* Inductive: a file that has left the path comes back only with a later change
\* time, so a reading of the table that missed it is not followed by a recheck
\* that finds it unchanged.
LeaseInv ==
  /\ LeaseTypeOK
  /\ opened.version \in Nat /\ \A i \in Inodes : version[i] <= changes
  /\ path # NoInode => path \in linked
  /\ observer \notin {"open", "refused"} => pass \in 1..2
  /\ observer = "open" => pass = 0 /\ free = << >> /\ opened.inode = NoInode
  /\ observer \in {"before", "read"} => Len(free) = pass - 1
  /\ observer \in {"after", "clear"} => Len(free) = pass
  /\ observer = "clear" => pass = 2
  /\ opened.inode # NoInode =>
       /\ opened.inode \in linked /\ opened.version <= version[opened.inode]
       /\ \A n \in 1..Len(free) : ~free[n] =>
            /\ observer # "clear"
            /\ observer = "refused" \/ path # opened.inode \/ opened.version < version[opened.inode]
=============================================================================
