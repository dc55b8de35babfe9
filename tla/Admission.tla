------------------------------ MODULE Admission ------------------------------
(***************************************************************************)
(* What a command has established before and while it works on a shared    *)
(* host: the load of other workloads, another program's lease, the         *)
(* confinement of its own threads, and the way it is run.  Each part has   *)
(* its own state; they interleave with each other and with the host.       *)
(***************************************************************************)
EXTENDS HostLoad, ModelLease, Envelope, DirectAdmission

admissionVars == <<loadVars, leaseVars, envelopeVars, directVars>>

AdmissionInit == LoadInit /\ LeaseInit /\ EnvelopeInit /\ DirectInit

AdmissionNext ==
  \/ LoadNext /\ UNCHANGED <<leaseVars, envelopeVars, directVars>>
  \/ LeaseNext /\ UNCHANGED <<loadVars, envelopeVars, directVars>>
  \/ EnvelopeNext /\ UNCHANGED <<loadVars, leaseVars, directVars>>
  \/ DirectNext /\ UNCHANGED <<loadVars, leaseVars, envelopeVars>>

AdmissionSpec == AdmissionInit /\ [][AdmissionNext]_admissionVars

-----------------------------------------------------------------------------
\* What lets work run and keeps it from running on: the lease was free, every
\* thread is confined, a command runs unguarded only to print its usage, work
\* that had to yield is never reported as done, and a browser shows only the
\* child's own address.
AdmissionSound ==
  /\ LoadTypeOK /\ LeaseTypeOK /\ EnvelopeTypeOK /\ DirectTypeOK
  /\ LeaseObserved /\ EnvelopeProven /\ DirectSound
=============================================================================
