---------------------------- MODULE OwnerVolume -----------------------------
(* The durable volume of one owner under both of its users: the supervisor,   *)
(* which starts, replaces and loses the sandbox that mounts it, and the       *)
(* processes in that sandbox, which keep the owner's database on it.          *)
EXTENDS Checkpoints, SandboxSupervisor

vars == <<volumeVars, supervisorVars>>

Runs == State = "started"

\* What becomes of the sandbox becomes of its processes and of its files.
Follows ==
  \/ box' = NoBox /\ SandboxGoes
  \/ box' # NoBox /\ box'.state # "started" /\ SandboxStops
  \/ box' # NoBox /\ box'.state = "started" /\ UNCHANGED volumeVars

Init == VolumeInit /\ SupervisorInit

Next ==
  \/ (SupervisorStep \/ Redeploy \/ Accident) /\ Follows
  \/ Runs /\ ProcessStep /\ UNCHANGED supervisorVars

\* A sandbox is reconciled before every turn, so again and again.
Spec == Init /\ [][Next]_vars /\ WF_vars(SupervisorStep /\ Follows)

-----------------------------------------------------------------------------
(* Properties *)

\* A write that was reported to have succeeded is on the volume, and is what a
\* new sandbox would start from, whatever happens to the sandbox, its processes
\* and the slot that is just being written: except while a deletion writes over
\* both slots, or after one was cut short there.
ReportedIsDurable ==
  cut \/ (\E p \in Procs : proc[p].op = "delete" /\ lock = p) \/ acked \subseteq Restorable

\* What was reported as deleted is nowhere any more: in neither slot and in no
\* working copy, and no restored or late checkpoint brings it back.
DeletedIsGone ==
  LET here == (UNION {slots[i].db : i \in Valid}) \cup (IF local = None THEN {} ELSE local)
  IN erased \cap here = {}

\* Sandboxes may stop, break or vanish and calls may fail, after a deployment or
\* between: in the end the owner has a sandbox of the snapshot that is wanted.
SandboxIsServed ==
  []<>(record = [snapshot |-> wanted, status |-> "ready"] /\ Runs /\ box.snapshot = wanted)

=============================================================================
