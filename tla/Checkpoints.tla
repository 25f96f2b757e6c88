---------------------------- MODULE Checkpoints -----------------------------
(* The two checkpoint slots of an owner's database (sqlite_personal_data.py). *)
(* SQLite cannot work on the durable volume, so the database is a local file  *)
(* of the sandbox, and every mutation commits there, takes a backup and       *)
(* writes it, framed with a growing generation, over the slot that is not the *)
(* newest. A deletion writes both slots, so that neither keeps what was       *)
(* deleted. The processes of one sandbox exclude each other by a file lock.   *)
(* A database is the set of facts it holds.                                   *)
EXTENDS Naturals, FiniteSets, FiniteSetsExt, Sequences

CONSTANTS
  Procs,        \* bound: processes of the sandbox at once
  Facts,        \* bound: what is ever written
  Deletable,    \* bound: those that the user deletes
  MaxFailures,  \* bound: writes to the volume that fail, and processes that die
  None

ASSUME CheckpointsAssumption ==
  Deletable \subseteq Facts /\ None \notin Procs /\ \A db \in SUBSET Facts : db # None

VARIABLES
  local,   \* the working copy; None when the sandbox has no file
  slots,   \* the slots 0 and 1: [state, gen, db]; state "missing", "torn" or "whole"
  lock,    \* the process that holds the file lock
  proc,    \* each process: [pc, op, fact, todo, gen, db]
  acked,   \* facts whose writing was reported, and that nobody deletes
  erased,  \* facts whose deletion was reported
  cut,     \* has a process stopped between the two slots of a deletion?
  failures \* so far

volumeVars == <<local, slots, lock, proc, acked, erased, cut, failures>>

Idle == [pc |-> "idle", op |-> "none", fact |-> None, todo |-> <<>>, gen |-> 0, db |-> {}]

-----------------------------------------------------------------------------
(* Slots *)

Slot(state, gen, db) == [state |-> state, gen |-> gen, db |-> db]

Valid == {i \in {0, 1} : slots[i].state = "whole"}
Used == {i \in {0, 1} : slots[i].state # "missing"}

\* Generations differ, so that the newest is unique.
NewestSlot == CHOOSE i \in Valid : \A j \in Valid : slots[j].gen <= slots[i].gen
NewestGen == IF Valid = {} THEN 0 ELSE slots[NewestSlot].gen

\* What a sandbox without a working copy starts from.
Restorable == IF Valid = {} THEN {} ELSE slots[NewestSlot].db

\* Slots, but none of them whole: the repository refuses to open.
Unrestorable == Used # {} /\ Valid = {}

\* Mutant: the slots take turns by generation, valid or not.
SlotsByTurn(op) == IF op = "delete" THEN <<0, 1>> ELSE <<NewestGen % 2>>

\* Mutant: a deletion, too, leaves the older slot alone.
SlotsOther(op) == IF Valid = {} THEN <<0>> ELSE <<1 - NewestSlot>>

\* The slots a checkpoint writes.
SlotsFor(op) ==
  IF op = "delete" THEN <<0, 1>> ELSE IF Valid = {} THEN <<0>> ELSE <<1 - NewestSlot>>

-----------------------------------------------------------------------------
(* One process: open, commit, checkpoint, report *)

\* __init__ of the first process of a sandbox restores the working copy, or
\* begins an empty one; later processes find it.
Open ==
  /\ local = None /\ lock = None /\ ~Unrestorable
  /\ local' = Restorable
  /\ UNCHANGED <<slots, lock, proc, acked, erased, cut, failures>>

\* The local commit. From here on the fact is the user's, or no longer.
Commit(p, op, f) ==
  /\ proc[p].pc = "idle" /\ local # None
  /\ \/ /\ op = "write" /\ f \notin local \cup erased
        /\ \A q \in Procs : proc[q].fact # f
        /\ local' = local \cup {f} /\ UNCHANGED acked
     \/ op = "delete" /\ f \in local \cap Deletable
        /\ local' = local \ {f} /\ acked' = acked \ {f}
  /\ proc' = [proc EXCEPT ![p].pc = "committed", ![p].op = op, ![p].fact = f]
  /\ UNCHANGED <<slots, lock, erased, cut, failures>>

\* confirm_delete again, after a deletion that reported a failure: nothing is
\* left to delete, and both slots are written once more.
DeleteAgain(p, f) ==
  /\ proc[p].pc = "idle" /\ local # None /\ f \notin local \cup acked \cup erased
  /\ \E i \in Valid : f \in slots[i].db
  /\ proc' = [proc EXCEPT ![p].pc = "committed", ![p].op = "delete", ![p].fact = f]
  /\ UNCHANGED <<local, slots, lock, acked, erased, cut, failures>>

\* _checkpoint: under the lock, read the slots and take the backup.
Backup(p) ==
  /\ proc[p].pc = "committed" /\ lock = None /\ lock' = p
  /\ proc' = [proc EXCEPT ![p].pc = "backed", ![p].todo = SlotsFor(proc[p].op),
                          ![p].gen = NewestGen, ![p].db = local]
  /\ UNCHANGED <<local, slots, acked, erased, cut, failures>>

\* open("wb"): the slot is empty until it is written.
Truncate(p) ==
  /\ proc[p].pc = "backed" /\ proc[p].todo # <<>>
  /\ slots' = [slots EXCEPT ![Head(proc[p].todo)] = Slot("torn", 0, {})]
  /\ proc' = [proc EXCEPT ![p].pc = "writing"]
  /\ UNCHANGED <<local, lock, acked, erased, cut, failures>>

WriteSlot(p) ==
  /\ proc[p].pc = "writing"
  /\ slots' = [slots EXCEPT ![Head(proc[p].todo)] = Slot("whole", proc[p].gen + 1, proc[p].db)]
  /\ proc' = [proc EXCEPT ![p].pc = "backed", ![p].gen = @ + 1, ![p].todo = Tail(@)]
  /\ UNCHANGED <<local, lock, acked, erased, cut, failures>>

\* The operation reports what it did.
Report(p) ==
  /\ proc[p].pc = "backed" /\ proc[p].todo = <<>> /\ lock' = None
  /\ acked' = IF proc[p].op = "write" /\ proc[p].fact \in local
              THEN acked \cup {proc[p].fact} ELSE acked
  /\ erased' = IF proc[p].op = "delete" THEN erased \cup {proc[p].fact} ELSE erased
  /\ proc' = [proc EXCEPT ![p] = Idle]
  /\ UNCHANGED <<local, slots, cut, failures>>

\* The deletion of a process that has written over one slot and not over both.
Scrubbing(p) ==
  /\ proc[p].op = "delete"
  /\ proc[p].pc = "writing" \/ (proc[p].pc = "backed" /\ Len(proc[p].todo) = 1)

Cut(ps) == cut' = (cut \/ \E p \in ps : Scrubbing(p))

\* A write to the volume fails (StorageBusyError, although the local commit
\* stands), or the process is killed: the lock is free, the slots stay as they are.
Stops(p) ==
  /\ proc[p].pc # "idle" /\ failures < MaxFailures /\ failures' = failures + 1
  /\ Cut({p})
  /\ proc' = [proc EXCEPT ![p] = Idle]
  /\ lock' = IF lock = p THEN None ELSE lock
  /\ UNCHANGED <<local, slots, acked, erased>>

ProcessStep ==
  \/ Open
  \/ \E p \in Procs : Backup(p) \/ Truncate(p) \/ WriteSlot(p) \/ Report(p) \/ Stops(p)
  \/ \E p \in Procs, f \in Facts : \/ Commit(p, "write", f) \/ Commit(p, "delete", f)
                                   \/ DeleteAgain(p, f)

-----------------------------------------------------------------------------
(* What happens to the processes when something happens to their sandbox *)

\* It stops: its files stay.
AllProcessesEnd ==
  /\ Cut(Procs) /\ proc' = [p \in Procs |-> Idle] /\ lock' = None
  /\ UNCHANGED <<slots, acked, erased, failures>>

SandboxStops == AllProcessesEnd /\ UNCHANGED local

\* It is gone: the volume is all that stays.
SandboxGoes == AllProcessesEnd /\ local' = None

VolumeInit ==
  /\ local = None /\ slots = [i \in {0, 1} |-> Slot("missing", 0, {})] /\ lock = None
  /\ proc = [p \in Procs |-> Idle] /\ acked = {} /\ erased = {} /\ cut = FALSE
  /\ failures = 0

=============================================================================
