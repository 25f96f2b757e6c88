-------------------------- MODULE OwnerVolumeProofs -------------------------
(* That what was deleted is gone, and that what was reported is what a new    *)
(* sandbox starts from, for any number of processes, facts, failures,         *)
(* deployments and accidents.                                                 *)
EXTENDS OwnerVolume, TLAPS

-----------------------------------------------------------------------------
(* Slots, of the volume as it is and as it becomes. *)

SlotType == [state : {"missing", "torn", "whole"}, gen : Nat, db : SUBSET Facts]

ValidOf(s) == {i \in {0, 1} : s[i].state = "whole"}
NewestOf(s) == CHOOSE i \in ValidOf(s) : \A j \in ValidOf(s) : s[j].gen <= s[i].gen
RestorableOf(s) == IF ValidOf(s) = {} THEN {} ELSE s[NewestOf(s)].db

LEMMA SlotsOfTheVolume ==
  /\ Valid = ValidOf(slots) /\ NewestSlot = NewestOf(slots) /\ Restorable = RestorableOf(slots)
  /\ Valid' = ValidOf(slots') /\ Restorable' = RestorableOf(slots')
BY DEF Valid, ValidOf, NewestSlot, NewestOf, Restorable, RestorableOf

\* Of one or two slots there is a newest.
LEMMA NewestIsValid ==
  ASSUME NEW s \in [{0, 1} -> SlotType], ValidOf(s) # {}
  PROVE  NewestOf(s) \in ValidOf(s) /\ \A j \in ValidOf(s) : s[j].gen <= s[NewestOf(s)].gen
<1>1. \E i \in ValidOf(s) : \A j \in ValidOf(s) : s[j].gen <= s[i].gen
  <2>1. PICK i \in ValidOf(s) : TRUE
    OBVIOUS
  <2>2. i \in {0, 1} /\ ValidOf(s) \subseteq {0, 1} /\ s[0].gen \in Nat /\ s[1].gen \in Nat
    BY DEF ValidOf, SlotType
  <2>3. CASE ValidOf(s) = {i}
    BY <2>2, <2>3
  <2>4. CASE ValidOf(s) = {0, 1}
    BY <2>2, <2>4
  <2> QED
    BY <2>2, <2>3, <2>4
<1> QED
  BY <1>1 DEF NewestOf

\* A whole slot that is newer than the other is what is restored.
LEMMA NewerIsRestored ==
  ASSUME NEW s \in [{0, 1} -> SlotType], NEW h \in ValidOf(s),
         \A j \in ValidOf(s) : j # h => s[j].gen < s[h].gen
  PROVE  RestorableOf(s) = s[h].db
<1>1. NewestOf(s) \in ValidOf(s) /\ s[h].gen <= s[NewestOf(s)].gen
  BY NewestIsValid
<1>2. s[h].gen \in Nat /\ s[NewestOf(s)].gen \in Nat
  BY <1>1 DEF ValidOf, SlotType
<1>3. NewestOf(s) = h
  BY <1>1, <1>2
<1> QED
  BY <1>3 DEF RestorableOf

\* To tear the slot that is not the newest changes nothing.
LEMMA TornIsNotRestored ==
  ASSUME NEW s \in [{0, 1} -> SlotType], NEW h \in {0, 1},
         ValidOf(s) = {} \/ h = 1 - NewestOf(s)
  PROVE  RestorableOf([s EXCEPT ![h] = Slot("torn", 0, {})]) = RestorableOf(s)
<1> DEFINE t == [s EXCEPT ![h] = Slot("torn", 0, {})]
<1>1. t \in [{0, 1} -> SlotType] /\ ValidOf(t) = ValidOf(s) \ {h}
  BY DEF Slot, SlotType, ValidOf
<1>2. CASE ValidOf(s) = {}
  BY <1>1, <1>2 DEF RestorableOf
<1>3. CASE ValidOf(s) # {}
  <2> DEFINE n == NewestOf(s)
  <2>1. n \in ValidOf(s) /\ n \in {0, 1} /\ h = 1 - n
    BY <1>3, NewestIsValid DEF ValidOf
  <2>2. n # h /\ ValidOf(t) = {n} /\ t[n] = s[n]
    BY <1>1, <2>1 DEF ValidOf
  <2>3. RestorableOf(t) = t[n].db
    BY <1>1, <2>2, NewerIsRestored
  <2>4. RestorableOf(s) = s[n].db
    BY <1>3 DEF RestorableOf
  <2> QED
    BY <2>2, <2>3, <2>4
<1> QED
  BY <1>2, <1>3

Todo == {<<>>, <<0>>, <<1>>, <<0, 1>>}

\* The slots that are still to be written.
Left(todo) ==
  IF todo = <<0, 1>> THEN {0, 1} ELSE IF todo = <<0>> THEN {0} ELSE IF todo = <<1>> THEN {1} ELSE {}

LEMMA TodoFacts ==
  ASSUME NEW todo \in Todo, todo # <<>>
  PROVE  /\ Head(todo) \in {0, 1} /\ Tail(todo) \in Todo
         /\ Left(Tail(todo)) = Left(todo) \ {Head(todo)}
         /\ todo \in {<<0>>, <<1>>} => Tail(todo) = <<>>
         /\ Tail(todo) # <<0, 1>>
         /\ todo # <<0, 1>> => Len(todo) = 1
<1>1. /\ Head(<<0>>) = 0 /\ Tail(<<0>>) = <<>> /\ Len(<<0>>) = 1
      /\ Head(<<1>>) = 1 /\ Tail(<<1>>) = <<>> /\ Len(<<1>>) = 1
      /\ Head(<<0, 1>>) = 0 /\ Tail(<<0, 1>>) = <<1>>
  OBVIOUS
<1>2. <<0>> # <<1>> /\ <<0, 1>> # <<0>> /\ <<0, 1>> # <<1>> /\ <<0, 1>> # <<>> /\ <<0>> # <<>> /\ <<1>> # <<>>
  OBVIOUS
<1> QED
  BY <1>1, <1>2 DEF Todo, Left

-----------------------------------------------------------------------------
(* The invariant. *)

ProcType ==
  [pc : {"idle", "committed", "backed", "writing"}, op : {"none", "write", "delete"},
   fact : Facts \cup {None}, todo : Todo, gen : Nat, db : SUBSET Facts]

VolumeTypes ==
  /\ local \in (SUBSET Facts) \cup {None} /\ slots \in [{0, 1} -> SlotType]
  /\ lock \in Procs \cup {None} /\ proc \in [Procs -> ProcType]
  /\ acked \subseteq Facts /\ erased \subseteq Facts /\ cut \in BOOLEAN

Holds(p) == proc[p].pc \in {"backed", "writing"}
Deletes(p) == Holds(p) /\ proc[p].op = "delete"

\* One process is at the volume, and there is a working copy while any is at work.
LockInv ==
  /\ \A p \in Procs : Holds(p) <=> lock = p
  /\ \A p \in Procs : proc[p].pc # "idle" =>
       local # None /\ proc[p].op \in {"write", "delete"} /\ proc[p].fact \in Facts

\* What is erased is nowhere, nor on its way; what is being deleted is on its way
\* to be nowhere.
DeletedInv ==
  /\ \A f \in erased :
       /\ local # None => f \notin local
       /\ \A i \in {0, 1} : f \notin slots[i].db
       /\ \A p \in Procs : Holds(p) => f \notin proc[p].db
  /\ \A p \in Procs : proc[p].pc # "idle" /\ proc[p].op = "delete" => proc[p].fact \notin local
  /\ \A p \in Procs : Deletes(p) =>
       /\ proc[p].fact \notin proc[p].db
       /\ \A i \in {0, 1} : i \in Left(proc[p].todo) \/ proc[p].fact \notin slots[i].db

\* What is acknowledged is in the working copy, in what is being written, and in
\* what would be restored, but for a deletion that writes over both slots.
DurableInv ==
  /\ cut \/ local = None \/ acked \subseteq local
  /\ cut \/ (\E p \in Procs : Deletes(p)) \/ acked \subseteq Restorable
  /\ \A p \in Procs : Holds(p) =>
       /\ cut \/ acked \subseteq proc[p].db
       /\ \A i \in Valid : slots[i].gen <= proc[p].gen
       /\ proc[p].op = "write" /\ proc[p].fact \in local => proc[p].fact \in proc[p].db
       /\ proc[p].op = "write" => proc[p].todo # <<0, 1>>
       /\ proc[p].pc = "writing" => proc[p].todo # <<>>
  /\ \A p \in Procs : proc[p].pc = "backed" =>
       /\ proc[p].todo = <<>> => Restorable = proc[p].db
       /\ proc[p].op = "write" /\ proc[p].todo # <<>> =>
            Valid = {} \/ Head(proc[p].todo) = 1 - NewestSlot
       /\ proc[p].op = "delete" /\ proc[p].todo = <<0, 1>> => cut \/ acked \subseteq Restorable

VolumeInv == VolumeTypes /\ LockInv /\ DeletedInv /\ DurableInv

\* Nobody is at the volume while nobody has its lock.
LEMMA UnlockedIsStill ==
  ASSUME VolumeInv, lock = None
  PROVE  /\ \A p \in Procs : ~Holds(p)
         /\ cut \/ acked \subseteq Restorable
BY CheckpointsAssumption DEF VolumeInv, LockInv, DurableInv, Deletes

\* And nobody else while someone has it.
LEMMA OneHolder ==
  ASSUME VolumeInv, NEW p \in Procs, Holds(p)
  PROVE  lock = p /\ \A q \in Procs : Holds(q) => q = p
BY DEF VolumeInv, LockInv

LEMMA OpenKeeps ==
  ASSUME VolumeInv, Open
  PROVE  VolumeInv'
<1>1. \A p \in Procs : proc[p].pc = "idle"
  BY DEF Open, VolumeInv, LockInv
<1>2. Restorable \subseteq Facts /\ \A f \in erased : f \notin Restorable
  BY SlotsOfTheVolume, NewestIsValid DEF VolumeInv, VolumeTypes, DeletedInv, RestorableOf, ValidOf, SlotType
<1>3. cut \/ acked \subseteq Restorable
  BY UnlockedIsStill DEF Open
<1>4. Restorable # None
  BY <1>2, CheckpointsAssumption
<1>5. local' = Restorable /\ UNCHANGED <<slots, lock, proc, acked, erased, cut>> /\ Restorable' = Restorable
  BY SlotsOfTheVolume DEF Open
<1>6. VolumeTypes'
  BY <1>2, <1>5 DEF VolumeInv, VolumeTypes
<1>7. LockInv'
  BY <1>1, <1>5 DEF VolumeInv, LockInv, Holds
<1>8. DeletedInv'
  BY <1>1, <1>2, <1>5 DEF VolumeInv, DeletedInv, Holds, Deletes
<1>9. DurableInv'
  BY <1>1, <1>3, <1>5 DEF DurableInv, Holds
<1> QED
  BY <1>6, <1>7, <1>8, <1>9 DEF VolumeInv

LEMMA CommitWriteKeeps ==
  ASSUME VolumeInv, NEW p \in Procs, NEW f \in Facts, Commit(p, "write", f)
  PROVE  VolumeInv'
<1>1. /\ proc[p].pc = "idle" /\ local \in SUBSET Facts /\ local # None /\ f \notin local \cup erased
      /\ local' = local \cup {f} /\ UNCHANGED <<slots, lock, acked, erased, cut>>
      /\ \A q \in Procs : proc[q].fact # f
  <2>0. local # None
    BY DEF Commit
  <2>1. local \in SUBSET Facts
    BY <2>0 DEF VolumeInv, VolumeTypes
  <2>2. "write" # "delete"
    OBVIOUS
  <2> QED
    BY <2>1, <2>2, Zenon DEF Commit
<1>2. /\ proc' \in [Procs -> ProcType] /\ \A q \in Procs : q # p => proc'[q] = proc[q]
      /\ proc'[p].pc = "committed" /\ proc'[p].op = "write" /\ proc'[p].fact = f
  BY DEF Commit, VolumeInv, VolumeTypes, ProcType
<1>3. local' # None /\ local' \in SUBSET Facts
  BY <1>1, CheckpointsAssumption
<1>4. \A q \in Procs : Holds(q)' => q # p /\ Holds(q) /\ proc'[q] = proc[q]
  BY <1>2 DEF Holds
<1>5. \A q \in Procs : Holds(q) => Holds(q)' /\ q # p /\ proc'[q] = proc[q]
  BY <1>1, <1>2 DEF Holds
<1>6. VolumeTypes'
  BY <1>1, <1>2, <1>3 DEF VolumeInv, VolumeTypes
<1>7. LockInv'
  BY <1>1, <1>2, <1>3, <1>4, <1>5 DEF VolumeInv, LockInv
<1>8. DeletedInv'
  BY <1>1, <1>2, <1>4 DEF VolumeInv, DeletedInv, Deletes
<1>9. DurableInv'
  <2>1. UNCHANGED <<Valid, NewestSlot, Restorable>>
    BY <1>1 DEF Valid, NewestSlot, Restorable
  <2>2. \A q \in Procs : Deletes(q) => Deletes(q)'
    BY <1>5 DEF Deletes
  <2>3. \A q \in Procs : proc'[q].pc = "backed" => q # p /\ proc'[q] = proc[q]
    BY <1>2
  <2> QED
    BY <1>1, <1>3, <1>4, <2>1, <2>2, <2>3 DEF VolumeInv, DurableInv
<1> QED
  BY <1>6, <1>7, <1>8, <1>9 DEF VolumeInv

LEMMA CommitDeleteKeeps ==
  ASSUME VolumeInv, NEW p \in Procs, NEW f \in Facts, Commit(p, "delete", f) \/ DeleteAgain(p, f)
  PROVE  VolumeInv'
<1>1. /\ proc[p].pc = "idle" /\ local \in SUBSET Facts /\ local # None
      /\ local' = local \ {f} /\ acked' = acked \ {f} /\ UNCHANGED <<slots, lock, erased, cut>>
  <2>0. local # None
    BY DEF Commit, DeleteAgain
  <2>1. local \in SUBSET Facts
    BY <2>0 DEF VolumeInv, VolumeTypes
  <2>2. CASE Commit(p, "delete", f)
    BY <2>1, <2>2 DEF Commit
  <2>3. CASE DeleteAgain(p, f)
    <3>1. f \notin local /\ f \notin acked
      BY <2>3 DEF DeleteAgain
    <3>2. local \ {f} = local /\ acked \ {f} = acked
      BY <3>1
    <3> QED
      BY <2>1, <2>3, <3>2 DEF DeleteAgain
  <2> QED
    BY <2>2, <2>3
<1>2. /\ proc' \in [Procs -> ProcType] /\ \A q \in Procs : q # p => proc'[q] = proc[q]
      /\ proc'[p].pc = "committed" /\ proc'[p].op = "delete" /\ proc'[p].fact = f
  BY DEF Commit, DeleteAgain, VolumeInv, VolumeTypes, ProcType
<1>3. local' # None /\ local' \in SUBSET Facts
  BY <1>1, CheckpointsAssumption
<1>4. \A q \in Procs : Holds(q)' => q # p /\ Holds(q) /\ proc'[q] = proc[q]
  BY <1>2 DEF Holds
<1>5. \A q \in Procs : Holds(q) => Holds(q)' /\ q # p /\ proc'[q] = proc[q]
  BY <1>1, <1>2 DEF Holds
<1>6. VolumeTypes'
  BY <1>1, <1>2, <1>3 DEF VolumeInv, VolumeTypes
<1>7. LockInv'
  BY <1>1, <1>2, <1>3, <1>4, <1>5 DEF VolumeInv, LockInv
<1>8. DeletedInv'
  BY <1>1, <1>2, <1>4 DEF VolumeInv, DeletedInv, Deletes
<1>9. DurableInv'
  <2>1. UNCHANGED <<Valid, NewestSlot, Restorable>>
    BY <1>1 DEF Valid, NewestSlot, Restorable
  <2>2. \A q \in Procs : Deletes(q) => Deletes(q)'
    BY <1>5 DEF Deletes
  <2>3. \A q \in Procs : proc'[q].pc = "backed" => q # p /\ proc'[q] = proc[q]
    BY <1>2
  <2> QED
    BY <1>1, <1>3, <1>4, <2>1, <2>2, <2>3 DEF VolumeInv, DurableInv
<1> QED
  BY <1>6, <1>7, <1>8, <1>9 DEF VolumeInv

LEMMA BackupKeeps ==
  ASSUME VolumeInv, NEW p \in Procs, Backup(p)
  PROVE  VolumeInv'
<1>1. /\ proc[p].pc = "committed" /\ lock = None /\ lock' = p
      /\ UNCHANGED <<local, slots, acked, erased, cut>>
  BY DEF Backup
<1>2. /\ \A q \in Procs : q # p => proc'[q] = proc[q]
      /\ proc'[p] = [proc[p] EXCEPT !.pc = "backed", !.todo = SlotsFor(proc[p].op),
                                    !.gen = NewestGen, !.db = local]
  BY DEF Backup, VolumeInv, VolumeTypes
<1>3. local # None /\ proc[p].op \in {"write", "delete"} /\ proc[p].fact \in Facts
  BY <1>1 DEF VolumeInv, LockInv
<1>4. local \in SUBSET Facts
  BY <1>3 DEF VolumeInv, VolumeTypes
<1>5. NewestGen \in Nat /\ \A i \in Valid : slots[i].gen <= NewestGen
  <2>1. CASE Valid = {}
    BY <2>1 DEF NewestGen
  <2>2. CASE Valid # {}
    <3>1. NewestSlot \in Valid /\ \A i \in Valid : slots[i].gen <= slots[NewestSlot].gen
      BY <2>2, SlotsOfTheVolume, NewestIsValid DEF VolumeInv, VolumeTypes
    <3>2. NewestGen = slots[NewestSlot].gen
      BY <2>2 DEF NewestGen
    <3>3. slots[NewestSlot].gen \in Nat
      BY <3>1 DEF VolumeInv, VolumeTypes, SlotType, Valid
    <3> QED
      BY <3>1, <3>2, <3>3
  <2> QED
    BY <2>1, <2>2
<1>6. /\ SlotsFor(proc[p].op) \in Todo /\ SlotsFor(proc[p].op) # <<>>
      /\ proc[p].op = "delete" => SlotsFor(proc[p].op) = <<0, 1>>
      /\ proc[p].op = "write" => /\ SlotsFor(proc[p].op) # <<0, 1>>
                                 /\ Valid = {} \/ Head(SlotsFor(proc[p].op)) = 1 - NewestSlot
  <2>1. Valid = {} \/ NewestSlot \in {0, 1}
    BY SlotsOfTheVolume, NewestIsValid DEF VolumeInv, VolumeTypes, ValidOf
  <2>2. /\ <<0>> # <<0, 1>> /\ <<1>> # <<0, 1>> /\ <<0, 1>> # <<>> /\ <<0>> # <<>> /\ <<1>> # <<>>
        /\ Head(<<0>>) = 0 /\ Head(<<1>>) = 1
    OBVIOUS
  <2>3. CASE proc[p].op = "delete"
    BY <2>2, <2>3 DEF SlotsFor, Todo
  <2>4. CASE proc[p].op = "write"
    <3>1. CASE Valid = {}
      BY <2>2, <2>4, <3>1 DEF SlotsFor, Todo
    <3>2. CASE Valid # {} /\ NewestSlot = 0
      BY <2>2, <2>4, <3>2 DEF SlotsFor, Todo
    <3>3. CASE Valid # {} /\ NewestSlot = 1
      BY <2>2, <2>4, <3>3 DEF SlotsFor, Todo
    <3> QED
      BY <2>1, <3>1, <3>2, <3>3
  <2> QED
    BY <1>3, <2>3, <2>4
<1>7. /\ proc'[p].pc = "backed" /\ proc'[p].op = proc[p].op /\ proc'[p].fact = proc[p].fact
      /\ proc'[p].todo = SlotsFor(proc[p].op) /\ proc'[p].gen = NewestGen /\ proc'[p].db = local
      /\ proc' \in [Procs -> ProcType]
  <2>1. proc[p] \in ProcType /\ proc \in [Procs -> ProcType]
    BY DEF VolumeInv, VolumeTypes
  <2>2. /\ proc'[p].pc = "backed" /\ proc'[p].op = proc[p].op /\ proc'[p].fact = proc[p].fact
        /\ proc'[p].todo = SlotsFor(proc[p].op) /\ proc'[p].gen = NewestGen /\ proc'[p].db = local
        /\ proc'[p] \in ProcType
    BY <1>2, <1>4, <1>5, <1>6, <2>1 DEF ProcType
  <2>3. DOMAIN proc' = Procs /\ proc' = [q \in Procs |-> proc'[q]]
    BY <2>1 DEF Backup
  <2> QED
    BY <1>2, <2>1, <2>2, <2>3
<1>8. (\A q \in Procs : ~Holds(q)) /\ (cut \/ acked \subseteq Restorable)
  BY <1>1, UnlockedIsStill
<1>9. \A q \in Procs : Holds(q)' <=> q = p
  BY <1>2, <1>7, <1>8 DEF Holds
<1>10. UNCHANGED <<Valid, NewestSlot, Restorable>>
  BY <1>1 DEF Valid, NewestSlot, Restorable
<1>11. VolumeTypes'
  BY <1>1, <1>7 DEF VolumeInv, VolumeTypes
<1>12. LockInv'
  BY <1>1, <1>2, <1>3, <1>7, <1>9 DEF VolumeInv, LockInv
<1>13. DeletedInv'
  <2>1. \A i \in {0, 1} : proc[p].op = "delete" => i \in Left(proc'[p].todo)
    BY <1>6, <1>7 DEF Left
  <2>2. proc[p].op = "delete" => proc[p].fact \notin local
    BY <1>1 DEF VolumeInv, DeletedInv
  <2> QED
    BY <1>1, <1>2, <1>3, <1>7, <1>9, <2>1, <2>2 DEF VolumeInv, DeletedInv, Deletes
<1>14. DurableInv'
  <2>1. cut \/ acked \subseteq local
    BY <1>3 DEF VolumeInv, DurableInv
  <2>2. proc[p].op = "write" => proc[p].op # "delete"
    OBVIOUS
  <2>3. /\ proc'[p].op = "write" => proc'[p].todo # <<0, 1>>
        /\ proc'[p].pc # "writing" /\ proc'[p].todo # <<>>
        /\ proc'[p].op = "write" => Valid = {} \/ Head(proc'[p].todo) = 1 - NewestSlot
    BY <1>6, <1>7
  <2>4. \A q \in Procs : proc'[q].pc = "backed" => q = p
    BY <1>9 DEF Holds
  <2> QED
    BY <1>1, <1>5, <1>7, <1>8, <1>9, <1>10, <2>1, <2>3, <2>4 DEF DurableInv
<1> QED
  BY <1>11, <1>12, <1>13, <1>14 DEF VolumeInv

LEMMA TruncateKeeps ==
  ASSUME VolumeInv, NEW p \in Procs, Truncate(p)
  PROVE  VolumeInv'
<1> DEFINE h == Head(proc[p].todo)
<1>1. /\ proc[p].pc = "backed" /\ proc[p].todo # <<>> /\ slots' = [slots EXCEPT ![h] = Slot("torn", 0, {})]
      /\ UNCHANGED <<local, lock, acked, erased, cut>>
  BY DEF Truncate
<1>2. proc[p] \in ProcType /\ h \in {0, 1}
  <2>1. proc[p] \in ProcType
    BY DEF VolumeInv, VolumeTypes
  <2> QED
    BY <1>1, <2>1, TodoFacts DEF ProcType
<1>3. /\ proc' \in [Procs -> ProcType] /\ \A q \in Procs : q # p => proc'[q] = proc[q]
      /\ proc'[p].pc = "writing" /\ proc'[p].op = proc[p].op /\ proc'[p].fact = proc[p].fact
      /\ proc'[p].todo = proc[p].todo /\ proc'[p].gen = proc[p].gen /\ proc'[p].db = proc[p].db
  BY DEF Truncate, VolumeInv, VolumeTypes, ProcType
<1>4. /\ slots' \in [{0, 1} -> SlotType] /\ \A i \in {0, 1} : i # h => slots'[i] = slots[i]
      /\ slots'[h].state = "torn" /\ slots'[h].db = {}
  BY <1>1, <1>2 DEF VolumeInv, VolumeTypes, SlotType, Slot
<1>5. Holds(p) /\ (\A q \in Procs : Holds(q) => q = p) /\ \A q \in Procs : Holds(q)' <=> Holds(q)
  BY <1>1, <1>3, OneHolder DEF Holds
<1>6. VolumeTypes'
  BY <1>1, <1>3, <1>4 DEF VolumeInv, VolumeTypes
<1>7. LockInv'
  BY <1>1, <1>3, <1>5 DEF VolumeInv, LockInv
<1>8. DeletedInv'
  <2>1. \A i \in {0, 1} : slots'[i].db \subseteq slots[i].db
    BY <1>4
  <2> QED
    BY <1>1, <1>3, <1>5, <2>1 DEF VolumeInv, DeletedInv, Deletes
<1>9. DurableInv'
  <2>1. \A i \in Valid' : i \in Valid /\ slots'[i] = slots[i]
    BY <1>4 DEF Valid
  <2>2. CASE proc[p].op = "delete"
    <3>1. Deletes(p)'
      BY <1>3, <1>5, <2>2 DEF Deletes
    <3> QED
      BY <1>1, <1>3, <1>5, <2>1, <3>1 DEF VolumeInv, DurableInv, Holds
  <2>3. CASE proc[p].op # "delete"
    <3>1. proc[p].op = "write"
      BY <1>1, <2>3 DEF VolumeInv, LockInv
    <3>2. Valid = {} \/ h = 1 - NewestSlot
      BY <1>1, <3>1 DEF VolumeInv, DurableInv
    <3>3. Restorable' = Restorable
      BY <1>1, <1>2, <3>2, SlotsOfTheVolume, TornIsNotRestored DEF VolumeInv, VolumeTypes
    <3>4. cut \/ acked \subseteq Restorable
      BY <1>5, <2>3 DEF VolumeInv, DurableInv, Deletes
    <3> QED
      BY <1>1, <1>3, <1>5, <2>1, <3>3, <3>4 DEF VolumeInv, DurableInv, Holds
  <2> QED
    BY <2>2, <2>3
<1> QED
  BY <1>6, <1>7, <1>8, <1>9 DEF VolumeInv

LEMMA WriteSlotKeeps ==
  ASSUME VolumeInv, NEW p \in Procs, WriteSlot(p)
  PROVE  VolumeInv'
<1> DEFINE h == Head(proc[p].todo)
<1>1. /\ proc[p].pc = "writing"
      /\ slots' = [slots EXCEPT ![h] = Slot("whole", proc[p].gen + 1, proc[p].db)]
      /\ UNCHANGED <<local, lock, acked, erased, cut>>
  BY DEF WriteSlot
<1>2. Holds(p) /\ \A q \in Procs : Holds(q) => q = p
  BY <1>1, OneHolder DEF Holds
<1>3. proc[p] \in ProcType /\ proc[p].todo \in Todo /\ proc[p].todo # <<>>
  <2>1. proc[p] \in ProcType
    BY DEF VolumeInv, VolumeTypes
  <2>2. proc[p].todo # <<>>
    BY <1>1, <1>2 DEF VolumeInv, DurableInv
  <2> QED
    BY <2>1, <2>2 DEF ProcType
<1>4. /\ h \in {0, 1} /\ Tail(proc[p].todo) \in Todo /\ Tail(proc[p].todo) # <<0, 1>>
      /\ Left(Tail(proc[p].todo)) = Left(proc[p].todo) \ {h}
      /\ proc[p].todo \in {<<0>>, <<1>>} => Tail(proc[p].todo) = <<>>
  BY <1>3, TodoFacts
<1>5. /\ proc' \in [Procs -> ProcType] /\ \A q \in Procs : q # p => proc'[q] = proc[q]
      /\ proc'[p].pc = "backed" /\ proc'[p].op = proc[p].op /\ proc'[p].fact = proc[p].fact
      /\ proc'[p].todo = Tail(proc[p].todo) /\ proc'[p].gen = proc[p].gen + 1
      /\ proc'[p].db = proc[p].db
  BY <1>3, <1>4 DEF WriteSlot, VolumeInv, VolumeTypes, ProcType
<1>6. /\ slots' \in [{0, 1} -> SlotType] /\ \A i \in {0, 1} : i # h => slots'[i] = slots[i]
      /\ slots'[h] = Slot("whole", proc[p].gen + 1, proc[p].db)
  BY <1>1, <1>3, <1>4 DEF VolumeInv, VolumeTypes, SlotType, Slot, ProcType
<1>7. \A i \in ValidOf(slots') : i # h => slots'[i].gen <= proc[p].gen
  BY <1>2, <1>6 DEF VolumeInv, DurableInv, Valid, ValidOf
<1>8. h \in ValidOf(slots') /\ slots'[h].gen = proc[p].gen + 1 /\ slots'[h].db = proc[p].db
  BY <1>4, <1>6 DEF ValidOf, Slot
<1>9. Restorable' = proc[p].db
  <2>1. \A i \in ValidOf(slots') : i # h => slots'[i].gen < slots'[h].gen
    <3>1. proc[p].gen \in Nat /\ \A i \in ValidOf(slots') : slots'[i].gen \in Nat
      BY <1>3, <1>6 DEF ProcType, SlotType, ValidOf
    <3> QED
      BY <1>7, <1>8, <3>1
  <2> QED
    BY <1>6, <1>8, <2>1, NewerIsRestored, SlotsOfTheVolume
<1>10. \A q \in Procs : Holds(q)' <=> Holds(q)
  BY <1>2, <1>5 DEF Holds
<1>11. VolumeTypes'
  BY <1>1, <1>5, <1>6 DEF VolumeInv, VolumeTypes
<1>12. LockInv'
  BY <1>1, <1>2, <1>5, <1>10 DEF VolumeInv, LockInv, Holds
<1>13. DeletedInv'
  <2>1. \A i \in {0, 1} : slots'[i].db = IF i = h THEN proc[p].db ELSE slots[i].db
    BY <1>6, <1>8
  <2>2. \A f \in erased : f \notin proc[p].db
    BY <1>2 DEF VolumeInv, DeletedInv
  <2>3. \A f \in erased : \A i \in {0, 1} : f \notin slots'[i].db
    BY <2>1, <2>2 DEF VolumeInv, DeletedInv
  <2>4. \A q \in Procs : Deletes(q)' => q = p /\ Deletes(p)
    BY <1>2, <1>5, <1>10 DEF Deletes
  <2>5. Deletes(p) => /\ proc[p].fact \notin proc[p].db
                      /\ \A i \in {0, 1} : i \in Left(Tail(proc[p].todo)) \/ proc[p].fact \notin slots'[i].db
    BY <1>4, <2>1 DEF VolumeInv, DeletedInv
  <2>6. \A q \in Procs : proc'[q].pc # "idle" /\ proc'[q].op = "delete" => proc'[q].fact \notin local
    BY <1>1, <1>5 DEF VolumeInv, DeletedInv
  <2> QED
    BY <1>1, <1>2, <1>5, <1>10, <2>2, <2>3, <2>4, <2>5, <2>6 DEF VolumeInv, DeletedInv
<1>14. DurableInv'
  <2>1. /\ cut \/ acked \subseteq proc[p].db
        /\ proc[p].op = "write" /\ proc[p].fact \in local => proc[p].fact \in proc[p].db
        /\ proc[p].op = "write" => proc[p].todo # <<0, 1>>
    BY <1>2 DEF VolumeInv, DurableInv
  <2>2. proc[p].op = "write" => Tail(proc[p].todo) = <<>>
    BY <1>3, <1>4, <2>1 DEF Todo
  <2>3. \A i \in Valid' : slots'[i].gen <= proc[p].gen + 1
    <3>1. proc[p].gen \in Nat /\ \A i \in ValidOf(slots') : slots'[i].gen \in Nat
      BY <1>3, <1>6 DEF ProcType, SlotType, ValidOf
    <3> QED
      BY <1>7, <1>8, <3>1, SlotsOfTheVolume
  <2>4. cut \/ local = None \/ acked \subseteq local
    BY DEF VolumeInv, DurableInv
  <2>5. \A q \in Procs : proc'[q].pc = "backed" => q = p
    BY <1>2, <1>10 DEF Holds
  <2>6. <<>> # <<0, 1>>
    OBVIOUS
  <2> QED
    BY <1>1, <1>2, <1>4, <1>5, <1>9, <1>10, <2>1, <2>2, <2>3, <2>4, <2>5, <2>6 DEF DurableInv
<1> QED
  BY <1>11, <1>12, <1>13, <1>14 DEF VolumeInv

LEMMA ReportKeeps ==
  ASSUME VolumeInv, NEW p \in Procs, Report(p)
  PROVE  VolumeInv'
<1> DEFINE f == proc[p].fact
<1>1. /\ proc[p].pc = "backed" /\ proc[p].todo = <<>> /\ lock' = None
      /\ UNCHANGED <<local, slots, cut>> /\ proc' = [proc EXCEPT ![p] = Idle]
  BY DEF Report
<1>2. Holds(p) /\ \A q \in Procs : Holds(q) => q = p
  BY <1>1, OneHolder DEF Holds
<1>3. local # None /\ f \in Facts /\ proc[p].op \in {"write", "delete"}
  BY <1>1 DEF VolumeInv, LockInv
<1>4. local \in SUBSET Facts
  BY <1>3 DEF VolumeInv, VolumeTypes
<1>5. /\ acked \subseteq acked' /\ acked' \subseteq acked \cup {f}
      /\ acked' # acked => f \in local /\ proc[p].op = "write"
  BY DEF Report
<1>6. /\ erased \subseteq erased' /\ erased' \subseteq erased \cup {f}
      /\ erased' # erased => proc[p].op = "delete"
  BY DEF Report
<1>7. proc' \in [Procs -> ProcType] /\ proc'[p].pc = "idle" /\ \A q \in Procs : q # p => proc'[q] = proc[q]
  BY <1>1 DEF VolumeInv, VolumeTypes, ProcType, Todo, Idle
<1>8. \A q \in Procs : ~Holds(q)'
  BY <1>2, <1>7 DEF Holds
<1>9. VolumeTypes'
  BY <1>1, <1>3, <1>5, <1>6, <1>7 DEF VolumeInv, VolumeTypes
<1>10. LockInv'
  BY <1>1, <1>3, <1>7, <1>8, CheckpointsAssumption DEF VolumeInv, LockInv
<1>11. DeletedInv'
  <2>1. CASE erased' = erased
    BY <1>1, <1>7, <1>8, <2>1 DEF VolumeInv, DeletedInv, Deletes
  <2>2. CASE erased' # erased
    <3>1. Deletes(p)
      BY <1>2, <1>6, <2>2 DEF Deletes
    <3>2. Left(proc[p].todo) = {}
      BY <1>1 DEF Left
    <3>3. f \notin local /\ \A i \in {0, 1} : f \notin slots[i].db
      BY <3>1, <3>2 DEF VolumeInv, DeletedInv, Deletes, Holds
    <3> QED
      BY <1>1, <1>6, <1>7, <1>8, <3>3 DEF VolumeInv, DeletedInv, Deletes
  <2> QED
    BY <2>1, <2>2
<1>12. DurableInv'
  <2>1. UNCHANGED <<Valid, NewestSlot, Restorable>>
    BY <1>1 DEF Valid, NewestSlot, Restorable
  <2>2. /\ Restorable = proc[p].db
        /\ cut \/ acked \subseteq proc[p].db
        /\ cut \/ acked \subseteq local
        /\ proc[p].op = "write" /\ f \in local => f \in proc[p].db
    BY <1>1, <1>2, <1>3 DEF VolumeInv, DurableInv
  <2>3. (cut \/ acked' \subseteq local) /\ (cut \/ acked' \subseteq Restorable)
    BY <1>5, <2>2
  <2>4. \A q \in Procs : proc'[q].pc # "backed"
    BY <1>8 DEF Holds
  <2> QED
    BY <1>1, <1>8, <2>1, <2>3, <2>4 DEF DurableInv
<1> QED
  BY <1>9, <1>10, <1>11, <1>12 DEF VolumeInv

\* Who leaves the volume outside a scrubbing leaves what was acknowledged.
LEMMA LeftDurable ==
  ASSUME VolumeInv, NEW p \in Procs, Holds(p), ~Scrubbing(p)
  PROVE  cut \/ acked \subseteq Restorable
<1>1. \A q \in Procs : Holds(q) => q = p
  BY OneHolder
<1>2. CASE proc[p].op = "delete"
  <2>1. proc[p].pc = "backed" /\ Len(proc[p].todo) # 1
    BY <1>2 DEF Holds, Scrubbing
  <2>2. proc[p].todo \in Todo
    BY DEF VolumeInv, VolumeTypes, ProcType
  <2>3. proc[p].todo = <<>> \/ proc[p].todo = <<0, 1>>
    BY <2>1, <2>2, TodoFacts
  <2> QED
    BY <1>2, <2>1, <2>3 DEF VolumeInv, DurableInv
<1>3. CASE proc[p].op # "delete"
  BY <1>1, <1>3 DEF VolumeInv, DurableInv, Deletes
<1> QED
  BY <1>2, <1>3

LEMMA StopsKeeps ==
  ASSUME VolumeInv, NEW p \in Procs, Stops(p)
  PROVE  VolumeInv'
<1>1. /\ cut' = (cut \/ Scrubbing(p)) /\ UNCHANGED <<local, slots, acked, erased>>
      /\ proc' = [proc EXCEPT ![p] = Idle] /\ lock' = IF lock = p THEN None ELSE lock
  BY DEF Stops, Cut
<1>2. proc' \in [Procs -> ProcType] /\ proc'[p].pc = "idle" /\ \A q \in Procs : q # p => proc'[q] = proc[q]
  BY <1>1 DEF VolumeInv, VolumeTypes, ProcType, Todo, Idle
<1>3. \A q \in Procs : Holds(q)' <=> q # p /\ Holds(q)
  BY <1>2 DEF Holds
<1>4. UNCHANGED <<Valid, NewestSlot, Restorable>>
  BY <1>1 DEF Valid, NewestSlot, Restorable
<1>5. VolumeTypes'
  <2>1. cut' \in BOOLEAN
    BY <1>1
  <2> QED
    BY <1>1, <1>2, <2>1 DEF VolumeInv, VolumeTypes
<1>6. LockInv'
  BY <1>1, <1>2, <1>3, CheckpointsAssumption DEF VolumeInv, LockInv
<1>7. DeletedInv'
  BY <1>1, <1>2, <1>3 DEF VolumeInv, DeletedInv, Deletes
<1>8. DurableInv'
  <2>1. cut => cut'
    BY <1>1
  <2>2. cut' \/ (\E q \in Procs : Deletes(q)') \/ acked \subseteq Restorable
    <3>1. CASE Holds(p)
      BY <1>1, <2>1, <3>1, LeftDurable
    <3>2. CASE ~Holds(p)
      <4>1. \A q \in Procs : Deletes(q) => Deletes(q)'
        BY <1>2, <1>3, <3>2 DEF Deletes
      <4> QED
        BY <2>1, <4>1 DEF VolumeInv, DurableInv
    <3> QED
      BY <3>1, <3>2
  <2>3. \A q \in Procs : proc'[q].pc = "backed" => q # p
    BY <1>2
  <2> QED
    BY <1>1, <1>2, <1>3, <1>4, <2>1, <2>2, <2>3 DEF VolumeInv, DurableInv
<1> QED
  BY <1>5, <1>6, <1>7, <1>8 DEF VolumeInv

LEMMA AllProcessesEndKeeps ==
  ASSUME VolumeInv, AllProcessesEnd, local' \in {local, None}
  PROVE  VolumeInv'
<1>1. /\ cut' = (cut \/ \E p \in Procs : Scrubbing(p)) /\ UNCHANGED <<slots, acked, erased>>
      /\ proc' = [p \in Procs |-> Idle] /\ lock' = None
  BY DEF AllProcessesEnd, Cut
<1>2. proc' \in [Procs -> ProcType] /\ \A p \in Procs : proc'[p].pc = "idle" /\ ~Holds(p)'
  BY <1>1 DEF ProcType, Todo, Idle, Holds
<1>3. UNCHANGED <<Valid, NewestSlot, Restorable>>
  BY <1>1 DEF Valid, NewestSlot, Restorable
<1>4. cut' \/ acked \subseteq Restorable
  <2>1. CASE \E p \in Procs : Holds(p)
    BY <1>1, <2>1, LeftDurable
  <2>2. CASE \A p \in Procs : ~Holds(p)
    BY <1>1, <2>2 DEF VolumeInv, DurableInv, Deletes
  <2> QED
    BY <2>1, <2>2
<1>5. VolumeTypes'
  <2>1. cut' \in BOOLEAN
    BY <1>1
  <2> QED
    BY <1>1, <1>2, <2>1 DEF VolumeInv, VolumeTypes
<1>6. LockInv'
  BY <1>1, <1>2, CheckpointsAssumption DEF LockInv
<1>7. DeletedInv'
  BY <1>1, <1>2 DEF VolumeInv, DeletedInv, Deletes
<1>8. DurableInv'
  <2>1. cut => cut'
    BY <1>1
  <2>2. cut' \/ local' = None \/ acked \subseteq local'
    BY <2>1 DEF VolumeInv, DurableInv
  <2>3. \A p \in Procs : proc'[p].pc # "backed"
    BY <1>2
  <2> QED
    BY <1>1, <1>2, <1>3, <1>4, <2>2, <2>3 DEF DurableInv
<1> QED
  BY <1>5, <1>6, <1>7, <1>8 DEF VolumeInv

LEMMA VolumeInvInitially ==
  ASSUME VolumeInit
  PROVE  VolumeInv
<1>1. \A p \in Procs : proc[p] = Idle /\ proc[p].pc = "idle" /\ ~Holds(p)
  BY DEF VolumeInit, Idle, Holds
<1>2. slots \in [{0, 1} -> SlotType] /\ \A i \in {0, 1} : slots[i].db = {}
  BY DEF VolumeInit, Slot, SlotType
<1>3. VolumeTypes
  <2>1. proc \in [Procs -> ProcType]
    BY DEF VolumeInit, Idle, ProcType, Todo
  <2> QED
    BY <1>2, <2>1 DEF VolumeInit, VolumeTypes
<1>4. LockInv
  BY <1>1, CheckpointsAssumption DEF VolumeInit, LockInv
<1>5. DeletedInv
  BY <1>1 DEF VolumeInit, DeletedInv, Deletes
<1>6. DurableInv
  BY <1>1 DEF VolumeInit, DurableInv, Holds
<1> QED
  BY <1>3, <1>4, <1>5, <1>6 DEF VolumeInv

LEMMA VolumeInvInductive ==
  ASSUME VolumeInv, [Next]_vars
  PROVE  VolumeInv'
<1>1. CASE UNCHANGED volumeVars
  <2>1. UNCHANGED <<Valid, NewestSlot, Restorable>>
    BY <1>1 DEF volumeVars, Valid, NewestSlot, Restorable
  <2>2. VolumeTypes' /\ LockInv' /\ DeletedInv'
    BY <1>1 DEF volumeVars, VolumeInv, VolumeTypes, LockInv, DeletedInv, Holds, Deletes
  <2>3. DurableInv'
    BY <1>1, <2>1 DEF volumeVars, VolumeInv, DurableInv, Holds, Deletes
  <2> QED
    BY <2>2, <2>3 DEF VolumeInv
<1>2. CASE ProcessStep
  <2>1. CASE Open
    BY <2>1, OpenKeeps
  <2>2. ASSUME NEW p \in Procs, Backup(p) \/ Truncate(p) \/ WriteSlot(p) \/ Report(p) \/ Stops(p)
        PROVE  VolumeInv'
    BY <2>2, BackupKeeps, TruncateKeeps, WriteSlotKeeps, ReportKeeps, StopsKeeps
  <2>3. ASSUME NEW p \in Procs, NEW f \in Facts,
               Commit(p, "write", f) \/ Commit(p, "delete", f) \/ DeleteAgain(p, f)
        PROVE  VolumeInv'
    BY <2>3, CommitWriteKeeps, CommitDeleteKeeps
  <2> QED
    BY <1>2, <2>1, <2>2, <2>3 DEF ProcessStep
<1>3. CASE SandboxGoes \/ SandboxStops
  <2>1. AllProcessesEnd /\ local' \in {local, None}
    BY <1>3 DEF SandboxGoes, SandboxStops
  <2> QED
    BY <2>1, AllProcessesEndKeeps
<1> QED
  BY <1>1, <1>2, <1>3 DEF Next, Follows, vars

THEOREM VolumeIsSound == Spec => []VolumeInv
<1>1. Init => VolumeInv
  BY VolumeInvInitially DEF Init
<1>2. VolumeInv /\ [Next]_vars => VolumeInv'
  BY VolumeInvInductive
<1> QED
  BY <1>1, <1>2, PTL DEF Spec

-----------------------------------------------------------------------------
(* The theorems. *)

\* What was reported as deleted is in neither slot and in no working copy: the
\* deletion reports when it has written both slots, and another process takes its
\* backup before the deletion holds the file lock or after its local commit.
THEOREM DeletedStaysGone == Spec => []DeletedIsGone
<1>1. VolumeInv => DeletedIsGone
  BY DEF VolumeInv, DeletedInv, DeletedIsGone, Valid
<1> QED
  BY <1>1, VolumeIsSound, PTL

\* What was reported as written is what a new sandbox would start from, but for
\* a deletion that writes over both slots or was cut short there: a checkpoint
\* writes only over the slot that is not the newest whole one.
THEOREM ReportedStaysDurable == Spec => []ReportedIsDurable
<1>1. VolumeInv => ReportedIsDurable
  BY DEF VolumeInv, LockInv, DurableInv, Deletes, ReportedIsDurable
<1> QED
  BY <1>1, VolumeIsSound, PTL

=============================================================================
