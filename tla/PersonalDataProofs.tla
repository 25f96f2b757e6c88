------------------------- MODULE PersonalDataProofs -------------------------
(***************************************************************************)
(* What the owner's data promises, for any number of turns, memories and   *)
(* purges: only what a completed answer said is found, what the user has   *)
(* withdrawn does not come up again, what was shown is stored, and a turn  *)
(* whose session was purged has no further effect.                         *)
(*                                                                         *)
(* The argument on memories: a memory gives way only to one that was       *)
(* staged while it could be found (LinksAreFound), so that of two that are *)
(* settled together neither is the other's target; and one that the user   *)
(* has disabled since is out of reach, because the disabling moved the     *)
(* governance revision (DisabledIsOutOfReach).                             *)
(*                                                                         *)
(* The argument on replies: a copy of the session has no reply of a later  *)
(* turn (CopiesAreOld), and the host shows only its newest turn, whose     *)
(* replies no earlier copy can therefore write over.                       *)
(***************************************************************************)
EXTENDS PersonalData, TLAPS

Places == {"waiting", "loaded", "saved", "open", "finished", "over"}
Copy == [inbound : SUBSET Bursts, replies : [Generations -> Nat], accepted : SUBSET Generations]
Turn == [pc : Places, grev : 0 .. MaxGovernance, copy : Copy]
Memories == [Mem -> MemoryRow \cup {None, Gone}]

TypeInv ==
  /\ session \in [gen : Generations \cup {None, Fence}, rev : Nat]
  /\ inbound \subseteq Bursts
  /\ replies \in [Generations -> Nat] /\ shown \in [Generations -> Nat]
  /\ accepted \subseteq Generations /\ completed \subseteq Generations
  /\ memories \in Memories
  /\ governance \in [capture : BOOLEAN, rev : 0 .. MaxGovernance]
  /\ pending \subseteq SUBSET Mem
  /\ turn \in [Generations -> Turn]
  /\ barrier \in [Contents -> 0 .. MaxGovernance]
  /\ fenced \subseteq Generations

Active(g) == turn[g].pc \notin {"waiting", "over"}

-----------------------------------------------------------------------------
(* The invariant of the memories *)

\* What is accepted was completed, in the tables and in every copy.
AcceptedIsCompleted ==
  accepted \subseteq completed /\ \A g \in Generations : turn[g].copy.accepted \subseteq completed

FromCompleted(m) ==
  Exists(m) /\ memories[m].status # "provisional" => memories[m].gen \in completed

\* What a memory gives way to was found, and is not gone.
LinksAreFound(m) ==
  Exists(m) /\ memories[m].sup # None =>
    Exists(memories[m].sup) /\ memories[memories[m].sup].status # "provisional"

\* A memory that waits, and can still come up, was staged when its target was not disabled.
DisabledIsOutOfReach(m) ==
  Has(m, "provisional") /\ InForce(m) /\ memories[m].sup # None =>
    memories[memories[m].sup].status # "disabled_by_user"

StagedBefore(m) == Exists(m) => memories[m].grev <= governance.rev

MemoryInv ==
  /\ \A m \in Mem : /\ FromCompleted(m) /\ LinksAreFound(m)
                    /\ DisabledIsOutOfReach(m) /\ StagedBefore(m)
  /\ \A c \in Contents : barrier[c] <= governance.rev

\* The step of WithdrawnStaysWithdrawn.
ComesUpRightly(m) ==
  Exists(m) /\ ~Retained(m) /\ Retained(m)' =>
    /\ memories[m].status # "disabled_by_user"
    /\ memories[m].status = "provisional" => memories[m].grev >= barrier[memories[m].content]

-----------------------------------------------------------------------------
(* Rows *)

LEMMA BlankType == Blank \in Copy /\ Blank.replies \in [Generations -> Nat]
BY DEF Blank, Copy

LEMMA MemoryType ==
  ASSUME TypeInv, NEW m \in Mem, Exists(m)
  PROVE  /\ memories[m] \in MemoryRow
         /\ memories[m].sup \in Mem \cup {None} /\ memories[m].grev \in 0 .. MaxGovernance
         /\ memories[m].content \in Contents /\ memories[m].gen \in Generations
         /\ memories[m].status \in Statuses /\ memories[m].action \in Actions
<1>1. memories[m] \in MemoryRow
  BY DEF TypeInv, Memories, Exists
<1> QED
  BY <1>1 DEF MemoryRow

\* A row with another status is a row.
LEMMA RowWithStatus ==
  ASSUME NEW row \in MemoryRow, NEW status \in Statuses
  PROVE  LET new == [row EXCEPT !.status = status]
         IN  /\ new \in MemoryRow /\ new.status = status
             /\ new.content = row.content /\ new.action = row.action /\ new.gen = row.gen
             /\ new.grev = row.grev /\ new.sup = row.sup /\ new.cites = row.cites
BY DEF MemoryRow

LEMMA RowWithSup ==
  ASSUME NEW row \in MemoryRow, NEW sup \in Mem \cup {None}
  PROVE  LET new == [row EXCEPT !.sup = sup]
         IN  /\ new \in MemoryRow /\ new.sup = sup
             /\ new.content = row.content /\ new.action = row.action /\ new.gen = row.gen
             /\ new.grev = row.grev /\ new.status = row.status /\ new.cites = row.cites
BY DEF MemoryRow

-----------------------------------------------------------------------------
(* Steps that make no new memory *)

\* What becomes of memory m: it is the same, but for its status and a target that
\* it may lose.
Follows(m) ==
  /\ ~Exists(m) => memories'[m] = memories[m]
  /\ Exists(m)' =>
     /\ memories'[m].content = memories[m].content /\ memories'[m].gen = memories[m].gen
     /\ memories'[m].grev = memories[m].grev
     /\ memories'[m].sup # None =>
          memories'[m].sup = memories[m].sup /\ memories'[memories[m].sup] \notin {None, Gone}
     /\ memories'[m].status = "provisional" => memories[m].status = "provisional"
     /\ memories'[m].status # "provisional" =>
          memories[m].status # "provisional" \/ memories[m].gen \in completed

\* Only a change of what the owner allows disables one.
DisablesByGovernance ==
  /\ governance'.rev >= governance.rev
  /\ governance'.rev = governance.rev =>
       \A m \in Mem : Exists(m)' /\ memories'[m].status = "disabled_by_user" =>
                        memories[m].status = "disabled_by_user"

LEMMA MemoryInvFollows ==
  ASSUME TypeInv, MemoryInv, \A m \in Mem : Follows(m), DisablesByGovernance,
         governance'.rev \in Nat, completed \subseteq completed',
         \A c \in Contents : barrier'[c] <= governance'.rev
  PROVE  MemoryInv'
<1>0. governance.rev \in Nat
  BY DEF TypeInv
<1> SUFFICES ASSUME NEW m \in Mem, Exists(m)'
             PROVE  /\ FromCompleted(m)' /\ LinksAreFound(m)'
                    /\ DisabledIsOutOfReach(m)' /\ StagedBefore(m)'
  BY DEF MemoryInv, FromCompleted, LinksAreFound, DisabledIsOutOfReach, StagedBefore, Has
<1> DEFINE s == memories[m].sup
<1>1. /\ Exists(m)
      /\ memories'[m].gen = memories[m].gen /\ memories'[m].grev = memories[m].grev
      /\ memories'[m].sup # None => memories'[m].sup = s /\ memories'[s] \notin {None, Gone}
      /\ memories'[m].status = "provisional" => memories[m].status = "provisional"
      /\ memories'[m].status # "provisional" =>
           memories[m].status # "provisional" \/ memories[m].gen \in completed
  BY DEF Follows, Exists
<1>2. FromCompleted(m) /\ LinksAreFound(m) /\ DisabledIsOutOfReach(m) /\ StagedBefore(m)
  BY DEF MemoryInv
<1>3. memories[m].grev \in Nat /\ s \in Mem \cup {None}
  BY <1>1, MemoryType
<1>4. FromCompleted(m)'
  BY <1>1, <1>2 DEF FromCompleted
<1>5. StagedBefore(m)'
  BY <1>0, <1>1, <1>2, <1>3 DEF StagedBefore, DisablesByGovernance
<1>6. ASSUME memories'[m].sup # None
      PROVE  /\ memories'[m].sup = s /\ s \in Mem /\ Exists(s)' /\ Follows(s)
             /\ Exists(s) /\ memories[s].status # "provisional"
  <2>1. memories'[m].sup = s /\ memories'[s] \notin {None, Gone} /\ s # None
    BY <1>1, <1>6
  <2>2. s \in Mem /\ Exists(s) /\ memories[s].status # "provisional"
    BY <1>1, <1>2, <1>3, <2>1 DEF LinksAreFound
  <2>3. Follows(s)
    BY <2>2
  <2> QED
    BY <2>1, <2>2, <2>3 DEF Exists
<1>7. LinksAreFound(m)'
  <2> SUFFICES ASSUME memories'[m].sup # None
               PROVE  memories'[s].status # "provisional" /\ memories'[s] \notin {None, Gone}
    BY <1>6 DEF LinksAreFound, Exists
  <2> QED
    BY <1>6 DEF Follows, Exists
<1>8. DisabledIsOutOfReach(m)'
  <2> SUFFICES ASSUME memories'[m].status = "provisional", memories'[m].grev = governance'.rev,
                      memories'[m].sup # None
               PROVE  memories'[s].status # "disabled_by_user"
    BY <1>6 DEF DisabledIsOutOfReach, Has, InForce
  <2>1. memories[m].status = "provisional" /\ s # None
    BY <1>1, <1>6
  <2>2. governance'.rev = governance.rev /\ memories[m].grev = governance.rev
    BY <1>0, <1>1, <1>2, <1>3 DEF StagedBefore, DisablesByGovernance
  <2>3. memories[s].status # "disabled_by_user"
    BY <1>1, <1>2, <2>1, <2>2 DEF DisabledIsOutOfReach, Has, InForce
  <2> QED
    BY <1>6, <2>2, <2>3 DEF DisablesByGovernance
<1> QED
  BY <1>4, <1>5, <1>7, <1>8

-----------------------------------------------------------------------------
(* save_session and the memories *)

\* What a settling makes of a memory that is not among those settled.
LEMMA EffectIsFound ==
  ASSUME NEW action
  PROVE  Effect(action) \in {"retained", "disabled_by_agent", "superseded"}
BY DEF Effect

\* The rows of a save: each memory that exists has one of its settled statuses.
LEMMA SaveRows ==
  ASSUME TypeInv, NEW g \in Generations, NEW s, Save(g, s), NEW ids, NEW m \in Mem,
         ids = Awaiting(accepted' \ accepted)
  PROVE  /\ ~Exists(m) => memories'[m] = memories[m]
         /\ Exists(m) => \E status \in Settled(ids, m) :
                           memories'[m] = [memories[m] EXCEPT !.status = status]
<1> DEFINE after(n) == IF Exists(n)
              THEN {[memories[n] EXCEPT !.status = status] : status \in Settled(ids, n)}
              ELSE {memories[n]}
<1>1. memories'[m] \in after(m)
  BY DEF Save
<1> QED
  BY <1>1

LEMMA SettledStatus ==
  ASSUME TypeInv, NEW ids, ids \subseteq Mem, NEW m \in Mem, Exists(m), NEW status \in Settled(ids, m)
  PROVE  /\ status \in Statuses
         /\ m \in ids => \/ status = "superseded"
                         \/ InForce(m) /\ status = "retained"
         /\ m \notin ids =>
              \/ status = memories[m].status
              \/ /\ status \in {"retained", "disabled_by_agent", "superseded"}
                 /\ \E n \in ids : InForce(n) /\ memories[n].sup = m
<1>0. memories[m].status \in Statuses
  BY MemoryType
<1> DEFINE by == {memories[n].action : n \in {n \in ids : InForce(n) /\ memories[n].sup = m}} \ {"add"}
<1>1. CASE m \in ids
  <2>1. status = IF InForce(m) /\ memories[m].action \in {"add", "upsert"} THEN "retained"
                                                                          ELSE "superseded"
    BY <1>1 DEF Settled
  <2> QED
    BY <1>1, <2>1 DEF Statuses
<1>2. CASE m \notin ids
  <2>1. status = memories[m].status \/ \E action \in by : status = Effect(action)
    BY <1>2 DEF Settled
  <2>2. CASE status = memories[m].status
    BY <1>0, <1>2, <2>2
  <2>3. CASE \E action \in by : status = Effect(action)
    BY <1>2, <2>3, EffectIsFound DEF Statuses
  <2> QED
    BY <2>1, <2>2, <2>3
<1> QED
  BY <1>1, <1>2

LEMMA AwaitingAreProvisional ==
  ASSUME NEW gens
  PROVE  /\ Awaiting(gens) \subseteq Mem
         /\ \A m \in Awaiting(gens) : Has(m, "provisional") /\ memories[m].gen \in gens
BY DEF Awaiting

LEMMA SaveMemories ==
  ASSUME TypeInv, NEW g \in Generations, NEW s, Save(g, s)
  PROVE  memories' \in Memories
<1> DEFINE ids == Awaiting(accepted' \ accepted)
<1>1. ids \subseteq Mem
  BY AwaitingAreProvisional
<1>2. \E S : memories' \in [Mem -> S]
  BY DEF Save
<1>3. ASSUME NEW m \in Mem PROVE memories'[m] \in MemoryRow \cup {None, Gone}
  <2>1. CASE ~Exists(m)
    BY <2>1, SaveRows DEF Exists
  <2>2. CASE Exists(m)
    <3>1. PICK status \in Settled(ids, m) : memories'[m] = [memories[m] EXCEPT !.status = status]
      BY <2>2, SaveRows
    <3>2. status \in Statuses /\ memories[m] \in MemoryRow
      BY <1>1, <2>2, SettledStatus, MemoryType
    <3> QED
      BY <3>1, <3>2, RowWithStatus
  <2> QED
    BY <2>1, <2>2
<1> QED
  BY <1>2, <1>3 DEF Memories

LEMMA SaveFollows ==
  ASSUME TypeInv, MemoryInv, NEW g \in Generations, NEW s, Save(g, s), accepted' \subseteq completed,
         UNCHANGED governance, NEW m \in Mem
  PROVE  /\ Follows(m) /\ ComesUpRightly(m)
         /\ Exists(m)' /\ memories'[m].status = "disabled_by_user" =>
              memories[m].status = "disabled_by_user"
<1> DEFINE ids == Awaiting(accepted' \ accepted)
<1>1. ids \subseteq Mem /\ \A n \in ids : Has(n, "provisional") /\ memories[n].gen \in completed
  BY AwaitingAreProvisional
<1>2. \A n \in Mem : Exists(n) => memories[n] \in MemoryRow
  BY MemoryType
<1>3. \A n \in Mem : Exists(n) <=> Exists(n)'
  <2> SUFFICES ASSUME NEW n \in Mem PROVE Exists(n) <=> Exists(n)'
    OBVIOUS
  <2>1. CASE ~Exists(n)
    BY <2>1, SaveRows DEF Exists
  <2>2. CASE Exists(n)
    <3>1. PICK status \in Settled(ids, n) : memories'[n] = [memories[n] EXCEPT !.status = status]
      BY <2>2, SaveRows
    <3>2. memories'[n] \in MemoryRow
      BY <1>1, <1>2, <2>2, <3>1, SettledStatus, RowWithStatus
    <3> QED
      BY <2>2, <3>2, PersonalDataAssumption DEF Exists
  <2> QED
    BY <2>1, <2>2
<1> SUFFICES ASSUME Exists(m)
             PROVE  /\ Follows(m) /\ ComesUpRightly(m)
                    /\ memories'[m].status = "disabled_by_user" =>
                         memories[m].status = "disabled_by_user"
  BY <1>3, SaveRows DEF Follows, ComesUpRightly
<1>4. PICK status \in Settled(ids, m) : memories'[m] = [memories[m] EXCEPT !.status = status]
  BY SaveRows
<1>5. /\ status \in Statuses
      /\ m \in ids => \/ status = "superseded"
                      \/ InForce(m) /\ status = "retained"
      /\ m \notin ids =>
           \/ status = memories[m].status
           \/ /\ status \in {"retained", "disabled_by_agent", "superseded"}
              /\ \E n \in ids : InForce(n) /\ memories[n].sup = m
  BY <1>1, SettledStatus
<1>6. /\ memories'[m].status = status
      /\ memories'[m].content = memories[m].content /\ memories'[m].gen = memories[m].gen
      /\ memories'[m].grev = memories[m].grev /\ memories'[m].sup = memories[m].sup
  BY <1>2, <1>4, <1>5, RowWithStatus
\* A target of one that is settled can be found, and the user has not disabled it.
<1>7. ASSUME \E n \in ids : InForce(n) /\ memories[n].sup = m
      PROVE  memories[m].status \notin {"provisional", "disabled_by_user"}
  <2>1. PICK n \in ids : InForce(n) /\ memories[n].sup = m
    BY <1>7
  <2>2. n \in Mem /\ Has(n, "provisional") /\ LinksAreFound(n) /\ DisabledIsOutOfReach(n)
    BY <1>1 DEF MemoryInv
  <2>3. m # None
    BY PersonalDataAssumption
  <2> QED
    BY <2>1, <2>2, <2>3 DEF LinksAreFound, DisabledIsOutOfReach, Has
<1>8. m \in ids => memories[m].status = "provisional" /\ memories[m].gen \in completed
  BY <1>1 DEF Has
<1>9. Follows(m)
  <2>1. memories[m].sup # None => memories'[memories[m].sup] \notin {None, Gone}
    <3>1. memories[m].sup \in Mem \cup {None} /\ LinksAreFound(m)
      BY MemoryType DEF MemoryInv
    <3> QED
      BY <1>3, <3>1 DEF LinksAreFound, Exists
  <2> QED
    BY <1>5, <1>6, <1>7, <1>8, <2>1 DEF Follows
<1>10. ComesUpRightly(m)
  <2> SUFFICES ASSUME ~Retained(m), Retained(m)'
               PROVE  /\ memories[m].status # "disabled_by_user"
                      /\ memories[m].status = "provisional" =>
                           memories[m].grev >= barrier[memories[m].content]
    BY DEF ComesUpRightly
  <2>1. status = "retained" /\ memories[m].status # "retained"
    BY <1>6 DEF Retained, Has
  <2>2. CASE m \in ids
    <3>1. InForce(m) /\ memories[m].status = "provisional"
      BY <1>5, <1>8, <2>1, <2>2
    <3>2. /\ memories[m].content \in Contents /\ memories[m].grev = governance.rev
          /\ barrier[memories[m].content] <= governance.rev
          /\ barrier[memories[m].content] \in Nat /\ governance.rev \in Nat
      BY <3>1, MemoryType DEF MemoryInv, InForce, TypeInv
    <3> QED
      BY <3>1, <3>2
  <2>3. CASE m \notin ids
    BY <1>5, <1>7, <2>1, <2>3
  <2> QED
    BY <2>2, <2>3
<1> QED
  BY <1>5, <1>6, <1>9, <1>10

-----------------------------------------------------------------------------
(* Deletions, purges and what the user disables *)

LEMMA ErasedRow ==
  ASSUME TypeInv, NEW ids, NEW m \in Mem
  PROVE  /\ ~Exists(m) => Erase(ids)[m] = memories[m]
         /\ Exists(m) /\ m \in ids => Erase(ids)[m] = Gone
         /\ Exists(m) /\ m \notin ids =>
              /\ Erase(ids)[m] \in MemoryRow
              /\ Erase(ids)[m].content = memories[m].content
              /\ Erase(ids)[m].gen = memories[m].gen /\ Erase(ids)[m].grev = memories[m].grev
              /\ Erase(ids)[m].status = memories[m].status
              /\ Erase(ids)[m].sup = IF memories[m].sup \in ids THEN None ELSE memories[m].sup
<1>1. CASE ~Exists(m)
  BY <1>1 DEF Erase
<1>2. CASE Exists(m) /\ m \in ids
  BY <1>2 DEF Erase
<1>3. CASE Exists(m) /\ m \notin ids
  <2> DEFINE sup == IF memories[m].sup \in ids THEN None ELSE memories[m].sup
  <2>1. Erase(ids)[m] = [memories[m] EXCEPT !.sup = sup]
    BY <1>3 DEF Erase
  <2>2. memories[m] \in MemoryRow /\ sup \in Mem \cup {None}
    BY <1>3, MemoryType
  <2> HIDE DEF sup
  <2>3. /\ Erase(ids)[m] \in MemoryRow
        /\ Erase(ids)[m].content = memories[m].content
        /\ Erase(ids)[m].gen = memories[m].gen /\ Erase(ids)[m].grev = memories[m].grev
        /\ Erase(ids)[m].status = memories[m].status /\ Erase(ids)[m].sup = sup
    BY <2>1, <2>2, RowWithSup
  <2> QED
    BY <1>3, <2>3 DEF sup
<1> QED
  BY <1>1, <1>2, <1>3

LEMMA ErasedExists ==
  ASSUME TypeInv, NEW ids, NEW m \in Mem
  PROVE  Erase(ids)[m] \notin {None, Gone} <=> Exists(m) /\ m \notin ids
<1>1. MemoryRow \cap {None, Gone} = {}
  BY PersonalDataAssumption
<1> QED
  BY <1>1, ErasedRow DEF Exists

LEMMA EraseType ==
  ASSUME TypeInv, NEW ids
  PROVE  Erase(ids) \in Memories
<1>1. Erase(ids) = [m \in Mem |-> Erase(ids)[m]]
  BY DEF Erase
<1>2. \A m \in Mem : Erase(ids)[m] \in MemoryRow \cup {None, Gone}
  BY ErasedRow DEF Exists
<1> QED
  BY <1>1, <1>2 DEF Memories

LEMMA EraseFollows ==
  ASSUME TypeInv, MemoryInv, NEW ids, memories' = Erase(ids), NEW m \in Mem
  PROVE  /\ Follows(m) /\ ComesUpRightly(m)
         /\ Exists(m)' => memories'[m].status = memories[m].status
<1> SUFFICES ASSUME Exists(m)'
             PROVE  Follows(m) /\ ComesUpRightly(m) /\ memories'[m].status = memories[m].status
  BY ErasedRow DEF Follows, ComesUpRightly, Retained, Has
<1>1. Exists(m) /\ m \notin ids
  BY ErasedExists DEF Exists
<1>2. /\ memories'[m].content = memories[m].content
      /\ memories'[m].gen = memories[m].gen /\ memories'[m].grev = memories[m].grev
      /\ memories'[m].status = memories[m].status
      /\ memories'[m].sup = IF memories[m].sup \in ids THEN None ELSE memories[m].sup
  BY <1>1, ErasedRow
<1>3. memories'[m].sup # None =>
        memories'[m].sup = memories[m].sup /\ memories'[memories[m].sup] \notin {None, Gone}
  <2>1. memories[m].sup \in Mem \cup {None} /\ LinksAreFound(m)
    BY <1>1, MemoryType DEF MemoryInv
  <2> QED
    BY <1>1, <1>2, <2>1, ErasedExists DEF LinksAreFound
<1> QED
  BY <1>1, <1>2, <1>3 DEF Follows, ComesUpRightly, Retained, Has, FromCompleted, MemoryInv

\* disable_by_user keeps every memory but for its status.
LEMMA DisableFollows ==
  ASSUME TypeInv, MemoryInv, NEW ids \in SUBSET Known,
         memories' = [m \in Mem |-> IF m \in ids THEN [memories[m] EXCEPT !.status = "disabled_by_user"]
                                    ELSE memories[m]]
  PROVE  memories' \in Memories /\ \A m \in Mem : Follows(m) /\ ComesUpRightly(m)
<1>1. \A m \in ids : m \in Mem /\ Exists(m) /\ memories[m].status # "provisional"
  BY DEF Known
<1>2. ASSUME NEW m \in Mem
      PROVE  /\ memories'[m] \in MemoryRow \cup {None, Gone}
             /\ Exists(m) <=> Exists(m)'
             /\ ~Exists(m) => memories'[m] = memories[m]
             /\ Exists(m) =>
                  /\ memories'[m].content = memories[m].content
                  /\ memories'[m].gen = memories[m].gen /\ memories'[m].grev = memories[m].grev
                  /\ memories'[m].sup = memories[m].sup
                  /\ \/ memories'[m].status = memories[m].status
                     \/ /\ memories'[m].status = "disabled_by_user"
                        /\ memories[m].status # "provisional"
  <2>1. CASE m \notin ids
    BY <2>1 DEF TypeInv, Memories, Exists
  <2>2. CASE m \in ids
    <3>1. memories'[m] = [memories[m] EXCEPT !.status = "disabled_by_user"]
      BY <2>2
    <3>2. memories[m] \in MemoryRow /\ "disabled_by_user" \in Statuses
      BY <1>1, <2>2, MemoryType DEF Statuses
    <3>3. /\ memories'[m] \in MemoryRow /\ memories'[m].status = "disabled_by_user"
          /\ memories'[m].content = memories[m].content
          /\ memories'[m].gen = memories[m].gen /\ memories'[m].grev = memories[m].grev
          /\ memories'[m].sup = memories[m].sup
      BY <3>1, <3>2 DEF MemoryRow
    <3> QED
      BY <1>1, <2>2, <3>3, PersonalDataAssumption DEF Exists
  <2> QED
    BY <2>1, <2>2
<1>3. memories' \in Memories
  BY <1>2 DEF Memories
<1>4. ASSUME NEW m \in Mem PROVE Follows(m) /\ ComesUpRightly(m)
  <2>1. Exists(m) => memories[m].sup \in Mem \cup {None} /\ LinksAreFound(m)
    BY MemoryType DEF MemoryInv
  <2>2. Exists(m) /\ memories[m].sup # None => memories'[memories[m].sup] \notin {None, Gone}
    BY <1>2, <2>1 DEF LinksAreFound, Exists
  <2>3. Follows(m)
    BY <1>2, <2>1, <2>2 DEF Follows, Exists
  <2>4. ComesUpRightly(m)
    BY <1>2 DEF ComesUpRightly, Retained, Has
  <2> QED
    BY <2>3, <2>4
<1> QED
  BY <1>3, <1>4

\* A purge: the memories it takes, and those it restores.
LEMMA RestoreFollows ==
  ASSUME TypeInv, MemoryInv, NEW ids \in SUBSET Mem, NEW restored,
         \A m \in ids : Exists(m),
         \A m \in restored :
           /\ m \in {memories[n].sup : n \in ids} \ (ids \cup {None})
           /\ Erase(ids)[m].status # "disabled_by_user",
         memories' = [m \in Mem |-> IF m \in restored THEN [Erase(ids)[m] EXCEPT !.status = "retained"]
                                    ELSE Erase(ids)[m]]
  PROVE  /\ memories' \in Memories
         /\ \A m \in Mem : /\ Follows(m) /\ ComesUpRightly(m)
                           /\ Exists(m)' /\ memories'[m].status = "disabled_by_user" =>
                                memories[m].status = "disabled_by_user"
<1>1. ASSUME NEW m \in restored
      PROVE  /\ m \in Mem /\ m \notin ids /\ Exists(m)
             /\ memories[m].status \notin {"provisional", "disabled_by_user"}
  <2>1. PICK n \in ids : m = memories[n].sup
    BY <1>1
  <2>2. m # None /\ m \notin ids /\ Erase(ids)[m].status # "disabled_by_user"
    BY <1>1
  <2>3. Exists(n) /\ n \in Mem /\ LinksAreFound(n)
    BY <2>1 DEF MemoryInv
  <2>4. m \in Mem
    BY <2>1, <2>2, <2>3, MemoryType
  <2>5. Exists(m) /\ memories[m].status # "provisional"
    BY <2>1, <2>2, <2>3 DEF LinksAreFound
  <2> QED
    BY <2>2, <2>4, <2>5, ErasedRow
<1>2. ASSUME NEW m \in Mem
      PROVE  /\ memories'[m] \in MemoryRow \cup {None, Gone}
             /\ Exists(m)' <=> Exists(m) /\ m \notin ids
             /\ ~Exists(m) => memories'[m] = memories[m]
             /\ Exists(m)' =>
                  /\ memories'[m].content = memories[m].content
                  /\ memories'[m].gen = memories[m].gen /\ memories'[m].grev = memories[m].grev
                  /\ memories'[m].sup = IF memories[m].sup \in ids THEN None ELSE memories[m].sup
                  /\ \/ memories'[m].status = memories[m].status
                     \/ /\ memories'[m].status = "retained"
                        /\ memories[m].status \notin {"provisional", "disabled_by_user"}
  <2>1. CASE m \notin restored
    <3> DEFINE left == Erase(ids)[m]
    <3>1. memories'[m] = left
      BY <2>1
    <3>2. left \in MemoryRow \cup {None, Gone}
      BY EraseType DEF Memories
    <3>3. left \notin {None, Gone} <=> Exists(m) /\ m \notin ids
      BY ErasedExists
    <3>4. ~Exists(m) => left = memories[m]
      BY ErasedRow
    <3>5. Exists(m) /\ m \notin ids =>
            /\ left.content = memories[m].content
            /\ left.gen = memories[m].gen /\ left.grev = memories[m].grev
            /\ left.sup = IF memories[m].sup \in ids THEN None ELSE memories[m].sup
            /\ left.status = memories[m].status
      BY ErasedRow
    <3> HIDE DEF left
    <3> QED
      BY <3>1, <3>2, <3>3, <3>4, <3>5 DEF Exists
  <2>2. CASE m \in restored
    <3>1. memories'[m] = [Erase(ids)[m] EXCEPT !.status = "retained"]
      BY <2>2
    <3>2. Exists(m) /\ m \notin ids /\ memories[m].status \notin {"provisional", "disabled_by_user"}
      BY <1>1, <2>2
    <3>3. /\ Erase(ids)[m] \in MemoryRow
          /\ Erase(ids)[m].content = memories[m].content
          /\ Erase(ids)[m].gen = memories[m].gen /\ Erase(ids)[m].grev = memories[m].grev
          /\ Erase(ids)[m].sup = IF memories[m].sup \in ids THEN None ELSE memories[m].sup
      BY <3>2, ErasedRow
    <3>4. "retained" \in Statuses
      BY DEF Statuses
    <3>5. /\ memories'[m] \in MemoryRow /\ memories'[m].status = "retained"
          /\ memories'[m].content = Erase(ids)[m].content
          /\ memories'[m].gen = Erase(ids)[m].gen /\ memories'[m].grev = Erase(ids)[m].grev
          /\ memories'[m].sup = Erase(ids)[m].sup
      BY <3>1, <3>3, <3>4 DEF MemoryRow
    <3> QED
      BY <3>2, <3>3, <3>5, PersonalDataAssumption DEF Exists
  <2> QED
    BY <2>1, <2>2
<1>3. memories' \in Memories
  BY <1>2 DEF Memories
<1>4. ASSUME NEW m \in Mem
      PROVE  /\ Follows(m) /\ ComesUpRightly(m)
             /\ Exists(m)' /\ memories'[m].status = "disabled_by_user" =>
                  memories[m].status = "disabled_by_user"
  <2>1. Exists(m) => memories[m].sup \in Mem \cup {None} /\ LinksAreFound(m)
    BY MemoryType DEF MemoryInv
  <2>2. Exists(m) /\ memories[m].sup \notin ids \cup {None} =>
          memories'[memories[m].sup] \notin {None, Gone}
    BY <1>2, <2>1 DEF LinksAreFound, Exists
  <2>3. Follows(m)
    BY <1>2, <2>1, <2>2 DEF Follows, Exists
  <2>4. ComesUpRightly(m)
    BY <1>2 DEF ComesUpRightly, Retained, Has
  <2> QED
    BY <1>2, <2>3, <2>4
<1> QED
  BY <1>3, <1>4

-----------------------------------------------------------------------------
(* stage_memory_controls *)

Control == [action : Actions, content : Contents, cites : Bursts]

\* What a staged memory gives way to was found, and the user has not disabled it.
LEMMA TargetIsFound ==
  ASSUME NEW c, NEW named \in Known \cup {None}, NEW target \in Targets(c, named), target # None
  PROVE  target \in Mem /\ Exists(target) /\ memories[target].status # "provisional"
<1>1. CASE target \in Known
  BY <1>1 DEF Known
<1>2. CASE target \in Replaceable
  BY <1>2 DEF Replaceable, Retained, Has
<1> QED
  BY <1>1, <1>2 DEF Targets

LEMMA StagedRow ==
  ASSUME TypeInv, NEW g \in Generations, NEW c \in Control, NEW named \in Known \cup {None},
         Stage(g, c, named)
  PROVE  \E m \in Mem, row \in MemoryRow :
           /\ memories[m] = None /\ memories' = [memories EXCEPT ![m] = row]
           /\ row.status = "provisional" /\ row.gen = g /\ row.grev = governance.rev
           /\ row.sup # None => /\ row.sup \in Mem /\ Exists(row.sup)
                                /\ memories[row.sup].status \notin {"provisional", "disabled_by_user"}
<1>1. PICK target \in Targets(c, named), m \in Mem :
        /\ target # None => ~Has(target, "disabled_by_user")
        /\ memories[m] = None
        /\ memories' = [memories EXCEPT ![m] =
             [content |-> c.content, action |-> c.action, status |-> "provisional",
              gen |-> g, grev |-> governance.rev, sup |-> target, cites |-> c.cites]]
  BY DEF Stage
<1> DEFINE row == [content |-> c.content, action |-> c.action, status |-> "provisional",
                   gen |-> g, grev |-> governance.rev, sup |-> target, cites |-> c.cites]
<1>2. target # None => /\ target \in Mem /\ Exists(target)
                       /\ memories[target].status \notin {"provisional", "disabled_by_user"}
  BY <1>1, TargetIsFound DEF Has
<1>3. /\ c.content \in Contents /\ c.action \in Actions /\ c.cites \in Bursts
      /\ governance.rev \in 0 .. MaxGovernance /\ "provisional" \in Statuses
  BY DEF Control, TypeInv, Statuses
<1>4. /\ row \in MemoryRow
      /\ row.status = "provisional" /\ row.gen = g /\ row.grev = governance.rev /\ row.sup = target
  BY <1>2, <1>3 DEF MemoryRow
<1>5. memories' = [memories EXCEPT ![m] = row]
  BY <1>1
<1> HIDE DEF row
<1> QED
  BY <1>1, <1>2, <1>4, <1>5

LEMMA StageMemories ==
  ASSUME TypeInv, MemoryInv, NEW g \in Generations, NEW c \in Control, NEW named \in Known \cup {None},
         Stage(g, c, named)
  PROVE  /\ memories' \in Memories /\ MemoryInv' /\ \A m \in Mem : ComesUpRightly(m)
         /\ \A m \in Mem : memories[m] = None /\ memories'[m] # None => memories'[m].gen = g
<1>0. UNCHANGED <<governance, completed, barrier>> /\ governance.rev \in Nat
  BY DEF Stage, history, TypeInv
<1>1. PICK new \in Mem, row \in MemoryRow :
        /\ memories[new] = None /\ memories' = [memories EXCEPT ![new] = row]
        /\ row.status = "provisional" /\ row.gen = g /\ row.grev = governance.rev
        /\ row.sup # None => /\ row.sup \in Mem /\ Exists(row.sup)
                             /\ memories[row.sup].status \notin {"provisional", "disabled_by_user"}
  BY StagedRow
<1>2. memories' \in Memories /\ memories'[new] = row
      /\ \A m \in Mem \ {new} : memories'[m] = memories[m]
  BY <1>1 DEF TypeInv, Memories
<1>3. ~Exists(new)
  BY <1>1 DEF Exists
<1>4. ASSUME NEW m \in Mem
      PROVE  /\ FromCompleted(m)' /\ LinksAreFound(m)'
             /\ DisabledIsOutOfReach(m)' /\ StagedBefore(m)'
  <2>1. CASE m = new
    <3>1. row.sup # None => row.sup # new /\ memories'[row.sup] = memories[row.sup]
      BY <1>1, <1>2, <1>3
    <3> QED
      BY <1>0, <1>1, <1>2, <2>1, <3>1
      DEF FromCompleted, LinksAreFound, DisabledIsOutOfReach, StagedBefore, Exists, Has
  <2>2. CASE m # new
    <3>1. FromCompleted(m) /\ LinksAreFound(m) /\ DisabledIsOutOfReach(m) /\ StagedBefore(m)
      BY DEF MemoryInv
    <3>2. memories'[m] = memories[m]
      BY <1>2, <2>2
    <3>3. Exists(m) /\ memories[m].sup # None =>
            memories'[memories[m].sup] = memories[memories[m].sup]
      <4>1. Exists(m) => memories[m].sup \in Mem \cup {None}
        BY MemoryType
      <4> QED
        BY <1>2, <1>3, <3>1, <4>1 DEF LinksAreFound
    <3> QED
      BY <1>0, <3>1, <3>2, <3>3
      DEF FromCompleted, LinksAreFound, DisabledIsOutOfReach, StagedBefore, Exists, Has, InForce
  <2> QED
    BY <2>1, <2>2
<1>5. MemoryInv'
  BY <1>0, <1>4 DEF MemoryInv
<1>6. ASSUME NEW m \in Mem
      PROVE  /\ ComesUpRightly(m)
             /\ memories[m] = None /\ memories'[m] # None => memories'[m].gen = g
  BY <1>1, <1>2, <1>3 DEF ComesUpRightly, Retained, Has, Exists
<1> QED
  BY <1>2, <1>5, <1>6

LEMMA ControlsAreControls ==
  ASSUME NEW c \in Controls, NEW g \in Generations
  PROVE  c \in Control /\ [c EXCEPT !.cites = BurstOf[g]] \in Control
<1>1. c \in Control /\ BurstOf[g] \in Bursts
  BY PersonalDataAssumption DEF Control, Bursts
<1> QED
  BY <1>1 DEF Control

\* A step of the agent that stages a memory: a control of the model, or one that
\* the extractor infers.
LEMMA StagingStages ==
  ASSUME NEW g \in Generations,
         \/ \E c \in Controls, named \in Known \cup {None} : StageMemory(g, c, named)
         \/ \E c \in Controls : ExtractMemory(g, c)
  PROVE  \E c \in Control, named \in Known \cup {None} : Stage(g, c, named)
<1>1. CASE \E c \in Controls, named \in Known \cup {None} : StageMemory(g, c, named)
  BY <1>1, ControlsAreControls DEF StageMemory
<1>2. CASE \E c \in Controls : ExtractMemory(g, c)
  <2>1. PICK c \in Controls : Stage(g, [c EXCEPT !.cites = BurstOf[g]], None)
    BY <1>2 DEF ExtractMemory
  <2> QED
    BY <2>1, ControlsAreControls
<1> QED
  BY <1>1, <1>2

-----------------------------------------------------------------------------
(* The invariant of the turns *)

\* The host claims its generations in their order.
ClaimedInOrder ==
  \A g, h \in Generations : g < h /\ turn[g].pc = "waiting" => turn[h].pc = "waiting"

\* A copy has no reply of a later turn.
CopiesAreOld ==
  \A g, h \in Generations : g < h /\ Active(g) => turn[g].copy.replies[h] = 0

\* What a copy has of a reply is not less than what the user has seen of it.
CopiesHaveShown ==
  \A g \in Generations : Active(g) =>
    /\ shown[g] <= turn[g].copy.replies[g]
    /\ \A h \in Generations : turn[g].copy.replies[h] # 0 => shown[h] <= turn[g].copy.replies[h]

NoReplyBefore == \A g \in Generations : turn[g].pc = "waiting" => replies[g] = 0

RepliesInv ==
  ClaimedInOrder /\ CopiesAreOld /\ CopiesHaveShown /\ NoReplyBefore /\ ShownIsStored

\* The session has gone beyond a turn that was under way when it was purged.
FencedAreBehind ==
  \A g \in fenced : Revision[g] < session.rev /\ turn[g].pc \notin {"waiting", "loaded"}

TurnInv == AcceptedIsCompleted /\ RepliesInv /\ FencedAreBehind

\* A turn's step is one of these four.
Refuses(g) ==
  /\ Active(g) /\ turn' = [turn EXCEPT ![g] = [pc |-> "over", grev |-> 0, copy |-> Blank]]
  /\ UNCHANGED <<tables, governance, pending, completed, shown, history>>

Moves(g) ==
  /\ turn[g].pc \in {"saved", "open"}
  /\ \E row \in Turn : /\ turn' = [turn EXCEPT ![g] = row] /\ row.copy = turn[g].copy
                       /\ row.pc \in {"open", "finished"}
  /\ UNCHANGED <<tables, governance, pending, completed, shown, history>>

Shows(g, s) ==
  \/ UNCHANGED shown
  \/ Newest(g) /\ s.replies[g] # 0 /\ shown' = [shown EXCEPT ![g] = s.replies[g]]

Saves(g, s) ==
  /\ Active(g) /\ Fresh(g) /\ Save(g, s) /\ Shows(g, s)
  /\ s.accepted = turn[g].copy.accepted
  /\ \A h \in Generations : IF h = g THEN s.replies[h] >= turn[g].copy.replies[h]
                                     ELSE s.replies[h] = turn[g].copy.replies[h]
  /\ \E row \in Turn : /\ turn' = [turn EXCEPT ![g] = row]
                       /\ \/ row.pc = "over" /\ row.copy = Blank
                          \/ row.pc \in {"saved", "open"} /\ row.copy = s
  /\ completed \subseteq completed' /\ completed' \subseteq completed \cup {g}
  /\ UNCHANGED <<governance, pending, history>>

LEMMA TurnType ==
  ASSUME TypeInv, NEW g \in Generations
  PROVE  /\ turn[g] \in Turn /\ turn[g].copy \in Copy /\ turn[g].pc \in Places
         /\ turn[g].copy.replies \in [Generations -> Nat]
         /\ turn[g].copy.accepted \subseteq Generations /\ turn[g].copy.inbound \subseteq Bursts
         /\ turn[g].grev \in 0 .. MaxGovernance
BY DEF TypeInv, Turn, Copy

\* A turn's row after one step of it.
LEMMA OverIsTurn == [pc |-> "over", grev |-> 0, copy |-> Blank] \in Turn
BY BlankType, PersonalDataAssumption DEF Turn, Places

\* The copy with one more bubble.
Longer(g) == [turn[g].copy EXCEPT !.replies[g] = @ + 1]

LEMMA LongerType ==
  ASSUME TypeInv, NEW g \in Generations, NEW s, s = Longer(g)
  PROVE  /\ s \in Copy /\ s.accepted = turn[g].copy.accepted
         /\ s.replies[g] # 0
         /\ \A h \in Generations : IF h = g THEN s.replies[h] >= turn[g].copy.replies[h]
                                            ELSE s.replies[h] = turn[g].copy.replies[h]
<1> DEFINE c == turn[g].copy
<1>1. c \in Copy /\ c.replies \in [Generations -> Nat]
  BY TurnType
<1>2. s = [c EXCEPT !.replies = [c.replies EXCEPT ![g] = c.replies[g] + 1]]
  BY <1>1 DEF Copy, Longer
<1> DEFINE more == [c.replies EXCEPT ![g] = c.replies[g] + 1]
<1>3. more \in [Generations -> Nat] /\ more[g] = c.replies[g] + 1
      /\ \A h \in Generations \ {g} : more[h] = c.replies[h]
  BY <1>1
<1>4. s.replies = more /\ s.accepted = c.accepted /\ s \in Copy
  BY <1>1, <1>2, <1>3 DEF Copy
<1>5. c.replies[g] \in Nat
  BY <1>1
<1> QED
  BY <1>3, <1>4, <1>5

LEMMA TurnKinds ==
  ASSUME TypeInv, NEW g \in Generations, TurnStep(g)
  PROVE  Load(g) \/ Refuses(g) \/ Moves(g) \/ \E s \in Copy : Saves(g, s)
<1> DEFINE c == turn[g].copy
<1>0. /\ turn[g] \in Turn /\ c \in Copy /\ c.replies \in [Generations -> Nat]
      /\ \A h \in Generations : IF h = g THEN c.replies[h] >= c.replies[h]
                                         ELSE c.replies[h] = c.replies[h]
  <2>1. turn[g] \in Turn /\ c \in Copy /\ c.replies \in [Generations -> Nat]
    BY TurnType
  <2>2. \A h \in Generations : c.replies[h] \in Nat
    BY <2>1
  <2> QED
    BY <2>1, <2>2
<1>1. CASE SaveInbound(g)
  <2>1. CASE ~Fresh(g)
    BY <1>1, <2>1 DEF SaveInbound, Refused, Refuses, Active
  <2>2. CASE Fresh(g)
    <3>1. /\ Save(g, c) /\ turn' = [turn EXCEPT ![g].pc = "saved"] /\ UNCHANGED <<shown, completed>>
          /\ turn[g].pc = "loaded" /\ UNCHANGED <<governance, pending, history>>
      BY <1>1, <2>2 DEF SaveInbound
    <3> DEFINE row == [turn[g] EXCEPT !.pc = "saved"]
    <3>2. row \in Turn /\ row.pc = "saved" /\ row.copy = c
      BY <1>0 DEF Turn, Places
    <3>3. turn' = [turn EXCEPT ![g] = row]
      BY <3>1
    <3> HIDE DEF row
    <3>4. Saves(g, c)
      BY <1>0, <2>2, <3>1, <3>2, <3>3 DEF Saves, Shows, Active
    <3> QED
      BY <1>0, <3>4
  <2> QED
    BY <2>1, <2>2
<1>2. CASE Observe(g)
  <2>1. CASE ~Fresh(g)
    BY <1>2, <2>1 DEF Observe, Refused, Refuses, Active
  <2>2. CASE Fresh(g)
    <3>1. /\ Save(g, c) /\ UNCHANGED <<turn, shown, completed>>
          /\ turn[g].pc = "saved" /\ UNCHANGED <<governance, pending, history>>
      BY <1>2, <2>2 DEF Observe, Refused
    <3>2. turn' = [turn EXCEPT ![g] = turn[g]]
      BY <3>1 DEF TypeInv
    <3>3. Saves(g, c)
      BY <1>0, <2>2, <3>1, <3>2 DEF Saves, Shows, Active
    <3> QED
      BY <1>0, <3>3
  <2> QED
    BY <2>1, <2>2
<1>3. CASE ReadGovernance(g)
  <2> DEFINE row == [turn[g] EXCEPT !.pc = "open", !.grev = governance.rev]
  <2>1. row \in Turn /\ row.pc = "open" /\ row.copy = c
    BY <1>0 DEF Turn, Places, TypeInv
  <2>2. turn' = [turn EXCEPT ![g] = row]
    BY <1>3 DEF ReadGovernance
  <2> HIDE DEF row
  <2>3. Moves(g)
    BY <1>3, <2>1, <2>2 DEF ReadGovernance, Moves
  <2> QED
    BY <2>3
<1>4. CASE PersistFrame(g)
  <2>0. PICK s : s = Longer(g)
    OBVIOUS
  <2>1. /\ s \in Copy /\ s.accepted = c.accepted /\ s.replies[g] # 0
        /\ \A h \in Generations : IF h = g THEN s.replies[h] >= c.replies[h]
                                           ELSE s.replies[h] = c.replies[h]
    BY <2>0, LongerType
  <2>2. CASE ~Fresh(g)
    <3>1. turn[g].pc = "open" /\ Refused(g) /\ UNCHANGED <<governance, pending, history>>
      BY <1>4, <2>2 DEF PersistFrame
    <3> QED
      BY <3>1 DEF Refused, Refuses, Active
  <2>3. CASE Fresh(g) /\ ~Refused(g)
    <3>1. /\ turn[g].pc = "open" /\ Save(g, s) /\ UNCHANGED completed
          /\ turn' = [turn EXCEPT ![g].copy = s]
          /\ (Newest(g) /\ shown' = [shown EXCEPT ![g] = s.replies[g]]) \/ UNCHANGED shown
          /\ UNCHANGED <<governance, pending, history>>
      BY <1>4, <2>0, <2>3 DEF PersistFrame, Longer
    <3> DEFINE row == [turn[g] EXCEPT !.copy = s]
    <3>2. row \in Turn /\ row.pc = "open" /\ row.copy = s
      BY <1>0, <2>1, <3>1 DEF Turn
    <3>3. turn' = [turn EXCEPT ![g] = row]
      BY <3>1
    <3> HIDE DEF row
    <3>4. Saves(g, s)
      BY <2>1, <2>3, <3>1, <3>2, <3>3 DEF Saves, Shows, Active
    <3> QED
      BY <2>1, <3>4
  <2>4. CASE Fresh(g) /\ Refused(g)
    <3>1. turn[g].pc = "open" /\ UNCHANGED <<governance, pending, history>>
      BY <1>4 DEF PersistFrame
    <3> QED
      BY <2>4, <3>1 DEF Refused, Refuses, Active
  <2> QED
    BY <2>2, <2>3, <2>4
<1>5. CASE Finish(g)
  <2> DEFINE row == [turn[g] EXCEPT !.pc = "finished"]
  <2>1. row \in Turn /\ row.pc = "finished" /\ row.copy = c
    BY <1>0 DEF Turn, Places
  <2>2. turn' = [turn EXCEPT ![g] = row]
    BY <1>5 DEF Finish
  <2> HIDE DEF row
  <2>3. Moves(g)
    BY <1>5, <2>1, <2>2 DEF Finish, Moves
  <2> QED
    BY <2>3
<1>6. CASE Complete(g)
  <2>1. CASE ~Fresh(g)
    BY <1>6, <2>1 DEF Complete, Refused, Refuses, Active
  <2>2. CASE Fresh(g)
    <3> DEFINE row == [pc |-> "over", grev |-> 0, copy |-> Blank]
    <3>1. /\ turn[g].pc = "finished" /\ Save(g, c) /\ UNCHANGED shown
          /\ turn' = [turn EXCEPT ![g] = row]
          /\ completed \subseteq completed' /\ completed' \subseteq completed \cup {g}
          /\ UNCHANGED <<governance, pending, history>>
      BY <1>6, <2>2 DEF Complete
    <3>2. row \in Turn /\ row.pc = "over" /\ row.copy = Blank
      BY OverIsTurn
    <3> HIDE DEF row
    <3>3. Saves(g, c)
      BY <1>0, <2>2, <3>1, <3>2 DEF Saves, Shows, Active
    <3> QED
      BY <1>0, <3>3
  <2> QED
    BY <2>1, <2>2
<1>7. CASE Stop(g)
  BY <1>7 DEF Stop, Refused, Refuses, Running, Active
<1> QED
  BY <1>1, <1>2, <1>3, <1>4, <1>5, <1>6, <1>7 DEF TurnStep

-----------------------------------------------------------------------------
(* Types *)

\* What a save does to the tables beside the memories.
LEMMA SaveTables ==
  ASSUME TypeInv, NEW g \in Generations, NEW s \in Copy, Save(g, s)
  PROVE  /\ session' \in [gen : Generations \cup {None, Fence}, rev : Nat]
         /\ session'.rev >= session.rev
         /\ inbound' \subseteq Bursts /\ replies' \in [Generations -> Nat]
         /\ \A h \in Generations :
              replies'[h] = IF s.replies[h] # 0 THEN s.replies[h] ELSE replies[h]
         /\ accepted' \subseteq accepted \cup s.accepted /\ accepted' \subseteq Generations
<1>0. /\ s.inbound \subseteq Bursts /\ s.replies \in [Generations -> Nat]
      /\ s.accepted \subseteq Generations
  BY DEF Copy
<1>1. Revision[g] \in Nat /\ session.rev \in Nat
  BY PersonalDataAssumption DEF TypeInv
<1>2. session' = IF Revision[g] > session.rev THEN [gen |-> g, rev |-> Revision[g]] ELSE session
  BY DEF Save
<1>3. /\ session' \in [gen : Generations \cup {None, Fence}, rev : Nat]
      /\ session'.rev >= session.rev
  <2>1. CASE Revision[g] > session.rev
    <3>1. session' = [gen |-> g, rev |-> Revision[g]]
      BY <1>2, <2>1
    <3> QED
      BY <1>1, <2>1, <3>1
  <2>2. CASE ~(Revision[g] > session.rev)
    BY <1>1, <1>2, <2>2 DEF TypeInv
  <2> QED
    BY <2>1, <2>2
<1>4. inbound' \subseteq Bursts
  BY <1>0 DEF Save, TypeInv
<1>5. /\ replies' \in [Generations -> Nat]
      /\ \A h \in Generations :
           replies'[h] = IF s.replies[h] # 0 THEN s.replies[h] ELSE replies[h]
  BY <1>0 DEF Save, TypeInv
<1>6. accepted' \subseteq accepted \cup s.accepted /\ accepted' \subseteq Generations
  <2>1. accepted' = accepted \cup {h \in s.accepted : replies'[h] # 0}
    BY DEF Save
  <2> QED
    BY <1>0, <2>1 DEF TypeInv
<1> QED
  BY <1>3, <1>4, <1>5, <1>6

LEMMA LoadedRow ==
  ASSUME TypeInv, NEW g \in Generations, Load(g)
  PROVE  \E row \in Turn : /\ turn' = [turn EXCEPT ![g] = row] /\ row.pc = "loaded"
                           /\ row.copy.replies = replies
                           /\ row.copy.accepted = accepted \cup completed
<1> DEFINE copy == [inbound |-> inbound \cup {BurstOf[g]}, replies |-> replies,
                    accepted |-> accepted \cup completed]
           row == [pc |-> "loaded", grev |-> 0, copy |-> copy]
<1>1. /\ inbound \cup {BurstOf[g]} \subseteq Bursts /\ replies \in [Generations -> Nat]
      /\ accepted \cup completed \subseteq Generations
  BY DEF TypeInv, Bursts
<1>2. /\ copy \in Copy /\ copy.replies = replies /\ copy.accepted = accepted \cup completed
  BY <1>1 DEF Copy
<1>3. turn' = [turn EXCEPT ![g] = row]
  BY DEF Load
<1> HIDE DEF copy
<1>4. row \in Turn /\ row.pc = "loaded" /\ row.copy = copy
  BY <1>2, PersonalDataAssumption DEF Turn, Places
<1> HIDE DEF row
<1> QED
  BY <1>2, <1>3, <1>4

LEMMA TurnStepType ==
  ASSUME TypeInv, NEW g \in Generations, TurnStep(g)
  PROVE  TypeInv'
<1>1. CASE Load(g)
  <2>1. turn' \in [Generations -> Turn]
    BY <1>1, LoadedRow DEF TypeInv
  <2> QED
    BY <1>1, <2>1 DEF Load, TypeInv, tables, history
<1>2. CASE Refuses(g)
  <2>1. turn' \in [Generations -> Turn]
    BY <1>2, OverIsTurn DEF Refuses, TypeInv
  <2> QED
    BY <1>2, <2>1 DEF Refuses, TypeInv, tables, history
<1>3. CASE Moves(g)
  <2>1. turn' \in [Generations -> Turn]
    BY <1>3 DEF Moves, TypeInv
  <2> QED
    BY <1>3, <2>1 DEF Moves, TypeInv, tables, history
<1>4. ASSUME NEW s \in Copy, Saves(g, s) PROVE TypeInv'
  <2>1. Save(g, s) /\ UNCHANGED <<governance, pending, barrier, fenced>>
    BY <1>4 DEF Saves, history
  <2>2. turn' \in [Generations -> Turn]
    BY <1>4 DEF Saves, TypeInv
  <2>3. completed' \subseteq Generations
    BY <1>4 DEF Saves, TypeInv
  <2>4. shown' \in [Generations -> Nat]
    <3>1. s.replies[g] \in Nat
      BY DEF Copy
    <3> QED
      BY <1>4, <3>1 DEF Saves, Shows, TypeInv
  <2>5. memories' \in Memories
    BY <2>1, SaveMemories
  <2> QED
    BY <2>1, <2>2, <2>3, <2>4, <2>5, SaveTables DEF TypeInv
<1> QED
  BY <1>1, <1>2, <1>3, <1>4, TurnKinds

LEMMA BumpType ==
  ASSUME TypeInv, Bump
  PROVE  /\ governance' \in [capture : BOOLEAN, rev : 0 .. MaxGovernance]
         /\ governance'.rev = governance.rev + 1 /\ governance.rev \in Nat
<1>1. /\ governance \in [capture : BOOLEAN, rev : 0 .. MaxGovernance]
      /\ governance.rev < MaxGovernance /\ MaxGovernance \in Nat
      /\ governance' = [governance EXCEPT !.rev = @ + 1]
  BY PersonalDataAssumption DEF Bump, TypeInv
<1> QED
  BY <1>1

\* The contents the user withdraws, at the revision that this makes.
LEMMA WithdrawType ==
  ASSUME TypeInv, MemoryInv, Bump, NEW ids, Withdraw(ids)
  PROVE  /\ barrier' \in [Contents -> 0 .. MaxGovernance]
         /\ \A c \in Contents : barrier'[c] <= governance'.rev
<1>1. /\ governance'.rev \in 0 .. MaxGovernance /\ governance'.rev = governance.rev + 1
      /\ governance.rev \in Nat
  BY BumpType
<1>2. \A c \in Contents : barrier[c] \in 0 .. MaxGovernance /\ barrier[c] <= governance.rev
  BY DEF MemoryInv, TypeInv
<1>3. \A c \in Contents : barrier'[c] \in {governance'.rev, barrier[c]}
  BY DEF Withdraw
<1>4. barrier' = [c \in Contents |-> barrier'[c]]
  BY DEF Withdraw
<1>5. ASSUME NEW c \in Contents PROVE barrier'[c] \in 0 .. MaxGovernance /\ barrier'[c] <= governance'.rev
  <2>1. CASE barrier'[c] = governance'.rev
    BY <1>1, <2>1
  <2>2. CASE barrier'[c] = barrier[c]
    BY <1>1, <1>2, <2>2
  <2> QED
    BY <1>3, <2>1, <2>2
<1> QED
  BY <1>4, <1>5

-----------------------------------------------------------------------------
(* The memories, step by step *)

\* A new memory is of the turn that the session is at.
OnlyCurrentStages ==
  \A m \in Mem : memories[m] = None /\ memories'[m] # None =>
    \E g \in Generations : Current(g) /\ memories'[m].gen = g

\* What a step does right by the memories.
Rightly == MemoryInv' /\ OnlyCurrentStages /\ \A m \in Mem : ComesUpRightly(m)

LEMMA FollowsRightly ==
  ASSUME TypeInv, MemoryInv, \A m \in Mem : Follows(m) /\ ComesUpRightly(m),
         DisablesByGovernance, governance'.rev \in Nat, completed \subseteq completed',
         \A c \in Contents : barrier'[c] <= governance'.rev
  PROVE  Rightly
<1>1. MemoryInv'
  BY MemoryInvFollows
<1>2. OnlyCurrentStages
  BY DEF OnlyCurrentStages, Follows, Exists
<1> QED
  BY <1>1, <1>2 DEF Rightly

LEMMA FrozenRightly ==
  ASSUME TypeInv, MemoryInv, UNCHANGED <<memories, barrier>>, completed \subseteq completed',
         governance'.rev \in Nat, governance'.rev >= governance.rev
  PROVE  Rightly
<1>1. ASSUME NEW m \in Mem PROVE Follows(m) /\ ComesUpRightly(m)
  <2>1. Exists(m) => memories[m].sup \in Mem \cup {None} /\ LinksAreFound(m)
    BY MemoryType DEF MemoryInv
  <2>2. Follows(m)
    BY <2>1 DEF Follows, Exists, LinksAreFound
  <2> QED
    BY <2>2 DEF ComesUpRightly, Retained, Has, Exists
<1>2. DisablesByGovernance
  BY DEF DisablesByGovernance
<1>3. \A c \in Contents : barrier'[c] <= governance'.rev
  <2>1. governance.rev \in Nat /\ \A c \in Contents : barrier[c] \in Nat /\ barrier[c] <= governance.rev
    BY DEF TypeInv, MemoryInv
  <2> QED
    BY <2>1
<1> QED
  BY <1>1, <1>2, <1>3, FollowsRightly

LEMMA TurnStepRightly ==
  ASSUME TypeInv, MemoryInv, AcceptedIsCompleted, NEW g \in Generations, TurnStep(g)
  PROVE  Rightly
<1>0. governance.rev \in Nat /\ \A c \in Contents : barrier[c] <= governance.rev
  BY DEF TypeInv, MemoryInv
<1>1. CASE Load(g) \/ Refuses(g) \/ Moves(g)
  <2>1. UNCHANGED <<memories, barrier, completed, governance>>
    BY <1>1 DEF Load, Refuses, Moves, tables, history
  <2> QED
    BY <1>0, <2>1, FrozenRightly
<1>2. ASSUME NEW s \in Copy, Saves(g, s) PROVE Rightly
  <2>1. /\ Save(g, s) /\ UNCHANGED <<governance, barrier>> /\ completed \subseteq completed'
        /\ s.accepted \subseteq completed
    BY <1>2 DEF Saves, history, AcceptedIsCompleted
  <2>2. accepted' \subseteq completed
    BY <2>1, SaveTables DEF AcceptedIsCompleted
  <2>3. \A m \in Mem : /\ Follows(m) /\ ComesUpRightly(m)
                       /\ Exists(m)' /\ memories'[m].status = "disabled_by_user" =>
                            memories[m].status = "disabled_by_user"
    BY <2>1, <2>2, SaveFollows
  <2>4. DisablesByGovernance
    BY <1>0, <2>1, <2>3 DEF DisablesByGovernance
  <2> QED
    BY <1>0, <2>1, <2>3, <2>4, FollowsRightly
<1> QED
  BY <1>1, <1>2, TurnKinds

LEMMA StagingIsRight ==
  ASSUME TypeInv, MemoryInv, NEW g \in Generations, NEW c \in Control, NEW named \in Known \cup {None},
         Stage(g, c, named)
  PROVE  TypeInv' /\ Rightly
<1>1. /\ memories' \in Memories /\ MemoryInv' /\ \A m \in Mem : ComesUpRightly(m)
      /\ \A m \in Mem : memories[m] = None /\ memories'[m] # None => memories'[m].gen = g
  BY StageMemories
<1>2. Current(g)
  BY DEF Stage
<1>3. TypeInv'
  BY <1>1 DEF Stage, TypeInv, history
<1> QED
  BY <1>1, <1>2, <1>3 DEF Rightly, OnlyCurrentStages

LEMMA UserStepIsRight ==
  ASSUME TypeInv, MemoryInv, NEW g \in Generations, UserStep(g)
  PROVE  TypeInv' /\ Rightly
<1>0. governance.rev \in Nat
  BY DEF TypeInv
<1>1. CASE \/ \E c \in Controls, named \in Known \cup {None} : StageMemory(g, c, named)
           \/ \E c \in Controls : ExtractMemory(g, c)
  <2>1. PICK c \in Control, named \in Known \cup {None} : Stage(g, c, named)
    BY <1>1, StagingStages
  <2> QED
    BY <2>1, StagingIsRight
<1>2. ASSUME NEW ids \in SUBSET Known, DisableByUser(g, ids) PROVE TypeInv' /\ Rightly
  <2>1. /\ Bump /\ Withdraw(ids)
        /\ memories' = [m \in Mem |-> IF m \in ids THEN [memories[m] EXCEPT !.status = "disabled_by_user"]
                                      ELSE memories[m]]
        /\ UNCHANGED <<session, inbound, replies, accepted, pending, turn, completed, shown, fenced>>
    BY <1>2 DEF DisableByUser
  <2>2. memories' \in Memories /\ \A m \in Mem : Follows(m) /\ ComesUpRightly(m)
    BY <2>1, DisableFollows
  <2>3. /\ governance' \in [capture : BOOLEAN, rev : 0 .. MaxGovernance]
        /\ governance'.rev = governance.rev + 1
    BY <2>1, BumpType
  <2>4. /\ barrier' \in [Contents -> 0 .. MaxGovernance]
        /\ \A c \in Contents : barrier'[c] <= governance'.rev
    BY <2>1, WithdrawType
  <2>5. DisablesByGovernance
    BY <1>0, <2>3 DEF DisablesByGovernance
  <2>6. Rightly
    BY <1>0, <2>1, <2>2, <2>3, <2>4, <2>5, FollowsRightly
  <2>7. TypeInv'
    BY <2>1, <2>2, <2>3, <2>4 DEF TypeInv
  <2> QED
    BY <2>6, <2>7
<1>3. ASSUME NEW ids \in SUBSET Known, RequestDelete(g, ids) PROVE TypeInv' /\ Rightly
  <2>1. /\ UNCHANGED <<memories, barrier, completed, governance>>
        /\ pending' = pending \cup {ids} /\ ids \subseteq Mem
    BY <1>3 DEF RequestDelete, tables, history, Known
  <2>2. TypeInv'
    BY <1>3, <2>1 DEF RequestDelete, tables, history, TypeInv
  <2> QED
    BY <1>0, <2>1, <2>2, FrozenRightly
<1>4. ASSUME NEW ids \in pending, ConfirmDelete(g, ids) PROVE TypeInv' /\ Rightly
  <2>1. PICK erased : memories' = Erase(erased)
    BY <1>4 DEF ConfirmDelete
  <2>2. /\ Bump /\ Withdraw(ids) /\ pending' \subseteq pending
        /\ UNCHANGED <<session, inbound, replies, accepted, turn, completed, shown, fenced>>
    BY <1>4 DEF ConfirmDelete
  <2>3. /\ memories' \in Memories
        /\ \A m \in Mem : Follows(m) /\ ComesUpRightly(m)
    BY <2>1, EraseType, EraseFollows
  <2>4. /\ governance' \in [capture : BOOLEAN, rev : 0 .. MaxGovernance]
        /\ governance'.rev = governance.rev + 1
    BY <2>2, BumpType
  <2>5. /\ barrier' \in [Contents -> 0 .. MaxGovernance]
        /\ \A c \in Contents : barrier'[c] <= governance'.rev
    BY <2>2, WithdrawType
  <2>6. DisablesByGovernance
    BY <1>0, <2>4 DEF DisablesByGovernance
  <2>7. Rightly
    BY <1>0, <2>2, <2>3, <2>4, <2>5, <2>6, FollowsRightly
  <2>8. TypeInv'
    BY <2>2, <2>3, <2>4, <2>5 DEF TypeInv
  <2> QED
    BY <2>7, <2>8
<1> QED
  BY <1>1, <1>2, <1>3, <1>4 DEF UserStep

\* The purge of a window: what it takes, and what it restores.
Purged(ids, restored) ==
  /\ ids \in SUBSET Mem
  /\ \A m \in ids : Exists(m)
  /\ \A m \in restored : /\ m \in {memories[n].sup : n \in ids} \ (ids \cup {None})
                         /\ Erase(ids)[m].status # "disabled_by_user"
  /\ memories' = [m \in Mem |-> IF m \in restored THEN [Erase(ids)[m] EXCEPT !.status = "retained"]
                                ELSE Erase(ids)[m]]

LEMMA PurgedRows ==
  ASSUME TypeInv, NEW lo, NEW hi, PurgeWindow(lo, hi)
  PROVE  \E ids, restored : Purged(ids, restored)
<1> DEFINE bursts == {b \in Bursts : lo <= b /\ b <= hi /\ b \in inbound}
           gens == {h \in Generations : BurstOf[h] \in bursts}
           ids == {m \in Mem : Exists(m) /\ (memories[m].gen \in gens \/ memories[m].cites \in bursts)}
           left == Erase(ids)
           older == {memories[m].sup : m \in ids} \ (ids \cup {None})
           restored == {m \in older : /\ left[m].status # "disabled_by_user"
                                      /\ ~\E n \in Mem : left[n] \notin {None, Gone} /\ left[n].sup = m}
<1>1. memories' = [m \in Mem |-> IF m \in restored THEN [left[m] EXCEPT !.status = "retained"]
                                 ELSE left[m]]
  BY DEF PurgeWindow
<1> HIDE DEF bursts, gens
<1>2. /\ ids \in SUBSET Mem /\ \A m \in ids : Exists(m)
      /\ \A m \in restored : m \in older /\ left[m].status # "disabled_by_user"
  OBVIOUS
<1>3. \A m \in restored : /\ m \in {memories[n].sup : n \in ids} \ (ids \cup {None})
                           /\ Erase(ids)[m].status # "disabled_by_user"
  BY <1>2
<1>4. memories' = [m \in Mem |-> IF m \in restored THEN [Erase(ids)[m] EXCEPT !.status = "retained"]
                                 ELSE Erase(ids)[m]]
  BY <1>1
<1>5. Purged(ids, restored)
  BY <1>2, <1>3, <1>4 DEF Purged
<1> HIDE DEF ids, restored
<1> QED
  BY <1>5

\* What a purge does to the other tables.
LEMMA PurgedTables ==
  ASSUME TypeInv, NEW lo, NEW hi, PurgeWindow(lo, hi)
  PROVE  /\ session' = [gen |-> Fence, rev |-> session.rev + 1]
         /\ inbound' \subseteq inbound /\ accepted' \subseteq accepted /\ pending' \subseteq pending
         /\ replies' \in [Generations -> Nat] /\ shown' \in [Generations -> Nat]
         /\ \A h \in Generations : \/ replies'[h] = 0 /\ shown'[h] = 0
                                   \/ replies'[h] = replies[h] /\ shown'[h] = shown[h]
         /\ fenced' = fenced \cup {g \in Running : turn[g].pc # "loaded" /\ Revision[g] <= session.rev}
         /\ UNCHANGED <<governance, turn, completed, barrier>>
<1> DEFINE bursts == {b \in Bursts : lo <= b /\ b <= hi /\ b \in inbound}
           gens == {h \in Generations : BurstOf[h] \in bursts}
<1>1. /\ replies' = [h \in Generations |-> IF h \in gens THEN 0 ELSE replies[h]]
      /\ shown' = [h \in Generations |-> IF h \in gens THEN 0 ELSE shown[h]]
      /\ accepted' = accepted \ gens
  BY DEF PurgeWindow
<1> HIDE DEF bursts, gens
<1>2. /\ replies' \in [Generations -> Nat] /\ shown' \in [Generations -> Nat]
      /\ accepted' \subseteq accepted
      /\ \A h \in Generations : \/ replies'[h] = 0 /\ shown'[h] = 0
                                \/ replies'[h] = replies[h] /\ shown'[h] = shown[h]
  BY <1>1 DEF TypeInv
<1>3. inbound' \subseteq inbound /\ pending' \subseteq pending
  <2>1. PICK taken, ids : inbound' = inbound \ taken /\ pending' = {p \in pending : p \cap ids = {}}
    BY Zenon DEF PurgeWindow
  <2> QED
    BY <2>1
<1>4. /\ session' = [gen |-> Fence, rev |-> session.rev + 1]
      /\ fenced' = fenced \cup {g \in Running : turn[g].pc # "loaded" /\ Revision[g] <= session.rev}
      /\ UNCHANGED <<governance, turn, completed, barrier>>
  BY DEF PurgeWindow
<1> QED
  BY <1>2, <1>3, <1>4

\* The deletion of the owner leaves no memory.
LEMMA DeletedRows ==
  ASSUME TypeInv, DeleteOwner
  PROVE  memories' \in Memories /\ \A m \in Mem : memories'[m] \in {memories[m], Gone} /\ ~Exists(m)'
<1>1. memories' = [m \in Mem |-> IF Exists(m) THEN Gone ELSE memories[m]]
  BY DEF DeleteOwner
<1> QED
  BY <1>1 DEF TypeInv, Memories, Exists

LEMMA MaintenanceIsRight ==
  ASSUME TypeInv, MemoryInv, Maintenance
  PROVE  TypeInv' /\ Rightly
<1>0. governance.rev \in Nat /\ \A c \in Contents : barrier[c] <= governance.rev
  BY DEF TypeInv, MemoryInv
<1>1. ASSUME NEW ids \in pending, DropPending(ids) PROVE TypeInv' /\ Rightly
  <2>1. UNCHANGED <<memories, barrier, completed, governance>>
    BY <1>1 DEF DropPending, tables, history
  <2>2. TypeInv'
    BY <1>1 DEF DropPending, tables, history, TypeInv
  <2> QED
    BY <1>0, <2>1, <2>2, FrozenRightly
<1>2. ASSUME NEW capture \in BOOLEAN, ChangeSetting(capture) PROVE TypeInv' /\ Rightly
  <2>1. /\ UNCHANGED <<memories, barrier, completed>>
        /\ governance' = [capture |-> capture, rev |-> governance.rev + 1]
        /\ governance.rev < MaxGovernance
    BY <1>2 DEF ChangeSetting, tables, history
  <2>2. /\ governance' \in [capture : BOOLEAN, rev : 0 .. MaxGovernance]
        /\ governance'.rev \in Nat /\ governance'.rev >= governance.rev
    BY <1>0, <2>1, PersonalDataAssumption
  <2>3. TypeInv'
    BY <1>2, <2>2 DEF ChangeSetting, tables, history, TypeInv
  <2> QED
    BY <2>1, <2>2, <2>3, FrozenRightly
<1>3. ASSUME NEW g \in Generations, PruneProvisional(g) PROVE TypeInv' /\ Rightly
  <2>1. /\ memories' = Erase(Awaiting({h \in Generations : h <= g}))
        /\ UNCHANGED <<session, inbound, replies, accepted, governance, pending, turn,
                       completed, shown, barrier, fenced>>
    BY <1>3 DEF PruneProvisional, history
  <2>2. /\ memories' \in Memories
        /\ \A m \in Mem : /\ Follows(m) /\ ComesUpRightly(m)
                          /\ Exists(m)' => memories'[m].status = memories[m].status
    BY <2>1, EraseType, EraseFollows
  <2>3. DisablesByGovernance
    BY <1>0, <2>1, <2>2 DEF DisablesByGovernance
  <2>4. Rightly
    BY <1>0, <2>1, <2>2, <2>3, FollowsRightly
  <2>5. TypeInv'
    BY <2>1, <2>2 DEF TypeInv
  <2> QED
    BY <2>4, <2>5
<1>4. ASSUME NEW lo, NEW hi, PurgeWindow(lo, hi) PROVE TypeInv' /\ Rightly
  <2>1. PICK ids, restored :
           /\ ids \in SUBSET Mem
           /\ \A m \in ids : Exists(m)
           /\ \A m \in restored :
                /\ m \in {memories[n].sup : n \in ids} \ (ids \cup {None})
                /\ Erase(ids)[m].status # "disabled_by_user"
           /\ memories' = [m \in Mem |-> IF m \in restored
                                         THEN [Erase(ids)[m] EXCEPT !.status = "retained"]
                                         ELSE Erase(ids)[m]]
    BY <1>4, PurgedRows DEF Purged
  <2>2. /\ memories' \in Memories
        /\ \A m \in Mem : /\ Follows(m) /\ ComesUpRightly(m)
                          /\ Exists(m)' /\ memories'[m].status = "disabled_by_user" =>
                               memories[m].status = "disabled_by_user"
    BY <2>1, RestoreFollows
  <2>3. /\ session' = [gen |-> Fence, rev |-> session.rev + 1]
        /\ inbound' \subseteq inbound /\ accepted' \subseteq accepted /\ pending' \subseteq pending
        /\ replies' \in [Generations -> Nat] /\ shown' \in [Generations -> Nat]
        /\ fenced' \subseteq Generations
        /\ UNCHANGED <<governance, turn, completed, barrier>>
    BY <1>4, PurgedTables DEF TypeInv, Running
  <2>4. DisablesByGovernance
    BY <1>0, <2>2, <2>3 DEF DisablesByGovernance
  <2>5. Rightly
    BY <1>0, <2>2, <2>3, <2>4, FollowsRightly
  <2>6. session' \in [gen : Generations \cup {None, Fence}, rev : Nat]
    BY <2>3 DEF TypeInv
  <2>7. TypeInv'
    BY <2>2, <2>3, <2>6 DEF TypeInv
  <2> QED
    BY <2>5, <2>7
<1>5. CASE DeleteOwner
  <2>1. memories' \in Memories /\ \A m \in Mem : memories'[m] \in {memories[m], Gone} /\ ~Exists(m)'
    BY <1>5, DeletedRows
  <2>2. /\ session' = [gen |-> None, rev |-> 0] /\ inbound' = {} /\ accepted' = {}
        /\ replies' = Blank.replies /\ shown' = Blank.replies
        /\ governance' = [capture |-> TRUE, rev |-> 0] /\ pending' = {}
        /\ barrier' = [c \in Contents |-> 0] /\ fenced' = {}
        /\ UNCHANGED <<turn, completed>>
    BY <1>5 DEF DeleteOwner
  <2>3. MemoryInv'
    <3>1. \A c \in Contents : barrier'[c] <= governance'.rev
      BY <2>2
    <3>2. \A m \in Mem : /\ FromCompleted(m)' /\ LinksAreFound(m)'
                         /\ DisabledIsOutOfReach(m)' /\ StagedBefore(m)'
      BY <2>1 DEF FromCompleted, LinksAreFound, DisabledIsOutOfReach, StagedBefore, Has
    <3> QED
      BY <3>1, <3>2 DEF MemoryInv
  <2>4. \A m \in Mem : ComesUpRightly(m)
    BY <2>1 DEF ComesUpRightly, Retained, Has
  <2>5. OnlyCurrentStages
    <3>1. ASSUME NEW m \in Mem, memories[m] = None PROVE memories'[m] = None
      BY <1>5, <3>1 DEF DeleteOwner, Exists
    <3> QED
      BY <3>1 DEF OnlyCurrentStages
  <2>6. /\ governance' \in [capture : BOOLEAN, rev : 0 .. MaxGovernance]
        /\ barrier' \in [Contents -> 0 .. MaxGovernance]
        /\ session' \in [gen : Generations \cup {None, Fence}, rev : Nat]
        /\ replies' \in [Generations -> Nat] /\ shown' \in [Generations -> Nat]
    BY <2>2, BlankType, PersonalDataAssumption
  <2>7. TypeInv'
    BY <2>1, <2>2, <2>6 DEF TypeInv
  <2> QED
    BY <2>3, <2>4, <2>5, <2>7 DEF Rightly
<1> QED
  BY <1>1, <1>2, <1>3, <1>4, <1>5 DEF Maintenance

LEMMA NextIsRight ==
  ASSUME TypeInv, MemoryInv, AcceptedIsCompleted, Next
  PROVE  TypeInv' /\ Rightly
BY TurnStepType, TurnStepRightly, UserStepIsRight, MaintenanceIsRight DEF Next

-----------------------------------------------------------------------------
(* The turns, step by step *)

\* A step that changes nothing of what the turns depend on.
LEMMA QuietTurns ==
  ASSUME TurnInv,
         UNCHANGED <<session, replies, accepted, turn, completed, shown, fenced>>
  PROVE  TurnInv'
BY DEF TurnInv, AcceptedIsCompleted, RepliesInv, ClaimedInOrder, CopiesAreOld, CopiesHaveShown,
       NoReplyBefore, ShownIsStored, FencedAreBehind, Active

LEMMA LoadReplies ==
  ASSUME TypeInv, TurnInv, NEW g \in Generations, Load(g)
  PROVE  TurnInv'
<1>0. Generations \subseteq Nat
  BY PersonalDataAssumption
<1>1. PICK row \in Turn : /\ turn' = [turn EXCEPT ![g] = row] /\ row.pc = "loaded"
                          /\ row.copy.replies = replies
                          /\ row.copy.accepted = accepted \cup completed
  BY LoadedRow
<1>2. /\ turn'[g] = row /\ \A h \in Generations \ {g} : turn'[h] = turn[h]
      /\ turn[g].pc = "waiting" /\ \A h \in Generations : h < g => turn[h].pc # "waiting"
      /\ UNCHANGED <<session, replies, accepted, completed, shown, fenced>>
  BY <1>1 DEF Load, TypeInv, tables, history
<1>3. AcceptedIsCompleted'
  BY <1>1, <1>2 DEF TurnInv, AcceptedIsCompleted
<1>4. ClaimedInOrder'
  BY <1>0, <1>1, <1>2 DEF TurnInv, RepliesInv, ClaimedInOrder
<1>5. CopiesAreOld'
  <2>1. \A h \in Generations : g < h => replies[h] = 0
    BY <1>2 DEF TurnInv, RepliesInv, ClaimedInOrder, NoReplyBefore
  <2> QED
    BY <1>1, <1>2, <2>1 DEF TurnInv, RepliesInv, CopiesAreOld, Active
<1>6. CopiesHaveShown'
  BY <1>1, <1>2 DEF TurnInv, RepliesInv, CopiesHaveShown, ShownIsStored, Active
<1>7. NoReplyBefore'
  BY <1>1, <1>2 DEF TurnInv, RepliesInv, NoReplyBefore
<1>8. ShownIsStored'
  BY <1>2 DEF TurnInv, RepliesInv, ShownIsStored
<1>9. FencedAreBehind'
  <2>1. \A h \in fenced : h \in Generations /\ h # g
    BY <1>2 DEF TurnInv, FencedAreBehind, TypeInv
  <2> QED
    BY <1>2, <2>1 DEF TurnInv, FencedAreBehind
<1> QED
  BY <1>3, <1>4, <1>5, <1>6, <1>7, <1>8, <1>9 DEF TurnInv, RepliesInv

\* A turn that goes on, or ends, without a save.
LEMMA MoveReplies ==
  ASSUME TypeInv, TurnInv, NEW g \in Generations, Active(g), NEW row \in Turn,
         turn' = [turn EXCEPT ![g] = row],
         \/ row.pc = "over" /\ row.copy = Blank
         \/ /\ row.pc \in {"open", "finished"} /\ row.copy = turn[g].copy,
         UNCHANGED <<session, replies, accepted, completed, shown, fenced>>
  PROVE  TurnInv'
<1>1. turn'[g] = row /\ \A h \in Generations \ {g} : turn'[h] = turn[h]
  BY DEF TypeInv
<1>2. row.copy.accepted \subseteq turn[g].copy.accepted
  BY DEF Blank
<1>3. AcceptedIsCompleted'
  BY <1>1, <1>2 DEF TurnInv, AcceptedIsCompleted
<1>4. ClaimedInOrder' /\ NoReplyBefore'
  BY <1>1 DEF TurnInv, RepliesInv, ClaimedInOrder, NoReplyBefore, Active
<1>5. CopiesAreOld' /\ CopiesHaveShown'
  BY <1>1 DEF TurnInv, RepliesInv, CopiesAreOld, CopiesHaveShown, Active
<1>6. ShownIsStored'
  BY DEF TurnInv, RepliesInv, ShownIsStored
<1>7. FencedAreBehind'
  BY <1>1 DEF TurnInv, FencedAreBehind
<1> QED
  BY <1>3, <1>4, <1>5, <1>6, <1>7 DEF TurnInv, RepliesInv

LEMMA SaveReplies ==
  ASSUME TypeInv, TurnInv, NEW g \in Generations, NEW s \in Copy, Saves(g, s)
  PROVE  TurnInv'
<1>0. /\ Generations \subseteq Nat
      /\ \A h \in Generations : /\ shown[h] \in Nat /\ replies[h] \in Nat /\ s.replies[h] \in Nat
                                /\ turn[g].copy.replies[h] \in Nat
  BY PersonalDataAssumption, TurnType DEF TypeInv, Copy
<1>1. PICK row \in Turn : /\ turn' = [turn EXCEPT ![g] = row]
                          /\ \/ row.pc = "over" /\ row.copy = Blank
                             \/ row.pc \in {"saved", "open"} /\ row.copy = s
  BY DEF Saves
<1>2. turn'[g] = row /\ \A h \in Generations \ {g} : turn'[h] = turn[h]
  BY <1>1 DEF TypeInv
<1>3. /\ Active(g) /\ Fresh(g) /\ Save(g, s) /\ Shows(g, s)
      /\ s.accepted = turn[g].copy.accepted
      /\ \A h \in Generations : IF h = g THEN s.replies[h] >= turn[g].copy.replies[h]
                                         ELSE s.replies[h] = turn[g].copy.replies[h]
      /\ completed \subseteq completed' /\ UNCHANGED fenced
  BY DEF Saves, history
<1>4. /\ session'.rev >= session.rev /\ session'.rev \in Nat
      /\ \A h \in Generations : replies'[h] = IF s.replies[h] # 0 THEN s.replies[h] ELSE replies[h]
      /\ accepted' \subseteq accepted \cup s.accepted
  BY <1>3, SaveTables
\* Who is shown, and how much of it.
<1>5. /\ \A h \in Generations \ {g} : shown'[h] = shown[h]
      /\ \/ shown'[g] = shown[g]
         \/ /\ shown'[g] = s.replies[g] /\ s.replies[g] # 0
            /\ \A h \in Generations : h > g => turn[h].pc = "waiting"
  BY <1>3 DEF Shows, Newest, TypeInv
<1>6. /\ shown[g] <= turn[g].copy.replies[g]
      /\ \A h \in Generations : turn[g].copy.replies[h] # 0 => shown[h] <= turn[g].copy.replies[h]
      /\ \A h \in Generations : g < h => turn[g].copy.replies[h] = 0
  BY <1>3 DEF TurnInv, RepliesInv, CopiesHaveShown, CopiesAreOld
<1>7. /\ shown'[g] <= s.replies[g]
      /\ \A h \in Generations : s.replies[h] # 0 => shown'[h] <= s.replies[h]
      /\ \A h \in Generations : g < h => s.replies[h] = 0
  <2>1. shown'[g] <= s.replies[g]
    BY <1>0, <1>3, <1>5, <1>6
  <2>2. ASSUME NEW h \in Generations, h # g
        PROVE  /\ s.replies[h] # 0 => shown'[h] <= s.replies[h]
               /\ g < h => s.replies[h] = 0
    BY <1>3, <1>5, <1>6, <2>2
  <2> QED
    BY <1>0, <2>1, <2>2
<1>8. AcceptedIsCompleted'
  <2>1. row.copy.accepted \subseteq completed
    BY <1>1, <1>3 DEF TurnInv, AcceptedIsCompleted, Blank
  <2> QED
    BY <1>2, <1>3, <1>4, <2>1 DEF TurnInv, AcceptedIsCompleted
<1>9. ClaimedInOrder'
  BY <1>1, <1>2, <1>3 DEF TurnInv, RepliesInv, ClaimedInOrder, Active
<1>10. NoReplyBefore'
  <2> SUFFICES ASSUME NEW h \in Generations, turn'[h].pc = "waiting" PROVE replies'[h] = 0
    BY DEF NoReplyBefore
  <2>1. h # g /\ turn[h].pc = "waiting" /\ turn[g].pc # "waiting"
    BY <1>1, <1>2, <1>3 DEF Active
  <2>2. g < h
    BY <1>0, <2>1 DEF TurnInv, RepliesInv, ClaimedInOrder
  <2> QED
    BY <1>4, <1>7, <2>1, <2>2 DEF TurnInv, RepliesInv, NoReplyBefore
<1>11. ShownIsStored'
  <2> SUFFICES ASSUME NEW h \in Generations PROVE shown'[h] <= replies'[h]
    BY DEF ShownIsStored
  <2>1. CASE s.replies[h] # 0
    BY <1>4, <1>7, <2>1
  <2>2. CASE s.replies[h] = 0
    <3>1. replies'[h] = replies[h] /\ shown[h] <= replies[h]
      BY <1>4, <2>2 DEF TurnInv, RepliesInv, ShownIsStored
    <3> QED
      BY <1>5, <2>2, <3>1
  <2> QED
    BY <2>1, <2>2
<1>12. CopiesAreOld'
  BY <1>1, <1>2, <1>7 DEF TurnInv, RepliesInv, CopiesAreOld, Active
<1>13. CopiesHaveShown'
  <2> SUFFICES ASSUME NEW k \in Generations, Active(k)'
               PROVE  /\ shown'[k] <= turn'[k].copy.replies[k]
                      /\ \A h \in Generations : turn'[k].copy.replies[h] # 0 =>
                                                  shown'[h] <= turn'[k].copy.replies[h]
    BY DEF CopiesHaveShown
  <2>1. CASE k = g
    BY <1>1, <1>2, <1>7, <2>1 DEF Active
  <2>2. CASE k # g
    <3>1. Active(k) /\ turn'[k] = turn[k]
      BY <1>2, <2>2 DEF Active
    <3>2. /\ shown[k] <= turn[k].copy.replies[k]
          /\ \A h \in Generations : turn[k].copy.replies[h] # 0 => shown[h] <= turn[k].copy.replies[h]
      BY <3>1 DEF TurnInv, RepliesInv, CopiesHaveShown
    <3>3. turn[k].copy.replies[g] # 0 => shown'[g] = shown[g]
      <4> SUFFICES ASSUME turn[k].copy.replies[g] # 0, \A h \in Generations : h > g => turn[h].pc = "waiting"
                   PROVE  FALSE
        BY <1>5
      <4>1. ~(k < g)
        BY <3>1 DEF TurnInv, RepliesInv, CopiesAreOld
      <4>2. k > g
        BY <1>0, <2>2, <4>1
      <4> QED
        BY <3>1, <4>2 DEF Active
    <3> QED
      BY <1>5, <2>2, <3>1, <3>2, <3>3
  <2> QED
    BY <2>1, <2>2
<1>14. FencedAreBehind'
  <2> SUFFICES ASSUME NEW h \in fenced
               PROVE  Revision[h] < session'.rev /\ turn'[h].pc \notin {"waiting", "loaded"}
    BY <1>3 DEF FencedAreBehind
  <2>1. /\ Revision[h] < session.rev /\ turn[h].pc \notin {"waiting", "loaded"} /\ h \in Generations
        /\ Revision[h] \in Nat /\ session.rev \in Nat
    BY PersonalDataAssumption DEF TurnInv, FencedAreBehind, TypeInv
  <2>2. turn'[h].pc \notin {"waiting", "loaded"}
    BY <1>1, <1>2, <2>1
  <2> QED
    BY <1>4, <2>1, <2>2
<1> QED
  BY <1>8, <1>9, <1>10, <1>11, <1>12, <1>13, <1>14 DEF TurnInv, RepliesInv

LEMMA PurgeReplies ==
  ASSUME TypeInv, TurnInv, NEW lo, NEW hi, PurgeWindow(lo, hi)
  PROVE  TurnInv'
<1>0. /\ session.rev \in Nat
      /\ \A g \in Generations : /\ Revision[g] \in Nat /\ turn[g].copy.replies \in [Generations -> Nat]
                                /\ shown[g] \in Nat /\ replies[g] \in Nat
  BY PersonalDataAssumption, TurnType DEF TypeInv
<1>1. /\ session'.rev = session.rev + 1
      /\ accepted' \subseteq accepted
      /\ \A h \in Generations : \/ replies'[h] = 0 /\ shown'[h] = 0
                                \/ replies'[h] = replies[h] /\ shown'[h] = shown[h]
      /\ fenced' = fenced \cup {g \in Running : turn[g].pc # "loaded" /\ Revision[g] <= session.rev}
      /\ UNCHANGED <<turn, completed>>
  BY PurgedTables
<1>2. AcceptedIsCompleted' /\ ClaimedInOrder' /\ CopiesAreOld'
  BY <1>1 DEF TurnInv, RepliesInv, AcceptedIsCompleted, ClaimedInOrder, CopiesAreOld, Active
<1>3. NoReplyBefore' /\ ShownIsStored'
  BY <1>0, <1>1 DEF TurnInv, RepliesInv, NoReplyBefore, ShownIsStored
<1>4. CopiesHaveShown'
  <2>1. \A h \in Generations, n \in Nat : shown[h] <= n => shown'[h] <= n
    BY <1>0, <1>1
  <2> QED
    BY <1>0, <1>1, <2>1 DEF TurnInv, RepliesInv, CopiesHaveShown, Active
<1>5. FencedAreBehind'
  <2> SUFFICES ASSUME NEW h \in fenced'
               PROVE  Revision[h] < session'.rev /\ turn[h].pc \notin {"waiting", "loaded"}
    BY <1>1 DEF FencedAreBehind
  <2>1. CASE h \in fenced
    <3>1. h \in Generations
      BY <2>1 DEF TypeInv
    <3> QED
      BY <1>0, <1>1, <2>1, <3>1 DEF TurnInv, FencedAreBehind
  <2>2. CASE h \in Running /\ turn[h].pc # "loaded" /\ Revision[h] <= session.rev
    BY <1>0, <1>1, <2>2 DEF Running
  <2> QED
    BY <1>1, <2>1, <2>2
<1> QED
  BY <1>2, <1>3, <1>4, <1>5 DEF TurnInv, RepliesInv

LEMMA DeleteReplies ==
  ASSUME TypeInv, TurnInv, DeleteOwner
  PROVE  TurnInv'
<1>1. /\ accepted' = {} /\ fenced' = {} /\ UNCHANGED <<turn, completed>>
      /\ \A h \in Generations : replies'[h] = 0 /\ shown'[h] = 0
  BY DEF DeleteOwner, Blank
<1>2. AcceptedIsCompleted' /\ ClaimedInOrder' /\ CopiesAreOld' /\ FencedAreBehind'
  BY <1>1 DEF TurnInv, RepliesInv, AcceptedIsCompleted, ClaimedInOrder, CopiesAreOld, Active,
              FencedAreBehind
<1>3. NoReplyBefore' /\ ShownIsStored'
  BY <1>1 DEF NoReplyBefore, ShownIsStored
<1>4. CopiesHaveShown'
  <2>1. \A g, h \in Generations : turn[g].copy.replies[h] \in Nat
    BY TurnType
  <2> QED
    BY <1>1, <2>1 DEF CopiesHaveShown
<1> QED
  BY <1>2, <1>3, <1>4 DEF TurnInv, RepliesInv

LEMMA TurnInvStep ==
  ASSUME TypeInv, TurnInv, Next
  PROVE  TurnInv'
<1>1. ASSUME NEW g \in Generations, TurnStep(g) PROVE TurnInv'
  <2>1. CASE Load(g)
    BY <2>1, LoadReplies
  <2>2. CASE Refuses(g)
    <3>1. UNCHANGED <<session, replies, accepted, completed, shown, fenced>>
      BY <2>2 DEF Refuses, tables, history
    <3> DEFINE row == [pc |-> "over", grev |-> 0, copy |-> Blank]
    <3>2. row \in Turn /\ row.pc = "over" /\ row.copy = Blank /\ turn' = [turn EXCEPT ![g] = row]
      BY <2>2, OverIsTurn DEF Refuses
    <3> HIDE DEF row
    <3> QED
      BY <2>2, <3>1, <3>2, MoveReplies DEF Refuses
  <2>3. CASE Moves(g)
    <3>1. Active(g) /\ UNCHANGED <<session, replies, accepted, completed, shown, fenced>>
      BY <2>3 DEF Moves, tables, history, Active
    <3> QED
      BY <2>3, <3>1, MoveReplies DEF Moves
  <2>4. CASE \E s \in Copy : Saves(g, s)
    BY <2>4, SaveReplies
  <2> QED
    BY <1>1, <2>1, <2>2, <2>3, <2>4, TurnKinds
<1>2. ASSUME NEW g \in Generations, UserStep(g) PROVE TurnInv'
  <2>1. UNCHANGED <<session, replies, accepted, turn, completed, shown, fenced>>
    BY <1>2 DEF UserStep, StageMemory, ExtractMemory, Stage, DisableByUser, RequestDelete,
                ConfirmDelete, tables, history
  <2> QED
    BY <2>1, QuietTurns
<1>3. ASSUME NEW lo, NEW hi, PurgeWindow(lo, hi) PROVE TurnInv'
  BY <1>3, PurgeReplies
<1>4. CASE DeleteOwner
  BY <1>4, DeleteReplies
<1>5. ASSUME \/ \E ids \in pending : DropPending(ids)
             \/ \E capture \in BOOLEAN : ChangeSetting(capture)
             \/ \E g \in Generations : PruneProvisional(g)
      PROVE  TurnInv'
  <2>1. UNCHANGED <<session, replies, accepted, turn, completed, shown, fenced>>
    BY <1>5 DEF DropPending, ChangeSetting, PruneProvisional, tables, history
  <2> QED
    BY <2>1, QuietTurns
<1> QED
  BY <1>1, <1>2, <1>3, <1>4, <1>5 DEF Next, Maintenance

-----------------------------------------------------------------------------
(* The theorems *)

PersonalInv == TypeInv /\ MemoryInv /\ TurnInv

LEMMA PersonalInvInit == Init => PersonalInv
<1> SUFFICES ASSUME Init PROVE PersonalInv
  OBVIOUS
<1>1. /\ session = [gen |-> None, rev |-> 0] /\ inbound = {} /\ accepted = {}
      /\ replies = Blank.replies /\ shown = Blank.replies
      /\ memories = [m \in Mem |-> None]
      /\ governance = [capture |-> TRUE, rev |-> 0] /\ pending = {}
      /\ turn = [g \in Generations |-> [pc |-> "waiting", grev |-> 0, copy |-> Blank]]
      /\ completed = {} /\ fenced = {} /\ barrier = [c \in Contents |-> 0]
  BY DEF Init
<1>2. [pc |-> "waiting", grev |-> 0, copy |-> Blank] \in Turn
  BY BlankType, PersonalDataAssumption DEF Turn, Places
<1>3. TypeInv
  <2>1. /\ session \in [gen : Generations \cup {None, Fence}, rev : Nat]
        /\ governance \in [capture : BOOLEAN, rev : 0 .. MaxGovernance]
        /\ barrier \in [Contents -> 0 .. MaxGovernance]
    BY <1>1, PersonalDataAssumption
  <2>2. replies \in [Generations -> Nat] /\ shown \in [Generations -> Nat]
    BY <1>1, BlankType
  <2>3. turn \in [Generations -> Turn]
    BY <1>1, <1>2
  <2>4. memories \in Memories
    BY <1>1 DEF Memories
  <2> QED
    BY <1>1, <2>1, <2>2, <2>3, <2>4 DEF TypeInv
<1>4. MemoryInv
  BY <1>1 DEF MemoryInv, FromCompleted, LinksAreFound, DisabledIsOutOfReach, StagedBefore, Has, Exists
<1>5. \A g \in Generations : /\ turn[g].pc = "waiting" /\ turn[g].copy.accepted = {}
                             /\ replies[g] = 0 /\ shown[g] = 0
  BY <1>1 DEF Blank
<1>6. TurnInv
  BY <1>1, <1>5 DEF TurnInv, AcceptedIsCompleted, RepliesInv, ClaimedInOrder, CopiesAreOld,
                    CopiesHaveShown, NoReplyBefore, ShownIsStored, FencedAreBehind, Active
<1> QED
  BY <1>3, <1>4, <1>6 DEF PersonalInv

LEMMA PersonalInvStep == PersonalInv /\ [Next]_vars => PersonalInv'
<1> SUFFICES ASSUME PersonalInv, [Next]_vars PROVE PersonalInv'
  OBVIOUS
<1>1. CASE Next
  <2>1. TypeInv /\ MemoryInv /\ TurnInv /\ AcceptedIsCompleted
    BY DEF PersonalInv, TurnInv
  <2>2. TypeInv' /\ MemoryInv'
    BY <1>1, <2>1, NextIsRight DEF Rightly
  <2>3. TurnInv'
    BY <1>1, <2>1, TurnInvStep
  <2> QED
    BY <2>2, <2>3 DEF PersonalInv
<1>2. CASE UNCHANGED vars
  <2>1. TypeInv'
    BY <1>2 DEF PersonalInv, TypeInv, vars, tables, history
  <2>2. TurnInv'
    BY <1>2, QuietTurns DEF PersonalInv, vars, tables, history
  <2>3. MemoryInv'
    BY <1>2 DEF PersonalInv, MemoryInv, FromCompleted, LinksAreFound, DisabledIsOutOfReach,
                StagedBefore, Has, Exists, InForce, vars, tables, history
  <2> QED
    BY <2>1, <2>2, <2>3 DEF PersonalInv
<1> QED
  BY <1>1, <1>2

\* What searches and prompts show of the owner's memories was staged by a generation
\* that the host has completed.
THEOREM FoundIsCompleted == Spec => []NothingFromUnfinished
<1>1. PersonalInv => NothingFromUnfinished
  BY DEF PersonalInv, MemoryInv, FromCompleted, NothingFromUnfinished, Retained, Has
<1>2. QED
  BY <1>1, PersonalInvInit, PersonalInvStep, PTL DEF Spec

\* What the user has seen is in the database, whichever turns save after it.
THEOREM SeenIsStored == Spec => []ShownIsStored
<1>1. PersonalInv => ShownIsStored
  BY DEF PersonalInv, TurnInv, RepliesInv
<1>2. QED
  BY <1>1, PersonalInvInit, PersonalInvStep, PTL DEF Spec

\* What the user has disabled, or withdrawn while it waited, does not come up again.
THEOREM WithdrawnIsGone == Spec => WithdrawnStaysWithdrawn
<1> DEFINE Step == \A m \in Mem :
             Exists(m) /\ ~Retained(m) /\ Retained(m)' =>
               /\ memories[m].status # "disabled_by_user"
               /\ memories[m].status = "provisional" =>
                    memories[m].grev >= barrier[memories[m].content]
<1>1. PersonalInv /\ [Next]_vars => [Step]_vars
  <2> SUFFICES ASSUME PersonalInv, Next PROVE Step
    OBVIOUS
  <2>1. \A m \in Mem : ComesUpRightly(m)
    BY NextIsRight DEF PersonalInv, TurnInv, Rightly
  <2> QED
    BY <2>1 DEF ComesUpRightly
<1>2. QED
  BY <1>1, PersonalInvInit, PersonalInvStep, PTL DEF Spec, WithdrawnStaysWithdrawn

\* The step of FencedTurnsAreSilent.
Silent(g) ==
  /\ turn'[g].pc \in {turn[g].pc, "open", "finished", "over"}
  /\ turn'[g].copy \in {turn[g].copy, Blank}
  /\ g \notin completed => g \notin completed'
  /\ \A m \in Mem : memories[m] = None /\ memories'[m] # None => memories'[m].gen # g

LEMMA FencedStep ==
  ASSUME PersonalInv, Next, NEW g \in fenced
  PROVE  Silent(g)
<1>1. /\ g \in Generations /\ Revision[g] < session.rev /\ turn[g].pc \notin {"waiting", "loaded"}
      /\ Revision[g] \in Nat /\ session.rev \in Nat /\ TypeInv
  BY PersonalDataAssumption DEF PersonalInv, TurnInv, FencedAreBehind, TypeInv
<1>2. ~Fresh(g) /\ ~Current(g)
  BY <1>1 DEF Fresh, Current
<1>3. \A m \in Mem : memories[m] = None /\ memories'[m] # None => memories'[m].gen # g
  <2>1. OnlyCurrentStages
    BY NextIsRight DEF PersonalInv, TurnInv, Rightly
  <2> QED
    BY <1>2, <2>1 DEF OnlyCurrentStages
<1>4. /\ turn'[g].pc \in {turn[g].pc, "open", "finished", "over"}
      /\ turn'[g].copy \in {turn[g].copy, Blank}
      /\ g \notin completed => g \notin completed'
  <2>1. CASE UNCHANGED <<turn, completed>>
    BY <2>1
  <2>2. ASSUME NEW h \in Generations, TurnStep(h)
        PROVE  /\ turn'[g].pc \in {turn[g].pc, "open", "finished", "over"}
               /\ turn'[g].copy \in {turn[g].copy, Blank}
               /\ g \notin completed => g \notin completed'
    <3>1. CASE Load(h)
      <4>1. h # g /\ turn'[g] = turn[g] /\ UNCHANGED completed
        BY <1>1, <3>1 DEF Load, TypeInv
      <4> QED
        BY <4>1
    <3>2. CASE Refuses(h)
      <4>1. turn'[g] = IF g = h THEN [pc |-> "over", grev |-> 0, copy |-> Blank] ELSE turn[g]
        BY <1>1, <3>2 DEF Refuses, TypeInv
      <4>2. UNCHANGED completed
        BY <3>2 DEF Refuses
      <4> QED
        BY <4>1, <4>2
    <3>3. CASE Moves(h)
      <4>1. PICK row \in Turn : /\ turn' = [turn EXCEPT ![h] = row] /\ row.copy = turn[h].copy
                                /\ row.pc \in {"open", "finished"}
        BY <3>3 DEF Moves
      <4>2. turn'[g] = IF g = h THEN row ELSE turn[g]
        BY <1>1, <4>1 DEF TypeInv
      <4>3. UNCHANGED completed
        BY <3>3 DEF Moves
      <4> QED
        BY <4>1, <4>2, <4>3
    <3>4. CASE \E s \in Copy : Saves(h, s)
      <4>1. h # g
        BY <1>2, <3>4 DEF Saves
      <4>2. turn'[g] = turn[g] /\ completed' \subseteq completed \cup {h}
        BY <1>1, <3>4, <4>1 DEF Saves, TypeInv
      <4> QED
        BY <4>1, <4>2
    <3> QED
      BY <1>1, <2>2, <3>1, <3>2, <3>3, <3>4, TurnKinds
  <2>3. ASSUME NEW h \in Generations, UserStep(h) PROVE UNCHANGED <<turn, completed>>
    BY <2>3 DEF UserStep, StageMemory, ExtractMemory, Stage, DisableByUser, RequestDelete,
                ConfirmDelete
  <2>4. CASE Maintenance
    <3>1. UNCHANGED <<turn, completed>>
      BY <2>4, PurgedTables, <1>1 DEF Maintenance, DropPending, ChangeSetting, PruneProvisional,
                                      DeleteOwner
    <3> QED
      BY <2>1, <3>1
  <2> QED
    BY <2>1, <2>2, <2>3, <2>4 DEF Next
<1> QED
  BY <1>3, <1>4 DEF Silent

\* A turn whose session was purged while it was under way saves, completes and
\* stages nothing any more.
THEOREM PurgeSilences == Spec => FencedTurnsAreSilent
<1> DEFINE Step == \A g \in fenced \cap fenced' :
             /\ turn'[g].pc \in {turn[g].pc, "open", "finished", "over"}
             /\ turn'[g].copy \in {turn[g].copy, Blank}
             /\ g \notin completed => g \notin completed'
             /\ \A m \in Mem : memories[m] = None /\ memories'[m] # None => memories'[m].gen # g
<1>1. PersonalInv /\ [Next]_vars => [Step]_vars
  <2> SUFFICES ASSUME PersonalInv, Next PROVE Step
    OBVIOUS
  <2> QED
    BY FencedStep DEF Silent
<1>2. QED
  BY <1>1, PersonalInvInit, PersonalInvStep, PTL DEF Spec, FencedTurnsAreSilent

=============================================================================
