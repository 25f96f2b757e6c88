---------------------------- MODULE PersonalData ----------------------------
(* The personal data of one owner (sqlite_personal_data.py): one conversation *)
(* session, its messages, and the memories drawn from it, as the turns of a   *)
(* sandbox (runtime.py) read and write them.                                  *)
(*                                                                            *)
(* A turn loads the session once, works on its copy for as long as the model  *)
(* takes, and saves the whole copy again and again. Turns may overlap: the    *)
(* host supersedes a generation without waiting for its process. What keeps   *)
(* them apart is the session's fence (current_generation_id and               *)
(* current_revision) and the owner's governance revision. A memory is staged  *)
(* as provisional by the generation that wants it, and settled when a later   *)
(* turn brings the news that the host completed that generation.              *)
EXTENDS Naturals, FiniteSets

CONSTANTS
  Generations,     \* the host's generations, 1..n in the order it claims them
  Revision,        \* the revision each one is dispatched with
  BurstOf,         \* the burst each one answers
  MaxOverlap,      \* bound: processes at once, one of them not yet killed
  MaxBubbles,      \* bound: the frames of one generation
  Mem,             \* bound: the memories ever staged, 1..n
  Controls,        \* what a model may ask to remember: [action, content, cites]
  MaxGovernance,   \* bound: changes to what the owner allows
  MaxPending,      \* bound: deletions that wait for a confirmation
  MaxPurges,       \* bound: purges of a window, and deletions of the owner
  Windows,         \* bound: the windows purged, as the first and the last burst
  None, Gone, Fence

Bursts == {BurstOf[g] : g \in Generations}
Contents == {c.content : c \in Controls}
Actions == {"add", "upsert", "archive", "disable_by_agent", "remove"}
Statuses == {"provisional", "retained", "disabled_by_agent", "disabled_by_user", "superseded"}

\* A memory's row.
MemoryRow == [content : Contents, action : Actions, status : Statuses, gen : Generations,
              grev : 0 .. MaxGovernance, sup : Mem \cup {None}, cites : Bursts]

ASSUME PersonalDataAssumption ==
  /\ Generations \subseteq Nat \ {0} /\ Mem \subseteq Nat \ {0}
  /\ Revision \in [Generations -> Nat \ {0}]
  /\ \A g, h \in Generations : g < h => Revision[g] <= Revision[h]
  /\ {None, Gone, Fence} \cap (Generations \cup Mem) = {} /\ Cardinality({None, Gone, Fence}) = 3
  /\ Controls \subseteq [action : Actions, content : Contents, cites : Bursts]
  /\ MaxGovernance \in Nat /\ {None, Gone} \cap MemoryRow = {}

VARIABLES
  session,     \* the session's fence: [gen, rev], rev = 0 for a null revision
  inbound,     \* bursts whose user messages are stored
  replies,     \* bubbles in each generation's assistant row, 0 without a row
  accepted,    \* accepted_generations of the session
  memories,    \* each memory's row; None before it exists, Gone after
  governance,  \* the owner's settings: [capture, rev]
  pending,     \* targets of the deletions that wait for a confirmation
  turn,        \* each generation's process: [pc, grev, copy]
  completed,   \* generations that the host has completed
  shown,       \* bubbles of each generation that the user has seen
  barrier,     \* per content, the governance revision of the last withdrawal
  fenced,      \* turns under way when a purge took the session that they had saved into
  purges       \* purges so far

tables == <<session, inbound, replies, accepted, memories>>
history == <<barrier, fenced, purges>>
vars == <<tables, governance, pending, turn, completed, shown, history>>

-----------------------------------------------------------------------------
(* Rows and helpers *)

Blank == [inbound |-> {}, replies |-> [g \in Generations |-> 0], accepted |-> {}]

Exists(m) == memories[m] \notin {None, Gone}
Has(m, status) == Exists(m) /\ memories[m].status = status

\* The statuses 'active' and 'archived', one here: both can be found.
Retained(m) == Has(m, "retained")

\* Memories a model can name: those that searches and the prompt show or showed.
Known == {m \in Mem : /\ Exists(m) /\ memories[m].status # "provisional"
                      /\ memories[m].action \in {"add", "upsert"}}

\* The generation whose turn the session is at.
Current(g) == session.gen = g /\ session.rev = Revision[g]

Running == {g \in Generations : turn[g].pc \notin {"waiting", "over"}}

\* The newest generation the host has dispatched.
Newest(g) == turn[g].pc # "waiting" /\ \A h \in Generations : h > g => turn[h].pc = "waiting"

Erase(ids) == [m \in Mem |->
  IF ~Exists(m) THEN memories[m]
  ELSE IF m \in ids THEN Gone
  ELSE [memories[m] EXCEPT !.sup = IF @ \in ids THEN None ELSE @]]

-----------------------------------------------------------------------------
(* save_session *)

\* Mutant: the save is taken whatever the session's fence says.
FreshAlways(g) == turn[g].pc # "waiting"

\* The fence: an older revision, or another generation of the same, is refused.
Fresh(g) == ~ \/ Revision[g] < session.rev
              \/ Revision[g] = session.rev /\ session.gen # g

\* Mutant: settled without a look at the governance revision.
AlwaysInForce(m) == Exists(m)

\* What the owner allows is as it was when the memory was staged.
InForce(m) == memories[m].grev = governance.rev

\* What a control makes of the memory that it names.
Effect(action) == CASE action = "archive" -> "retained"
                    [] action = "disable_by_agent" -> "disabled_by_agent"
                    [] OTHER -> "superseded"

\* The status of memory m once the provisional ones in ids are settled, one after
\* the other: its own, or what the last of those that name it makes of it. One that
\* the user has disabled gives way to a removal only.
Settled(ids, m) ==
  LET by == {memories[n].action : n \in {n \in ids : InForce(n) /\ memories[n].sup = m}} \ {"add"}
  IN  IF m \in ids
      THEN {IF InForce(m) /\ memories[m].action \in {"add", "upsert"} THEN "retained" ELSE "superseded"}
      ELSE IF by = {} \/ (memories[m].status = "disabled_by_user" /\ "remove" \notin by)
           THEN {memories[m].status} ELSE {Effect(action) : action \in by}

\* Mutant: whatever is provisional in the session comes up.
AwaitingAnyone(gens) == {m \in Mem : Has(m, "provisional") /\ gens # {}}

\* The memories that wait for these generations.
Awaiting(gens) == {m \in Mem : Has(m, "provisional") /\ memories[m].gen \in gens}

Save(g, s) ==
  /\ session' = IF Revision[g] > session.rev THEN [gen |-> g, rev |-> Revision[g]] ELSE session
  /\ inbound' = inbound \cup s.inbound
  /\ replies' = [h \in Generations |-> IF s.replies[h] # 0 THEN s.replies[h] ELSE replies[h]]
  /\ accepted' = accepted \cup {h \in s.accepted : replies'[h] # 0}
  /\ LET ids == Awaiting(accepted' \ accepted)
         after(m) == IF Exists(m) THEN {[memories[m] EXCEPT !.status = status] : status \in Settled(ids, m)}
                     ELSE {memories[m]}
     IN  memories' \in {rows \in [Mem -> UNION {after(m) : m \in Mem}] : \A m \in Mem : rows[m] \in after(m)}

Refused(g) ==
  /\ turn' = [turn EXCEPT ![g] = [pc |-> "over", grev |-> 0, copy |-> Blank]]
  /\ UNCHANGED <<tables, shown, completed>>

-----------------------------------------------------------------------------
(* A turn: _handle_turn_iter *)

\* The host claims a generation with the list of those completed; the process
\* loads the session and adds what it was given.
Load(g) ==
  /\ Cardinality(Running) < MaxOverlap
  /\ turn[g].pc = "waiting" /\ \A h \in Generations : h < g => turn[h].pc # "waiting"
  /\ turn' = [turn EXCEPT ![g] = [pc |-> "loaded", grev |-> 0,
       copy |-> [inbound |-> inbound \cup {BurstOf[g]}, replies |-> replies,
                 accepted |-> accepted \cup completed]]]
  /\ UNCHANGED <<tables, governance, pending, completed, shown, history>>

SaveInbound(g) ==
  /\ turn[g].pc = "loaded"
  /\ \/ /\ Fresh(g) /\ Save(g, turn[g].copy)
        /\ turn' = [turn EXCEPT ![g].pc = "saved"] /\ UNCHANGED <<shown, completed>>
     \/ ~Fresh(g) /\ Refused(g)
  /\ UNCHANGED <<governance, pending, history>>

\* What the turn saw in the pictures of its burst is saved with the messages.
Observe(g) ==
  /\ turn[g].pc = "saved"
  /\ \/ Fresh(g) /\ Save(g, turn[g].copy) /\ UNCHANGED <<turn, shown, completed>>
     \/ ~Fresh(g) /\ Refused(g)
  /\ UNCHANGED <<governance, pending, history>>

\* The governance revision is read once, after the saves.
ReadGovernance(g) ==
  /\ turn[g].pc = "saved"
  /\ turn' = [turn EXCEPT ![g].pc = "open", ![g].grev = governance.rev]
  /\ UNCHANGED <<tables, governance, pending, completed, shown, history>>

\* Mutant: the frame is released whether or not it could be saved.
PersistFrameLater(g) ==
  LET s == [turn[g].copy EXCEPT !.replies[g] = @ + 1]
  IN /\ turn[g].pc = "open" /\ turn[g].copy.replies[g] < MaxBubbles
     /\ shown' = IF Newest(g) THEN [shown EXCEPT ![g] = s.replies[g]] ELSE shown
     /\ turn' = [turn EXCEPT ![g].copy = s]
     /\ IF Fresh(g) THEN Save(g, s) ELSE UNCHANGED tables
     /\ UNCHANGED <<completed, governance, pending, history>>

\* _persist_provisional_frame: the row is saved, then the frame is released. The
\* host shows it, unless it has moved on or the process dies before.
PersistFrame(g) ==
  LET s == [turn[g].copy EXCEPT !.replies[g] = @ + 1]
  IN /\ turn[g].pc = "open" /\ turn[g].copy.replies[g] < MaxBubbles
     /\ \/ /\ Fresh(g) /\ Save(g, s) /\ UNCHANGED completed
           /\ turn' = [turn EXCEPT ![g].copy = s]
           /\ \/ Newest(g) /\ shown' = [shown EXCEPT ![g] = s.replies[g]]
              \/ UNCHANGED shown
        \/ ~Fresh(g) /\ Refused(g)
     /\ UNCHANGED <<governance, pending, history>>

\* The model has nothing more to say: _persist_completed_burst begins.
Finish(g) ==
  /\ turn[g].pc = "open" /\ turn[g].copy.replies[g] > 0
  /\ turn' = [turn EXCEPT ![g].pc = "finished"]
  /\ UNCHANGED <<tables, governance, pending, completed, shown, history>>

\* Its save, and the host's completion if it still waits for it.
Complete(g) ==
  /\ turn[g].pc = "finished"
  /\ \/ /\ Fresh(g) /\ Save(g, turn[g].copy) /\ UNCHANGED shown
        /\ turn' = [turn EXCEPT ![g] = [pc |-> "over", grev |-> 0, copy |-> Blank]]
        /\ \/ Newest(g) /\ completed' = completed \cup {g}
           \/ UNCHANGED completed
     \/ ~Fresh(g) /\ Refused(g)
  /\ UNCHANGED <<governance, pending, history>>

\* A failure, a kill or a cancellation that takes effect.
Stop(g) ==
  /\ g \in Running /\ Refused(g)
  /\ UNCHANGED <<governance, pending, history>>

-----------------------------------------------------------------------------
(* Memories: stage_memory_controls and apply_user_memory_control *)

\* Memories an upsert replaces when it names none: the latest of the topic,
\* here any of them.
Replaceable == {m \in Mem : Retained(m) \/ Has(m, "disabled_by_agent")}

\* What the control refers to; None when it refers to nothing.
Targets(c, named) ==
  LET same == IF c.action = "upsert" THEN Replaceable
              ELSE {m \in Replaceable : memories[m].content = c.content}
  IN IF named # None THEN {named}
     ELSE IF c.action = "add" \/ same = {} THEN {None} ELSE same

\* stage_memory_controls, for a generation that the session is at.
Stage(g, c, named) ==
  /\ c.cites \in turn[g].copy.inbound /\ governance.capture /\ Current(g)
  /\ ~\E m \in Mem : Has(m, "disabled_by_user") /\ memories[m].content = c.content
  /\ \E target \in Targets(c, named) :
       /\ target # None => ~Has(target, "disabled_by_user")
       /\ target = None => ~\E m \in Replaceable \cup Awaiting(Generations) :
                              memories[m].content = c.content
       /\ \E m \in Mem :
            /\ memories[m] = None /\ \A n \in Mem : n < m => memories[n] # None
            /\ memories' = [memories EXCEPT ![m] =
                 [content |-> c.content, action |-> c.action, status |-> "provisional",
                  gen |-> g, grev |-> governance.rev, sup |-> target, cites |-> c.cites]]
  /\ UNCHANGED <<session, inbound, replies, accepted, governance, pending, turn,
                 completed, shown, history>>

\* The model asks while it speaks: what the owner allows is as it was when the
\* turn read it.
StageMemory(g, c, named) ==
  turn[g].pc = "open" /\ governance.rev = turn[g].grev /\ Stage(g, c, named)

\* The extractor reads the finished answer, and the settings anew. What it infers
\* cites the generation; what it is sure of names the generation as a message,
\* and _safe_memory_control refuses that.
ExtractMemory(g, c) ==
  /\ turn[g].pc = "finished" /\ c.action = "upsert"
  /\ Stage(g, [c EXCEPT !.cites = BurstOf[g]], None)

Bump == governance.rev < MaxGovernance /\ governance' = [governance EXCEPT !.rev = @ + 1]

\* The contents the user has withdrawn, from now on.
Withdraw(ids) == barrier' = [c \in Contents |->
  IF \E m \in ids : Exists(m) /\ memories[m].content = c THEN governance'.rev ELSE barrier[c]]

\* A turn acts for the user only while the session is at it.
ActsForUser(g) == turn[g].pc = "open" /\ Current(g)

DisableByUser(g, ids) ==
  /\ ActsForUser(g) /\ ids # {} /\ Bump /\ Withdraw(ids)
  /\ memories' = [m \in Mem |-> IF m \in ids THEN [memories[m] EXCEPT !.status = "disabled_by_user"]
                                ELSE memories[m]]
  /\ UNCHANGED <<session, inbound, replies, accepted, pending, turn, completed, shown, fenced, purges>>

RequestDelete(g, ids) ==
  /\ ActsForUser(g) /\ ids # {} /\ Cardinality(pending) < MaxPending
  /\ pending' = pending \cup {ids}
  /\ UNCHANGED <<tables, governance, turn, completed, shown, history>>

\* confirm_delete: the targets, and whatever waits with the same content.
ConfirmDelete(g, ids) ==
  LET same == {m \in Mem : /\ Has(m, "provisional")
                           /\ \E n \in ids : Exists(n) /\ memories[n].content = memories[m].content}
  IN /\ ActsForUser(g) /\ Bump /\ Withdraw(ids)
     /\ memories' = Erase(ids \cup same) /\ pending' = pending \ {ids}
     /\ UNCHANGED <<session, inbound, replies, accepted, turn, completed, shown, fenced, purges>>

\* cancel_delete, a control that comes after the ten minutes, the pruning.
DropPending(ids) ==
  /\ pending' = pending \ {ids}
  /\ UNCHANGED <<tables, governance, turn, completed, shown, history>>

\* update_memory_setting, or the same by a turn. Every setting moves the revision.
ChangeSetting(capture) ==
  /\ governance.rev < MaxGovernance
  /\ governance' = [capture |-> capture, rev |-> governance.rev + 1]
  /\ UNCHANGED <<tables, pending, turn, completed, shown, history>>

\* prune_provisional_artifacts: provisional memories older than a cutoff.
PruneProvisional(g) ==
  /\ Awaiting({h \in Generations : h <= g}) # {}
  /\ memories' = Erase(Awaiting({h \in Generations : h <= g}))
  /\ UNCHANGED <<session, inbound, replies, accepted, governance, pending, turn,
                 completed, shown, history>>

-----------------------------------------------------------------------------
(* purge_owner_window and delete_owner *)

\* The messages of a burst are connected by burst_id and generation_id, so a
\* window takes whole bursts; memories go with the burst that made them or that
\* they cite. What a purged memory had superseded is restored.
PurgeWindow(lo, hi) ==
  LET bursts == {b \in Bursts : lo <= b /\ b <= hi /\ b \in inbound}
      gens == {h \in Generations : BurstOf[h] \in bursts}
      ids == {m \in Mem : Exists(m) /\ (memories[m].gen \in gens \/ memories[m].cites \in bursts)}
      left == Erase(ids)
      older == {memories[m].sup : m \in ids} \ (ids \cup {None})
      restored == {m \in older : /\ left[m].status # "disabled_by_user"
                                 /\ ~\E n \in Mem : left[n] \notin {None, Gone} /\ left[n].sup = m}
  IN /\ purges < MaxPurges /\ purges' = purges + 1
     /\ bursts # {} \/ ids # {}
     /\ session' = [gen |-> Fence, rev |-> session.rev + 1]
     /\ inbound' = inbound \ bursts
     /\ replies' = [h \in Generations |-> IF h \in gens THEN 0 ELSE replies[h]]
     /\ accepted' = accepted \ gens
     /\ memories' = [m \in Mem |-> IF m \in restored THEN [left[m] EXCEPT !.status = "retained"]
                                   ELSE left[m]]
     /\ pending' = {p \in pending : p \cap ids = {}}
     /\ shown' = [h \in Generations |-> IF h \in gens THEN 0 ELSE shown[h]]
     /\ fenced' = fenced \cup {g \in Running : turn[g].pc # "loaded" /\ Revision[g] <= session.rev}
     /\ UNCHANGED <<governance, turn, completed, barrier>>

DeleteOwner ==
  /\ purges < MaxPurges /\ purges' = purges + 1
  /\ session' = [gen |-> None, rev |-> 0] /\ inbound' = {} /\ accepted' = {}
  /\ replies' = Blank.replies /\ shown' = Blank.replies
  /\ memories' = [m \in Mem |-> IF Exists(m) THEN Gone ELSE memories[m]]
  /\ governance' = [capture |-> TRUE, rev |-> 0] /\ pending' = {}
  /\ barrier' = [c \in Contents |-> 0] /\ fenced' = {}
  /\ UNCHANGED <<turn, completed>>

-----------------------------------------------------------------------------
Init ==
  /\ session = [gen |-> None, rev |-> 0] /\ inbound = {} /\ accepted = {}
  /\ replies = Blank.replies /\ shown = Blank.replies
  /\ memories = [m \in Mem |-> None]
  /\ governance = [capture |-> TRUE, rev |-> 0] /\ pending = {}
  /\ turn = [g \in Generations |-> [pc |-> "waiting", grev |-> 0, copy |-> Blank]]
  /\ completed = {} /\ fenced = {} /\ purges = 0
  /\ barrier = [c \in Contents |-> 0]

TurnStep(g) ==
  \/ Load(g) \/ SaveInbound(g) \/ Observe(g) \/ ReadGovernance(g) \/ PersistFrame(g)
  \/ Finish(g) \/ Complete(g) \/ Stop(g)

UserStep(g) ==
  \/ \E c \in Controls, named \in Known \cup {None} : StageMemory(g, c, named)
  \/ \E c \in Controls : ExtractMemory(g, c)
  \/ \E ids \in SUBSET Known : DisableByUser(g, ids) \/ RequestDelete(g, ids)
  \/ \E ids \in pending : ConfirmDelete(g, ids)

Maintenance ==
  \/ \E ids \in pending : DropPending(ids)
  \/ \E capture \in BOOLEAN : ChangeSetting(capture)
  \/ \E g \in Generations : PruneProvisional(g)
  \/ \E w \in Windows : PurgeWindow(w[1], w[2])
  \/ DeleteOwner

Next == (\E g \in Generations : TurnStep(g) \/ UserStep(g)) \/ Maintenance

Spec == Init /\ [][Next]_vars

-----------------------------------------------------------------------------
(* Properties *)

\* Only what a completed answer said is ever found: a memory that searches and
\* prompts show was staged by a generation that the host has completed, however
\* turns overlap, stop, and bring their lists of completed generations.
NothingFromUnfinished == \A m \in Mem : Retained(m) => memories[m].gen \in completed

\* What the user has withdrawn stays so: a memory disabled by the user is never
\* found again, neither by a late control nor by a purge, and one that waited
\* while the user withdrew its content does not come up afterwards.
WithdrawnStaysWithdrawn == [][\A m \in Mem :
  Exists(m) /\ ~Retained(m) /\ Retained(m)' =>
    /\ memories[m].status # "disabled_by_user"
    /\ memories[m].status = "provisional" => memories[m].grev >= barrier[memories[m].content]]_vars

\* What the user has seen is stored: a frame is released only when its row is
\* durable, and no copy of the session that a slower turn holds writes over it.
ShownIsStored == \A g \in Generations : shown[g] <= replies[g]

\* A turn that was under way when a purge took its session has no further
\* effect on it: whatever it holds in its copy, it saves and stages nothing.
FencedTurnsAreSilent == [][\A g \in fenced \cap fenced' :
  /\ turn'[g].pc \in {turn[g].pc, "open", "finished", "over"}
  /\ turn'[g].copy \in {turn[g].copy, Blank}
  /\ g \notin completed => g \notin completed'
  /\ \A m \in Mem : memories[m] = None /\ memories'[m] # None => memories'[m].gen # g]_vars

=============================================================================
