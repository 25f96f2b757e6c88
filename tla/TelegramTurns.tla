--------------------------- MODULE TelegramTurns ---------------------------
(***************************************************************************)
(* The interactive turn pipeline of the shared Telegram gateway: the       *)
(* SQLite tables of TelegramOnboardingStore (onboarding_store.py), the     *)
(* poller and the workers of TelegramUpdateRouter (telegram_router.py),    *)
(* the turn loop of SharedTelegramGateway (shared_gateway.py) and the      *)
(* automation turns that the cron lane runs in the same chats.             *)
(*                                                                         *)
(* A store method runs inside one "begin immediate" transaction, so each   *)
(* of them is one step; the code between two store calls is a worker's pc. *)
(* Time is abstract: quiet_until either lies in the future ("waiting") or  *)
(* has passed.                                                             *)
(***************************************************************************)
EXTENDS Naturals, FiniteSets

CONSTANTS
  Chats,           \* private Telegram chats
  Tomos,           \* assistant instances a chat can be installed for
  NoTomo,          \* the chat has no installation
  Updates,         \* update ids of text messages, positive numbers
  ChatOf,          \* the chat an update came from
  Workers,         \* the router's worker threads
  Scheduler,       \* the cron lane's thread, which runs automation turns
  MaxAttempts,     \* TelegramUpdateRouter.max_attempts
  MaxFrames,       \* bound: bubbles a sandbox emits in one turn
  MaxGenerations,  \* bound: rows of telegram_generations
  MaxAutomations,  \* bound: automation turns among them
  MaxRestarts      \* bound: crashes of the gateway process

Procs  == Workers \cup {Scheduler}
Gens   == 1..MaxGenerations
Frames == 0..(MaxFrames - 1)

NoGen   == 0
NoBurst == 0

ASSUME ConstantsAssumption ==
  /\ Chats # {}
  /\ Updates \subseteq Nat \ {0}
  /\ ChatOf \in [Updates -> Chats]
  /\ NoTomo \notin Tomos
  /\ Scheduler \notin Workers
  /\ MaxAttempts \in Nat \ {0}
  /\ MaxFrames \in Nat
  /\ MaxGenerations \in Nat
  /\ MaxAutomations \in Nat
  /\ MaxRestarts \in Nat

VARIABLES
  installed,  \* telegram_installations: the tomo a chat is bound to
  inbox,      \* telegram_inbox, the rows of kind "message"
  turn,       \* telegram_chat_turns
  gens,       \* telegram_generations, telegram_generation_inputs
  made,       \* rows inserted into telegram_generations so far
  bubble,     \* telegram_delivery_events, by generation and sequence
  work,       \* what each thread is doing
  restarts,   \* crashes so far
  screen,     \* history: how often a bubble reached the user's phone
  late        \* history: bubbles that reached it after their generation lost the chat

store == <<inbox, turn, gens>>
vars  == <<installed, inbox, turn, gens, made, bubble, work, restarts, screen, late>>

-----------------------------------------------------------------------------
(* Rows *)

InboxRow  == [status : {"none", "pending", "completed", "control"},
              burst  : Updates \cup {NoBurst},
              tomo   : Tomos \cup {NoTomo}]

TurnRow   == [burst    : Updates \cup {NoBurst},
              revision : Nat,
              active   : Gens \cup {NoGen},
              waiting  : BOOLEAN]

\* An automation generation is its own burst, which no inbox row has: NoBurst.
GenRow    == [status   : {"none", "active", "superseded", "completed", "failed"},
              chat     : Chats,
              burst    : Updates \cup {NoBurst},
              revision : Nat,
              tomo     : Tomos \cup {NoTomo},
              inputs   : SUBSET Updates,
              visible  : SUBSET (Gens \X Frames)]

BubbleStatus == {"none", "reserved", "sent", "unknown", "suppressed"}

\* A thread: idle; holding a claim and queueing for the owner's lock; reading
\* the sandbox's events; the three stages of one bubble; or about to fail.
Pc == {"idle", "waiting", "turn", "reserved", "send", "accepted", "failing", "deferring"}

Work == [pc : Pc, gen : Gens \cup {NoGen}, next : Nat, floor : Nat]

Idle    == [pc |-> "idle", gen |-> NoGen, next |-> 0, floor |-> 0]
NoRow   == [status |-> "none", burst |-> NoBurst, tomo |-> NoTomo]
NoTurn  == [burst |-> NoBurst, revision |-> 0, active |-> NoGen, waiting |-> FALSE]
NoGenRow == [status |-> "none", chat |-> CHOOSE c \in Chats : TRUE, burst |-> NoBurst,
             revision |-> 0, tomo |-> NoTomo, inputs |-> {}, visible |-> {}]

-----------------------------------------------------------------------------
(* Queries *)

\* Mutant: the query forgets the status.
IsGenerationKnown(g) == gens[g].status # "none"

IsGenerationActive(g) == gens[g].status = "active"

Open(c) ==
  {m \in Updates : /\ ChatOf[m] = c
                   /\ inbox[m].status = "pending"
                   /\ inbox[m].burst = turn[c].burst}

Automations == {g \in Gens : gens[g].status # "none" /\ gens[g].burst = NoBurst}

OfBurst(b) == {g \in Gens : gens[g].status # "none" /\ b # NoBurst /\ gens[g].burst = b}

\* Mutant: only acknowledged bubbles become context.
VisibleTextSentOnly(b) ==
  {e \in Gens \X Frames : e[1] \in OfBurst(b) /\ bubble[e[1]][e[2]] = "sent"}

\* What a replacement generation is told the user has already seen.
VisibleText(b) ==
  {e \in Gens \X Frames : e[1] \in OfBurst(b) /\ bubble[e[1]][e[2]] \in {"sent", "unknown"}}

\* Every revision the chat ever used and still remembers.
Revisions(c) ==
  {turn[c].revision} \cup
  {gens[g].revision : g \in {h \in Gens : gens[h].status # "none" /\ gens[h].chat = c}}

\* Mutant: the burst's rows stay open.
CloseNothing(b) == inbox

\* The inbox once every row of a burst is completed.
Close(b) ==
  [m \in Updates |-> IF b # NoBurst /\ inbox[m].burst = b
                     THEN [inbox[m] EXCEPT !.status = "completed"] ELSE inbox[m]]

\* The generations once the one that holds chat c has lost it.
Supersede(c) ==
  [g \in Gens |-> IF g = turn[c].active /\ IsGenerationActive(g)
                  THEN [gens[g] EXCEPT !.status = "superseded"] ELSE gens[g]]

\* The revision of a retry: above the failed one and at least floor.
RetryRevision(r, floor) == IF r + 1 >= floor THEN r + 1 ELSE floor

\* Mutant: only a running turn keeps automation out, not waiting input.
NoActiveTurn(c) == turn[c].active = NoGen

\* Nobody is owed an answer in the chat and nothing runs in it.
ChatIsIdle(c) == turn[c].burst = NoBurst /\ turn[c].active = NoGen

\* Mutant: recovery leaves reservations alone.
KeepReservations(g) == bubble[g]

\* What recovery makes of an interrupted generation's bubbles: the send may
\* have happened.
Uncertain(g) ==
  [f \in Frames |-> IF IsGenerationActive(g) /\ bubble[g][f] = "reserved"
                    THEN "unknown" ELSE bubble[g][f]]

\* Mutant: recovery forgets the turn of the generation it superseded.
KeepTurn(c) == turn[c]

\* The turn of a chat once recovery has superseded its generation.
Recovered(c) ==
  IF turn[c].active \in Gens /\ IsGenerationActive(turn[c].active)
  THEN [turn[c] EXCEPT !.revision = @ + 1, !.active = NoGen, !.waiting = FALSE]
  ELSE turn[c]

\* SandboxDispatch serves one turn of an owner at a time.
HoldsOwnerLock(p) == work[p].pc \in {"turn", "reserved", "send", "accepted"}

OwnerLockFree(t) ==
  \A p \in Procs : HoldsOwnerLock(p) => gens[work[p].gen].tomo # t

-----------------------------------------------------------------------------
Init ==
  /\ installed = [c \in Chats |-> NoTomo]
  /\ inbox = [m \in Updates |-> NoRow]
  /\ turn = [c \in Chats |-> NoTurn]
  /\ gens = [g \in Gens |-> NoGenRow]
  /\ made = 0
  /\ bubble = [g \in Gens |-> [f \in Frames |-> "none"]]
  /\ work = [p \in Procs |-> Idle]
  /\ restarts = 0
  /\ screen = [g \in Gens |-> [f \in Frames |-> 0]]
  /\ late = [g \in Gens |-> 0]

\* /start with a valid link binds the chat, whatever it was bound to before.
ConsumeStartToken(c, t) ==
  /\ installed' = [installed EXCEPT ![c] = t]
  /\ UNCHANGED <<inbox, turn, gens, made, bubble, work, restarts, screen, late>>

-----------------------------------------------------------------------------
(* The poller *)

\* Telegram numbers updates in the order it hands them out.
NextFromTelegram(m) == \A n \in Updates : n < m => inbox[n].status # "none"

\* Telegram repeats an update whose offset was not acknowledged; the primary
\* key makes the second insert a no-op.
Redelivered(m) ==
  /\ inbox[m].status # "none"
  /\ UNCHANGED vars

\* Text from a chat without an installation goes to the control queue.
EnqueueControl(m) ==
  /\ NextFromTelegram(m)
  /\ inbox[m].status = "none"
  /\ installed[ChatOf[m]] = NoTomo
  /\ inbox' = [inbox EXCEPT ![m].status = "control"]
  /\ UNCHANGED <<installed, turn, gens, made, bubble, work, restarts, screen, late>>

\* A new message supersedes the generation that runs in its chat and restarts
\* the debounce window; it opens a burst when the chat has none.
EnqueueMessage(m) ==
  LET c == ChatOf[m]
      opens == turn[c].burst = NoBurst
      burst == IF opens THEN m ELSE turn[c].burst
  IN
  /\ NextFromTelegram(m)
  /\ inbox[m].status = "none"
  /\ installed[c] # NoTomo
  /\ gens' = Supersede(c)
  /\ \E top \in Revisions(c) :
        /\ \A r \in Revisions(c) : r <= top
        /\ turn' = [turn EXCEPT ![c] =
                      [burst |-> burst, active |-> NoGen, waiting |-> TRUE,
                       revision |-> 1 + (IF opens THEN top ELSE turn[c].revision)]]
  /\ inbox' = [inbox EXCEPT ![m] = [status |-> "pending", burst |-> burst, tomo |-> installed[c]]]
  /\ UNCHANGED <<installed, made, bubble, work, restarts, screen, late>>

\* The debounce window or the retry backoff of a chat ends.
QuietElapses(c) ==
  /\ turn[c].waiting
  /\ turn' = [turn EXCEPT ![c].waiting = FALSE]
  /\ UNCHANGED <<installed, inbox, gens, made, bubble, work, restarts, screen, late>>

-----------------------------------------------------------------------------
(* Claiming a chat *)

\* The row both kinds of claim insert: the next id, active, at revision r.
NewGeneration(c, b, r, t, inputs, visible) ==
  /\ made < MaxGenerations
  /\ made' = made + 1
  /\ gens' = [gens EXCEPT ![made + 1] =
                [status |-> "active", chat |-> c, burst |-> b, revision |-> r,
                 tomo |-> t, inputs |-> inputs, visible |-> visible]]

\* claim_next_work, and the gateway's check that the chat is still bound to
\* the tomo of the burst's last message: only the claim's own row is at stake
\* between the two, so they are one step.
ClaimNextWork(w, c) ==
  /\ work[w].pc = "idle"
  /\ turn[c].burst # NoBurst
  /\ turn[c].active = NoGen
  /\ ~turn[c].waiting
  /\ \E last \in Open(c) :
        /\ \A m \in Open(c) : m <= last
        /\ NewGeneration(c, turn[c].burst, turn[c].revision, inbox[last].tomo,
                         Open(c), VisibleText(turn[c].burst))
        /\ work' = [work EXCEPT ![w] = [Idle EXCEPT
                      !.gen = made + 1,
                      !.pc = IF installed[c] = inbox[last].tomo THEN "waiting" ELSE "failing"]]
  /\ turn' = [turn EXCEPT ![c].active = made + 1]
  /\ UNCHANGED <<installed, inbox, bubble, restarts, screen, late>>

\* reserve_automation_generation: a due cron run takes an idle chat.
ReserveAutomation(c) ==
  /\ work[Scheduler].pc = "idle"
  /\ installed[c] # NoTomo
  /\ ChatIsIdle(c)
  /\ Cardinality(Automations) < MaxAutomations
  /\ \E top \in Revisions(c) :
        /\ \A r \in Revisions(c) : r <= top
        /\ NewGeneration(c, NoBurst, top + 1, installed[c], {}, {})
        /\ turn' = [turn EXCEPT ![c] = [@ EXCEPT !.revision = top + 1, !.active = made + 1]]
  /\ work' = [work EXCEPT ![Scheduler] = [Idle EXCEPT !.gen = made + 1, !.pc = "waiting"]]
  /\ UNCHANGED <<installed, inbox, bubble, restarts, screen, late>>

-----------------------------------------------------------------------------
(* Running a turn *)

\* The owner's lock is taken; a generation superseded meanwhile never starts.
BeginTurn(p) ==
  /\ work[p].pc = "waiting"
  /\ OwnerLockFree(gens[work[p].gen].tomo)
  /\ work' = [work EXCEPT ![p] = IF IsGenerationActive(work[p].gen)
                                 THEN [work[p] EXCEPT !.pc = "turn"] ELSE Idle]
  /\ UNCHANGED <<installed, inbox, turn, gens, made, bubble, restarts, screen, late>>

\* A frame event arrives and its bubble is reserved.
ReserveDelivery(w) ==
  LET g == work[w].gen  f == work[w].next IN
  /\ work[w].pc = "turn"
  /\ f \in Frames
  /\ IsGenerationActive(g)
  /\ bubble[g][f] = "none"
  /\ bubble' = [bubble EXCEPT ![g][f] = "reserved"]
  /\ work' = [work EXCEPT ![w].pc = "reserved"]
  /\ UNCHANGED <<installed, inbox, turn, gens, made, restarts, screen, late>>

\* The checks between the reservation and the send.
RecheckDelivery(w) ==
  LET g == work[w].gen  f == work[w].next IN
  /\ work[w].pc = "reserved"
  /\ \/ /\ IsGenerationActive(g)
        /\ work' = [work EXCEPT ![w].pc = "send"]
        /\ UNCHANGED bubble
     \/ /\ ~IsGenerationActive(g)
        /\ bubble' = [bubble EXCEPT ![g][f] = "suppressed"]
        /\ work' = [work EXCEPT ![w] = [@ EXCEPT !.pc = "turn", !.next = f + 1]]
  /\ UNCHANGED <<installed, inbox, turn, gens, made, restarts, screen, late>>

\* Telegram accepts the message: it is on the phone, and nothing is recorded yet.
TelegramAccepts(w) ==
  LET g == work[w].gen  f == work[w].next IN
  /\ work[w].pc = "send"
  /\ screen' = [screen EXCEPT ![g][f] = @ + 1]
  /\ late' = [late EXCEPT ![g] = IF gens[g].status = "active" THEN @ ELSE @ + 1]
  /\ work' = [work EXCEPT ![w].pc = "accepted"]
  /\ UNCHANGED <<installed, inbox, turn, gens, made, bubble, restarts>>

\* The bubble's row is settled and the worker waits for the next event.
RecordDelivery(w, status) ==
  LET g == work[w].gen  f == work[w].next IN
  /\ bubble' = [bubble EXCEPT ![g][f] = status]
  /\ work' = [work EXCEPT ![w] = [@ EXCEPT !.pc = "turn", !.next = f + 1]]
  /\ UNCHANGED <<installed, inbox, turn, gens, made, restarts, screen, late>>

MarkSent(w) == work[w].pc = "accepted" /\ RecordDelivery(w, "sent")

\* Mutant: a send without an acknowledgement is tried again.
SendRetries(w) ==
  /\ work[w].pc \in {"send", "accepted"}
  /\ work' = [work EXCEPT ![w].pc = "send"]
  /\ UNCHANGED <<installed, inbox, turn, gens, made, bubble, restarts, screen, late>>

\* send_message raises, whether or not Telegram took the message.
SendRaises(w) == work[w].pc \in {"send", "accepted"} /\ RecordDelivery(w, "unknown")

\* A stale event comes first in a stream and carries the sandbox's revision,
\* which is the turn's own or a later one.
StaleEvent(p, ahead) ==
  /\ work[p].pc = "turn"
  /\ work[p].next = 0
  /\ IsGenerationActive(work[p].gen)
  /\ work' = [work EXCEPT ![p] =
                [@ EXCEPT !.pc = IF p = Scheduler THEN "deferring" ELSE "failing",
                          !.floor = gens[work[p].gen].revision + ahead + 1]]
  /\ UNCHANGED <<installed, inbox, turn, gens, made, bubble, restarts, screen, late>>

\* The sandbox reports an error, dies or times out; the lock is released
\* before the router records the failure.
TurnFails(p) ==
  /\ work[p].pc = "turn"
  /\ work' = [work EXCEPT ![p].pc = "failing"]
  /\ UNCHANGED <<installed, inbox, turn, gens, made, bubble, restarts, screen, late>>

-----------------------------------------------------------------------------
(* Giving the chat back *)

\* complete_generation: every row of the burst is done and the chat is free.
\* A generation that is not active any more changes nothing.
CompleteGeneration(g) ==
  \/ /\ IsGenerationActive(g)
     /\ gens' = [gens EXCEPT ![g].status = "completed"]
     /\ inbox' = Close(gens[g].burst)
     /\ turn' = [c \in Chats |->
                   IF c = gens[g].chat /\ turn[c].active = g
                   THEN [turn[c] EXCEPT !.burst = NoBurst, !.active = NoGen] ELSE turn[c]]
  \/ ~IsGenerationActive(g) /\ UNCHANGED store

\* The turn loop ends: the sandbox completed, or dispatch stopped iterating
\* because the generation is no longer active.
EndTurn(p) ==
  /\ work[p].pc = "turn"
  /\ CompleteGeneration(work[p].gen)
  /\ work' = [work EXCEPT ![p] = Idle]
  /\ UNCHANGED <<installed, made, bubble, restarts, screen, late>>

\* fail_generation gives up when the burst has used its attempts (the router)
\* or at once (a failed automation turn); a deferred automation never does.
GivesUp(p) ==
  /\ work[p].pc = "failing"
  /\ p = Scheduler \/ Cardinality(OfBurst(gens[work[p].gen].burst)) >= MaxAttempts

\* fail_generation, terminal branch: the burst is closed unanswered.
GiveUp(p) ==
  LET g == work[p].gen IN
  /\ IsGenerationActive(g)
  /\ GivesUp(p)
  /\ gens' = [gens EXCEPT ![g].status = "failed"]
  /\ inbox' = Close(gens[g].burst)
  /\ turn' = [c \in Chats |->
                IF c = gens[g].chat /\ turn[c].active = g
                THEN [turn[c] EXCEPT !.burst = NoBurst, !.active = NoGen, !.waiting = FALSE]
                ELSE turn[c]]

\* fail_generation, retry branch: the chat is released at a higher revision,
\* after a backoff for the router, at once for a deferred automation.
RetryLater(p) ==
  LET g == work[p].gen IN
  /\ IsGenerationActive(g)
  /\ ~GivesUp(p)
  /\ gens' = [gens EXCEPT ![g].status = "failed"]
  /\ turn' = [c \in Chats |->
                IF c = gens[g].chat /\ turn[c].active = g
                THEN [turn[c] EXCEPT !.revision = RetryRevision(@, work[p].floor), !.active = NoGen,
                                     !.waiting = work[p].pc = "failing"]
                ELSE turn[c]]
  /\ UNCHANGED inbox

FailGeneration(p) ==
  /\ work[p].pc \in {"failing", "deferring"}
  /\ \/ GiveUp(p)
     \/ RetryLater(p)
     \/ ~IsGenerationActive(work[p].gen) /\ UNCHANGED store
  /\ work' = [work EXCEPT ![p] = Idle]
  /\ UNCHANGED <<installed, made, bubble, restarts, screen, late>>

-----------------------------------------------------------------------------
\* The process dies, wherever its threads are, and starts again:
\* recover_interrupted_generations runs before any worker does.
Restart ==
  /\ restarts < MaxRestarts
  /\ restarts' = restarts + 1
  /\ work' = [p \in Procs |-> Idle]
  /\ bubble' = [g \in Gens |-> Uncertain(g)]
  /\ gens' = [g \in Gens |-> IF IsGenerationActive(g)
                             THEN [gens[g] EXCEPT !.status = "superseded"] ELSE gens[g]]
  /\ turn' = [c \in Chats |-> Recovered(c)]
  /\ UNCHANGED <<installed, inbox, made, screen, late>>

-----------------------------------------------------------------------------
TurnStep(p) ==
  \/ BeginTurn(p)
  \/ \E ahead \in 0..1 : StaleEvent(p, ahead)
  \/ TurnFails(p)
  \/ EndTurn(p)
  \/ FailGeneration(p)

DeliveryStep(w) ==
  \/ ReserveDelivery(w)
  \/ RecheckDelivery(w)
  \/ TelegramAccepts(w)
  \/ MarkSent(w)
  \/ SendRaises(w)

Next ==
  \/ \E c \in Chats, t \in Tomos : ConsumeStartToken(c, t)
  \/ \E m \in Updates : Redelivered(m) \/ EnqueueControl(m) \/ EnqueueMessage(m)
  \/ \E c \in Chats : QuietElapses(c) \/ ReserveAutomation(c)
  \/ \E w \in Workers, c \in Chats : ClaimNextWork(w, c)
  \/ \E p \in Procs : TurnStep(p)
  \/ \E w \in Workers : DeliveryStep(w)
  \/ Restart

Spec == Init /\ [][Next]_vars

\* Workers loop for ever and take the chat whose quiet_until is the oldest, so
\* no chat is passed over; a sandbox command has a timeout, so a turn ends; an
\* HTTP call returns or raises. Nothing obliges messages, restarts, automation
\* or frames to come.
Fairness ==
  /\ \A c \in Chats : WF_vars(QuietElapses(c))
  /\ \A c \in Chats : WF_vars(\E w \in Workers : ClaimNextWork(w, c))
  /\ \A p \in Procs : /\ WF_vars(BeginTurn(p))
                       /\ WF_vars(EndTurn(p) \/ TurnFails(p))
                       /\ WF_vars(FailGeneration(p))
  /\ \A w \in Workers : /\ WF_vars(RecheckDelivery(w))
                         /\ WF_vars(TelegramAccepts(w) \/ MarkSent(w) \/ SendRaises(w))

FairSpec == Spec /\ Fairness

-----------------------------------------------------------------------------
(* Properties *)

\* Every table keeps rows of its type.
TypeOK ==
  /\ installed \in [Chats -> Tomos \cup {NoTomo}]
  /\ inbox \in [Updates -> InboxRow]
  /\ turn \in [Chats -> TurnRow]
  /\ gens \in [Gens -> GenRow]
  /\ made \in 0..MaxGenerations
  /\ bubble \in [Gens -> [Frames -> BubbleStatus]]
  /\ work \in [Procs -> Work]
  /\ restarts \in 0..MaxRestarts
  /\ screen \in [Gens -> [Frames -> Nat]]
  /\ late \in [Gens -> Nat]

\* The generations table and the turns table agree about who owns a chat: the
\* active generation of a chat is the one its turn names, at the turn's
\* revision and burst, so the fence on one row is a fence on the other.
TurnNamesActive ==
  /\ \A c \in Chats : turn[c].active # NoGen =>
        LET g == turn[c].active IN
        /\ gens[g].status = "active" /\ gens[g].chat = c
        /\ gens[g].burst = turn[c].burst /\ gens[g].revision = turn[c].revision
  /\ \A g \in Gens : IsGenerationActive(g) => turn[gens[g].chat].active = g

\* No accepted message is stranded: a pending row belongs to the burst its
\* chat will claim next, and a chat that has a burst has a row to claim it for
\* (a turn without rows would stop claim_next_work for every chat).
NoMessageStranded ==
  /\ \A m \in Updates : inbox[m].status = "pending" =>
        /\ inbox[m].burst # NoBurst
        /\ inbox[m].burst = turn[ChatOf[m]].burst
  /\ \A c \in Chats : turn[c].burst # NoBurst => Open(c) # {}

\* The generation that holds a chat was given every message that its finishing
\* will close: complete_generation closes rows by burst, not by input.
OwnerSawEverything ==
  \A c \in Chats : turn[c].active # NoGen => gens[turn[c].active].inputs = Open(c)

\* A later generation of a chat has a higher revision, whatever superseded,
\* failed or crashed in between: the sandbox session fences on it.
RevisionsGrow ==
  \A g, h \in Gens :
    (g < h /\ h <= made /\ gens[g].chat = gens[h].chat) => gens[g].revision < gens[h].revision

\* No bubble reaches the phone twice, across lost acknowledgements and restarts.
NoDuplicateBubble == \A g \in Gens, f \in Frames : screen[g][f] <= 1

\* Between a check and the send it guards a generation can lose its chat, but
\* then at most the one bubble in flight still appears.
OneLateBubble == \A g \in Gens : late[g] <= 1

\* When a generation loses its chat, to a message or to a crash, every bubble
\* of it that the user saw is on record, or its worker is about to record it.
\* So a record is lost only by a crash after the generation was superseded.
HandoverIsRecorded ==
  [][\A g \in Gens, f \in Frames :
       (IsGenerationActive(g) /\ gens'[g].status # "active" /\ screen[g][f] > 0) =>
         \/ bubble'[g][f] \in {"sent", "unknown"}
         \/ \E w \in Workers : work'[w].pc = "accepted" /\ work'[w].gen = g /\ work'[w].next = f]_vars

\* The bubbles of an earlier generation h of g's burst that g was not told of.
MissingContext(g, h) == {f \in Frames : screen[h][f] > 0 /\ <<h, f>> \notin gens[g].visible}

\* A replacement generation is told of what the user saw of each earlier
\* generation of its burst, all but the one bubble that may be in flight.
OneBubbleMissing ==
  \A g, h \in Gens :
    (IsGenerationActive(g) /\ h \in OfBurst(gens[g].burst) /\ h # g) =>
      Cardinality(MissingContext(g, h)) <= 1

\* Every accepted message is settled: whatever supersedes, fails or crashes,
\* some turn answers it or the router gives it up.
EveryMessageSettles ==
  \A m \in Updates : inbox[m].status = "pending" ~> inbox[m].status = "completed"

-----------------------------------------------------------------------------
(* The abstract specification, and the state of it that the tables hold *)

Ledger == INSTANCE TurnLedger WITH
  Turns    <- Gens,
  NoTurn   <- NoGen,
  accepted <- {m \in Updates : inbox[m].status \in {"pending", "completed"}},
  settled  <- {m \in Updates : inbox[m].status = "completed"},
  holder   <- [c \in Chats |-> turn[c].active],
  seen     <- [g \in Gens |-> gens[g].inputs],
  begun    <- 1..made

\* The tables implement the ledger: a message is settled only by the turn that
\* holds its chat and was started with it and with all the others waiting.
LedgerSpec == Ledger!Spec

=============================================================================
