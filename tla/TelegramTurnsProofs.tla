------------------------ MODULE TelegramTurnsProofs ------------------------
(***************************************************************************)
(* Theorems about the Telegram turn pipeline, for every set of chats,      *)
(* messages and workers and every bound: its types; that its three tables  *)
(* agree with each other and implement TurnLedger; and what the user sees  *)
(* of a turn: no bubble twice, at most one after the turn lost its chat,   *)
(* and at most one of it that the turn that replaces it is not told of.    *)
(*                                                                         *)
(* Every step changes the three tables in one of five ways: not at all,    *)
(* or as a message, a claim, a finished turn or a released chat does. The  *)
(* proofs about them first reduce each action to one of the five, then     *)
(* show that each of the five keeps the invariant and is a step of the     *)
(* ledger.                                                                 *)
(***************************************************************************)
EXTENDS TelegramTurns, FiniteSetTheorems, TLAPS

-----------------------------------------------------------------------------
(* Type correctness *)

LEMMA InitTypeOK == Init => TypeOK
BY ConstantsAssumption
DEF Init, TypeOK, InboxRow, TurnRow, GenRow, BubbleStatus, Work, Pc, Idle, NoRow, NoTurn,
    NoGenRow, NoGen, NoBurst, Gens, Frames

\* Inserting a generation row keeps the generations table typed.
LEMMA NewGenerationType ==
  ASSUME TypeOK, NEW c \in Chats, NEW b \in Updates \cup {NoBurst}, NEW r \in Nat,
         NEW t \in Tomos \cup {NoTomo}, NEW inputs \in SUBSET Updates,
         NEW visible \in SUBSET (Gens \X Frames),
         NewGeneration(c, b, r, t, inputs, visible)
  PROVE  made + 1 \in Gens /\ gens' \in [Gens -> GenRow] /\ made' \in 0..MaxGenerations
BY ConstantsAssumption DEF NewGeneration, TypeOK, GenRow, Gens

\* Every revision of a chat is a number.
LEMMA RevisionsType ==
  ASSUME TypeOK, NEW c \in Chats
  PROVE  Revisions(c) \subseteq Nat
BY DEF TypeOK, Revisions, TurnRow, GenRow

\* Closing a burst keeps the inbox typed.
LEMMA CloseType ==
  ASSUME TypeOK, NEW b
  PROVE  Close(b) \in [Updates -> InboxRow]
<1> DEFINE row(m) == IF b # NoBurst /\ inbox[m].burst = b
                     THEN [inbox[m] EXCEPT !.status = "completed"] ELSE inbox[m]
<1>1. \A m \in Updates : row(m) \in InboxRow
  BY DEF TypeOK, InboxRow
<1>2. QED
  BY <1>1 DEF Close

\* A generation keeps the type of its row when it changes its status.
LEMMA StatusType ==
  ASSUME NEW row \in GenRow, NEW s \in {"active", "superseded", "completed", "failed"}
  PROVE  [row EXCEPT !.status = s] \in GenRow
BY DEF GenRow

LEMMA StatusChangeType ==
  ASSUME TypeOK, NEW g, NEW s \in {"active", "superseded", "completed", "failed"},
         gens' = gens \/ gens' = [gens EXCEPT ![g].status = s]
  PROVE  gens' \in [Gens -> GenRow]
<1>1. \A h \in Gens : gens[h] \in GenRow /\ [gens[h] EXCEPT !.status = s] \in GenRow
  BY StatusType DEF TypeOK
<1>2. QED
  BY ZenonT(60), <1>1 DEF TypeOK

LEMMA SupersedeType ==
  ASSUME TypeOK, NEW c \in Chats
  PROVE  Supersede(c) \in [Gens -> GenRow]
<1>1. \A g \in Gens : gens[g] \in GenRow /\ [gens[g] EXCEPT !.status = "superseded"] \in GenRow
  BY StatusType DEF TypeOK
<1>2. QED
  BY <1>1 DEF Supersede

LEMMA EnqueueMessageType ==
  ASSUME TypeOK, NEW m \in Updates, EnqueueMessage(m)
  PROVE  TypeOK'
<1> USE ConstantsAssumption
<1> DEFINE c == ChatOf[m]
<1>1. c \in Chats /\ turn[c] \in TurnRow
  BY DEF TypeOK
<1>2. Revisions(c) \subseteq Nat
  BY <1>1, RevisionsType
<1>3. gens' \in [Gens -> GenRow]
  BY <1>1, SupersedeType DEF EnqueueMessage
<1>4. PICK top \in Revisions(c) :
        turn' = [turn EXCEPT ![c] =
                   [burst |-> IF turn[c].burst = NoBurst THEN m ELSE turn[c].burst,
                    active |-> NoGen, waiting |-> TRUE,
                    revision |-> 1 + (IF turn[c].burst = NoBurst THEN top ELSE turn[c].revision)]]
  BY DEF EnqueueMessage
<1>5. top \in Nat
  BY <1>2, <1>4
<1>6. turn' \in [Chats -> TurnRow]
  BY <1>1, <1>4, <1>5 DEF TypeOK, TurnRow
<1>7. inbox' \in [Updates -> InboxRow]
  BY <1>1 DEF EnqueueMessage, TypeOK, InboxRow, TurnRow
<1>8. QED
  BY <1>3, <1>6, <1>7 DEF EnqueueMessage, TypeOK

LEMMA ReserveAutomationType ==
  ASSUME TypeOK, NEW c \in Chats, ReserveAutomation(c)
  PROVE  TypeOK'
<1> USE ConstantsAssumption
<1>1. PICK top \in Revisions(c) :
        /\ NewGeneration(c, NoBurst, top + 1, installed[c], {}, {})
        /\ turn' = [turn EXCEPT ![c] = [@ EXCEPT !.revision = top + 1, !.active = made + 1]]
  BY Zenon DEF ReserveAutomation
<1>2. top \in Nat /\ installed[c] \in Tomos \cup {NoTomo}
  BY RevisionsType DEF TypeOK
<1>3. made + 1 \in Gens /\ gens' \in [Gens -> GenRow] /\ made' \in 0..MaxGenerations
  <2>1. /\ top + 1 \in Nat /\ NoBurst \in Updates \cup {NoBurst}
        /\ {} \in SUBSET Updates /\ {} \in SUBSET (Gens \X Frames)
    BY <1>2
  <2>2. QED
    BY <2>1, <1>1, <1>2, NewGenerationType
<1>4. turn' \in [Chats -> TurnRow]
  <2>1. turn[c] \in TurnRow /\ top + 1 \in Nat /\ made + 1 \in Gens \cup {NoGen}
    BY <1>2, <1>3 DEF TypeOK
  <2>2. [turn[c] EXCEPT !.revision = top + 1, !.active = made + 1] \in TurnRow
    BY <2>1 DEF TurnRow
  <2>3. QED
    BY <1>1, <2>2 DEF TypeOK
<1>5. work' \in [Procs -> Work]
  BY <1>3 DEF ReserveAutomation, TypeOK, Work, Pc, Idle
<1>6. QED
  BY <1>3, <1>4, <1>5 DEF ReserveAutomation, TypeOK

LEMMA ClaimNextWorkType ==
  ASSUME TypeOK, NEW w \in Workers, NEW c \in Chats, ClaimNextWork(w, c)
  PROVE  TypeOK'
<1> USE ConstantsAssumption
<1>1. PICK last \in Open(c) :
        /\ NewGeneration(c, turn[c].burst, turn[c].revision, inbox[last].tomo,
                         Open(c), VisibleText(turn[c].burst))
        /\ work' = [work EXCEPT ![w] = [Idle EXCEPT
                      !.gen = made + 1,
                      !.pc = IF installed[c] = inbox[last].tomo THEN "waiting" ELSE "failing"]]
  BY Zenon DEF ClaimNextWork
<1>2. /\ inbox[last].tomo \in Tomos \cup {NoTomo}
      /\ turn[c].burst \in Updates \cup {NoBurst} /\ turn[c].revision \in Nat
  BY DEF Open, TypeOK, InboxRow, TurnRow
<1>3. Open(c) \in SUBSET Updates /\ VisibleText(turn[c].burst) \in SUBSET (Gens \X Frames)
  BY DEF Open, VisibleText
<1>4. made + 1 \in Gens /\ gens' \in [Gens -> GenRow] /\ made' \in 0..MaxGenerations
  BY <1>1, <1>2, <1>3, NewGenerationType
<1>5. turn' \in [Chats -> TurnRow]
  <2>1. turn[c] \in TurnRow /\ made + 1 \in Gens \cup {NoGen}
    BY <1>4 DEF TypeOK
  <2>2. [turn[c] EXCEPT !.active = made + 1] \in TurnRow
    BY <2>1 DEF TurnRow
  <2>3. QED
    BY <2>2 DEF ClaimNextWork, TypeOK
<1>6. work' \in [Procs -> Work]
  BY <1>1, <1>4 DEF TypeOK, Work, Pc, Idle
<1>7. QED
  BY <1>4, <1>5, <1>6 DEF ClaimNextWork, TypeOK

\* A turn row stays typed when its chat is released.
LEMMA ReleaseType ==
  ASSUME NEW row \in TurnRow, NEW r \in Nat, NEW b \in Updates \cup {NoBurst}, NEW q \in BOOLEAN
  PROVE  /\ [row EXCEPT !.burst = b, !.active = NoGen] \in TurnRow
         /\ [row EXCEPT !.burst = b, !.active = NoGen, !.waiting = q] \in TurnRow
         /\ [row EXCEPT !.revision = r, !.active = NoGen, !.waiting = q] \in TurnRow
BY DEF TurnRow, NoGen

LEMMA EndTurnType ==
  ASSUME TypeOK, NEW p \in Procs, EndTurn(p)
  PROVE  TypeOK'
<1> DEFINE g == work[p].gen
<1>1. CompleteGeneration(g) /\ work' = [work EXCEPT ![p] = Idle]
  BY DEF EndTurn
<1>2. work' \in [Procs -> Work]
  BY <1>1 DEF TypeOK, Work, Pc, Idle
<1>3. gens' \in [Gens -> GenRow]
  <2>1. gens' = gens \/ gens' = [gens EXCEPT ![g].status = "completed"]
    BY Zenon, <1>1 DEF CompleteGeneration, store
  <2>2. QED
    BY SMTT(60), <2>1, StatusChangeType
<1>4. inbox' \in [Updates -> InboxRow]
  <2>1. inbox' = inbox \/ inbox' = Close(gens[g].burst)
    BY ZenonT(60), <1>1 DEF CompleteGeneration, store
  <2>2. QED
    BY SMTT(60), <2>1, CloseType DEF TypeOK
<1>5. turn' \in [Chats -> TurnRow]
  <2>1. CASE turn' = turn
    BY SMTT(60), <2>1 DEF TypeOK
  <2>2. CASE turn' = [c \in Chats |->
                   IF c = gens[g].chat /\ turn[c].active = g
                   THEN [turn[c] EXCEPT !.burst = NoBurst, !.active = NoGen] ELSE turn[c]]
    <3>1. \A c \in Chats : turn[c] \in TurnRow
      BY SMTT(60) DEF TypeOK
    <3>2. \A c \in Chats : [turn[c] EXCEPT !.burst = NoBurst, !.active = NoGen] \in TurnRow
      BY Zenon, <3>1, ReleaseType
    <3>3. QED
      BY Zenon, <2>2, <3>1, <3>2
  <2>3. QED
    BY Zenon, <1>1, <2>1, <2>2 DEF CompleteGeneration, store
<1>6. QED
  BY <1>2, <1>3, <1>4, <1>5 DEF EndTurn, TypeOK

LEMMA FailGenerationType ==
  ASSUME TypeOK, NEW p \in Procs, FailGeneration(p)
  PROVE  TypeOK'
<1> DEFINE g == work[p].gen
<1>1. /\ GiveUp(p) \/ RetryLater(p) \/ UNCHANGED store
      /\ work' = [work EXCEPT ![p] = Idle]
  BY DEF FailGeneration
<1>2. work' \in [Procs -> Work]
  BY <1>1 DEF TypeOK, Work, Pc, Idle
<1>3. gens' \in [Gens -> GenRow]
  <2>1. gens' = gens \/ gens' = [gens EXCEPT ![g].status = "failed"]
    BY ZenonT(60), <1>1 DEF GiveUp, RetryLater, store
  <2>2. QED
    BY SMTT(60), <2>1, StatusChangeType
<1>4. inbox' \in [Updates -> InboxRow]
  <2>1. inbox' = inbox \/ inbox' = Close(gens[g].burst)
    BY Zenon, <1>1 DEF GiveUp, RetryLater, store
  <2>2. QED
    BY <2>1, CloseType DEF TypeOK
<1>5. \A c \in Chats : turn[c] \in TurnRow /\ turn[c].revision \in Nat
  BY DEF TypeOK, TurnRow
<1>6. \A c \in Chats : RetryRevision(turn[c].revision, work[p].floor) \in Nat
  BY <1>5 DEF RetryRevision, TypeOK, Work
<1>7. turn' \in [Chats -> TurnRow]
  <2>1. CASE turn' = turn
    BY <2>1 DEF TypeOK
  <2>2. CASE GiveUp(p)
    <3>1. \A c \in Chats :
            [turn[c] EXCEPT !.burst = NoBurst, !.active = NoGen, !.waiting = FALSE] \in TurnRow
      BY ZenonT(60), <1>5, ReleaseType
    <3>2. QED
      BY ZenonT(60), <1>5, <2>2, <3>1 DEF GiveUp
  <2>3. CASE RetryLater(p)
    <3>1. \A c \in Chats :
            [turn[c] EXCEPT !.revision = RetryRevision(@, work[p].floor), !.active = NoGen,
                            !.waiting = work[p].pc = "failing"] \in TurnRow
      <4> TAKE c \in Chats
      <4>1. RetryRevision(turn[c].revision, work[p].floor) \in Nat /\ turn[c] \in TurnRow
        BY <1>5, <1>6
      <4>2. (work[p].pc = "failing") \in BOOLEAN
        OBVIOUS
      <4>3. QED
        BY Zenon, <4>1, <4>2, ReleaseType
    <3>2. QED
      BY ZenonT(60), <1>5, <2>3, <3>1 DEF RetryLater
  <2>4. QED
    BY SMTT(60), <1>1, <2>1, <2>2, <2>3 DEF store
<1>8. QED
  BY <1>2, <1>3, <1>4, <1>7 DEF FailGeneration, TypeOK

LEMMA DeliveryType ==
  ASSUME TypeOK, NEW w \in Workers, DeliveryStep(w)
  PROVE  TypeOK'
<1>1. work[w] \in Work /\ w \in Procs
  BY DEF TypeOK, Procs
<1>2. ASSUME NEW g, NEW f, NEW s \in BubbleStatus,
             bubble' = [bubble EXCEPT ![g][f] = s]
      PROVE  bubble' \in [Gens -> [Frames -> BubbleStatus]]
  BY <1>2 DEF TypeOK
<1>3. ASSUME NEW n \in Nat, NEW q \in Pc,
             \/ work' = [work EXCEPT ![w].pc = q]
             \/ work' = [work EXCEPT ![w] = [@ EXCEPT !.pc = q, !.next = n]]
      PROVE  work' \in [Procs -> Work]
  <2>1. [work[w] EXCEPT !.pc = q] \in Work /\ [work[w] EXCEPT !.pc = q, !.next = n] \in Work
    BY <1>1 DEF Work
  <2>2. QED
    BY <1>3, <2>1 DEF TypeOK
<1>4. work[w].next + 1 \in Nat
  BY <1>1 DEF Work
<1>5. ASSUME NEW s \in BubbleStatus, RecordDelivery(w, s) PROVE TypeOK'
  <2>1. work' \in [Procs -> Work]
    BY Zenon, <1>3, <1>4, <1>5 DEF RecordDelivery, Pc
  <2>2. bubble' \in [Gens -> [Frames -> BubbleStatus]]
    BY <1>2, <1>5 DEF RecordDelivery
  <2>3. QED
    BY <1>5, <2>1, <2>2 DEF RecordDelivery, TypeOK
<1>6. CASE ReserveDelivery(w)
  <2>1. work' \in [Procs -> Work]
    BY Zenon, <1>3, <1>4, <1>6 DEF ReserveDelivery, Pc
  <2>2. bubble' \in [Gens -> [Frames -> BubbleStatus]]
    BY Zenon, <1>2, <1>6 DEF ReserveDelivery, BubbleStatus
  <2>3. QED
    BY <1>6, <2>1, <2>2 DEF ReserveDelivery, TypeOK
<1>7. CASE RecheckDelivery(w)
  <2>1. work' \in [Procs -> Work]
    BY Zenon, <1>3, <1>4, <1>7 DEF RecheckDelivery, Pc
  <2>2. bubble' = bubble \/ bubble' = [bubble EXCEPT ![work[w].gen][work[w].next] = "suppressed"]
    BY <1>7 DEF RecheckDelivery
  <2>3. bubble' \in [Gens -> [Frames -> BubbleStatus]]
    BY <1>2, <2>2 DEF TypeOK, BubbleStatus
  <2>4. QED
    BY <1>7, <2>1, <2>3 DEF RecheckDelivery, TypeOK
<1>8. CASE TelegramAccepts(w)
  <2>1. work' \in [Procs -> Work]
    BY Zenon, <1>3, <1>4, <1>8 DEF TelegramAccepts, Pc
  <2>2. screen' \in [Gens -> [Frames -> Nat]]
    <3>1. \A g \in Gens, f \in Frames : screen[g][f] + 1 \in Nat
      BY DEF TypeOK
    <3>2. screen' = [screen EXCEPT ![work[w].gen] =
                       [@ EXCEPT ![work[w].next] = screen[work[w].gen][work[w].next] + 1]]
      BY <1>8 DEF TelegramAccepts
    <3>3. QED
      BY ZenonT(60), <3>1, <3>2 DEF TypeOK
  <2>3. late' \in [Gens -> Nat]
    <3>1. \A g \in Gens : late[g] + 1 \in Nat
      BY DEF TypeOK
    <3>2. PICK n : late' = [late EXCEPT ![work[w].gen] = n]
                   /\ (n = late[work[w].gen] \/ n = late[work[w].gen] + 1)
      BY <1>8 DEF TelegramAccepts
    <3>3. QED
      BY <3>1, <3>2 DEF TypeOK
  <2>4. QED
    BY <1>8, <2>1, <2>2, <2>3 DEF TelegramAccepts, TypeOK
<1>9. CASE MarkSent(w)
  BY <1>5, <1>9 DEF MarkSent, BubbleStatus
<1>10. CASE SendRaises(w)
  BY <1>5, <1>10 DEF SendRaises, BubbleStatus
<1>11. QED
  BY <1>6, <1>7, <1>8, <1>9, <1>10 DEF DeliveryStep

LEMMA RestartType ==
  ASSUME TypeOK, Restart
  PROVE  TypeOK'
<1>1. work' \in [Procs -> Work]
  BY DEF Restart, Work, Pc, Idle
<1>2. bubble' \in [Gens -> [Frames -> BubbleStatus]]
  BY DEF Restart, Uncertain, TypeOK, BubbleStatus
<1>3. gens' \in [Gens -> GenRow]
  BY Zenon, StatusType DEF Restart, TypeOK
<1>4. \A c \in Chats : turn[c] \in TurnRow /\ turn[c].revision + 1 \in Nat
  BY DEF TypeOK, TurnRow
<1>5. \A c \in Chats : Recovered(c) \in TurnRow
  BY Zenon, <1>4, ReleaseType DEF Recovered
<1>6. QED
  BY <1>1, <1>2, <1>3, <1>5, ConstantsAssumption DEF Restart, TypeOK

-----------------------------------------------------------------------------
(* The inductive form of TypeOK: a thread that is not idle works on a row    *)
(* that exists, so a stale event finds the revision it is compared with.     *)

WorkersHaveGeneration == \A p \in Procs : work[p].pc # "idle" => work[p].gen \in 1..made

TypeInv == TypeOK /\ WorkersHaveGeneration

LEMMA InitTypeInv == Init => TypeInv
BY InitTypeOK DEF TypeInv, WorkersHaveGeneration, Init, Idle

LEMMA WorkerGen ==
  ASSUME TypeInv, NEW p \in Procs, work[p].pc # "idle"
  PROVE  /\ work[p] \in Work /\ work[p].gen \in Gens /\ work[p].gen <= made
         /\ gens[work[p].gen] \in GenRow
BY ConstantsAssumption DEF TypeInv, WorkersHaveGeneration, TypeOK, Gens

LEMMA StepTypeOK == TypeInv /\ [Next]_vars => TypeOK'
<1> SUFFICES ASSUME TypeInv, [Next]_vars PROVE TypeOK'
  OBVIOUS
<1> USE DEF TypeInv
<1>1. ASSUME NEW c \in Chats, NEW t \in Tomos, ConsumeStartToken(c, t) PROVE TypeOK'
  BY <1>1 DEF TypeOK, ConsumeStartToken
<1>2. ASSUME NEW m \in Updates, Redelivered(m) PROVE TypeOK'
  BY <1>2 DEF TypeOK, Redelivered, vars
<1>3. ASSUME NEW m \in Updates, EnqueueControl(m) PROVE TypeOK'
  BY ZenonT(60), <1>3 DEF TypeOK, EnqueueControl, InboxRow
<1>4. ASSUME NEW c \in Chats, QuietElapses(c) PROVE TypeOK'
  BY ZenonT(60), <1>4 DEF TypeOK, QuietElapses, TurnRow
<1>5. ASSUME NEW p \in Procs, BeginTurn(p) PROVE TypeOK'
  BY ZenonT(60), <1>5 DEF TypeOK, BeginTurn, Work, Pc, Idle, NoGen
<1>6. ASSUME NEW p \in Procs, NEW ahead \in 0..1, StaleEvent(p, ahead) PROVE TypeOK'
  <2>1. work[p] \in Work /\ gens[work[p].gen].revision + ahead + 1 \in Nat
    <3>1. work[p].pc # "idle"
      BY <1>6 DEF StaleEvent
    <3>2. QED
      BY <3>1, WorkerGen DEF GenRow
  <2>2. work' \in [Procs -> Work]
    BY <1>6, <2>1 DEF StaleEvent, TypeOK, Work, Pc
  <2>3. QED
    BY <1>6, <2>2 DEF StaleEvent, TypeOK
<1>7. ASSUME NEW p \in Procs, TurnFails(p) PROVE TypeOK'
  BY ZenonT(60), <1>7 DEF TypeOK, TurnFails, Work, Pc
<1>8. CASE UNCHANGED vars
  BY <1>8 DEF TypeOK, vars
<1>9. QED
  BY <1>1, <1>2, <1>3, <1>4, <1>5, <1>6, <1>7, <1>8, EnqueueMessageType, ReserveAutomationType,
     ClaimNextWorkType, EndTurnType, FailGenerationType, DeliveryType, RestartType
  DEF Next, TurnStep

\* What a step does to a thread that is busy after it: it keeps its
\* generation, or it has just claimed the newest one and no other thread moved.
LEMMA BusyThread ==
  ASSUME TypeInv, [Next]_vars, NEW p \in Procs, work'[p].pc # "idle"
  PROVE  \/ work[p].pc # "idle" /\ work'[p].gen = work[p].gen
         \/ /\ work'[p].gen = made + 1 /\ made' = made + 1
            /\ \A q \in Procs \ {p} : work'[q] = work[q]
<1>1. Scheduler \in Procs /\ Workers \subseteq Procs /\ work \in [Procs -> Work]
      /\ work[p] \in [pc : Pc, gen : Gens \cup {NoGen}, next : Nat, floor : Nat]
  BY DEF Procs, TypeInv, TypeOK, Work
<1>2. ASSUME UNCHANGED work PROVE work[p].pc # "idle" /\ work'[p].gen = work[p].gen
  BY <1>2
<1>3. ASSUME NEW q \in Procs, NEW s, NEW n, work[q].pc # "idle",
             \/ work' = [work EXCEPT ![q].pc = s]
             \/ work' = [work EXCEPT ![q] = [@ EXCEPT !.pc = s, !.next = n]]
             \/ work' = [work EXCEPT ![q] = [@ EXCEPT !.pc = s, !.floor = n]]
             \/ work' = [work EXCEPT ![q] = Idle]
      PROVE  work[p].pc # "idle" /\ work'[p].gen = work[p].gen
  <2>1. CASE p # q
    BY <1>1, <1>3, <2>1
  <2>2. CASE p = q
    <3>1. work'[q].gen = work[q].gen \/ work'[q] = Idle
      <4>1. \/ work'[q] = [work[q] EXCEPT !.pc = s]
            \/ work'[q] = [work[q] EXCEPT !.pc = s, !.next = n]
            \/ work'[q] = [work[q] EXCEPT !.pc = s, !.floor = n]
            \/ work'[q] = Idle
        BY <1>1, <1>3
      <4>2. work[q] \in [pc : Pc, gen : Gens \cup {NoGen}, next : Nat, floor : Nat]
        BY <1>1, <2>2
      <4>3. QED
        BY <4>1, <4>2
    <3>2. QED
      BY <1>3, <2>2, <3>1 DEF Idle
  <2>3. QED
    BY <2>1, <2>2
<1>4. CASE \/ \E c \in Chats, t \in Tomos : ConsumeStartToken(c, t)
           \/ \E m \in Updates : Redelivered(m) \/ EnqueueControl(m) \/ EnqueueMessage(m)
           \/ \E c \in Chats : QuietElapses(c)
           \/ UNCHANGED vars
  BY <1>2, <1>4 DEF ConsumeStartToken, Redelivered, EnqueueControl, EnqueueMessage,
     QuietElapses, vars
<1>5. ASSUME NEW c \in Chats, ReserveAutomation(c)
      PROVE  \/ work[p].pc # "idle" /\ work'[p].gen = work[p].gen
             \/ /\ work'[p].gen = made + 1 /\ made' = made + 1
                /\ \A q \in Procs \ {p} : work'[q] = work[q]
  BY <1>1, <1>5 DEF ReserveAutomation, NewGeneration, Idle
<1>6. ASSUME NEW w \in Workers, NEW c \in Chats, ClaimNextWork(w, c)
      PROVE  \/ work[p].pc # "idle" /\ work'[p].gen = work[p].gen
             \/ /\ work'[p].gen = made + 1 /\ made' = made + 1
                /\ \A q \in Procs \ {p} : work'[q] = work[q]
  BY <1>1, <1>6 DEF ClaimNextWork, NewGeneration, Idle
<1>7. ASSUME NEW q \in Procs, TurnStep(q)
      PROVE  work[p].pc # "idle" /\ work'[p].gen = work[p].gen
  <2>1. CASE BeginTurn(q)
    BY <1>1, <2>1 DEF BeginTurn, Idle
  <2>2. CASE \E ahead \in 0..1 : StaleEvent(q, ahead)
    <3>1. PICK s, n : work[q].pc # "idle" /\ work' = [work EXCEPT ![q] = [@ EXCEPT !.pc = s, !.floor = n]]
      BY Zenon, <2>2 DEF StaleEvent
    <3>2. QED
      BY Zenon, <3>1, <1>3
  <2>3. CASE TurnFails(q)
    <3>1. work[q].pc # "idle" /\ work' = [work EXCEPT ![q].pc = "failing"]
      BY <2>3 DEF TurnFails
    <3>2. QED
      BY Zenon, <3>1, <1>3
  <2>4. CASE EndTurn(q) \/ FailGeneration(q)
    <3>1. work[q].pc # "idle" /\ work' = [work EXCEPT ![q] = Idle]
      BY SMTT(60), <2>4 DEF EndTurn, FailGeneration
    <3>2. QED
      BY Zenon, <3>1, <1>3
  <2>5. QED
    BY <1>7, <2>1, <2>2, <2>3, <2>4 DEF TurnStep
<1>8. ASSUME NEW w \in Workers, DeliveryStep(w)
      PROVE  work[p].pc # "idle" /\ work'[p].gen = work[p].gen
  <2>1. w \in Procs /\ work[w].pc # "idle"
    BY SMTT(60), <1>1, <1>8 DEF DeliveryStep, ReserveDelivery, RecheckDelivery, TelegramAccepts, MarkSent, SendRaises
  <2>2. PICK s, n : \/ work' = [work EXCEPT ![w].pc = s]
                    \/ work' = [work EXCEPT ![w] = [@ EXCEPT !.pc = s, !.next = n]]
    BY Zenon, <1>8 DEF DeliveryStep, ReserveDelivery, RecheckDelivery, TelegramAccepts, MarkSent, SendRaises,
       RecordDelivery
  <2>3. QED
    BY Zenon, <2>1, <2>2, <1>3
<1>9. CASE Restart
  BY <1>9 DEF Restart, Idle
<1>10. QED
  BY <1>4, <1>5, <1>6, <1>7, <1>8, <1>9 DEF Next
LEMMA StepWorkersHaveGeneration == TypeInv /\ [Next]_vars => WorkersHaveGeneration'
<1> SUFFICES ASSUME TypeInv, [Next]_vars PROVE WorkersHaveGeneration'
  OBVIOUS
<1>1. made \in Nat /\ made' \in Nat /\ made <= made'
  <2>1. made \in Nat /\ made' \in Nat
    BY SMTT(60), StepTypeOK, ConstantsAssumption DEF TypeInv, TypeOK
  <2>2. made' = made \/ made' = made + 1
    BY Zenon DEF Next, TurnStep, DeliveryStep, vars, ConsumeStartToken, Redelivered, EnqueueControl,
       EnqueueMessage, QuietElapses, ReserveAutomation, ClaimNextWork, NewGeneration, BeginTurn,
       StaleEvent, TurnFails, EndTurn, FailGeneration, ReserveDelivery, RecheckDelivery,
       TelegramAccepts, MarkSent, SendRaises, RecordDelivery, Restart
  <2>3. QED
    BY <2>1, <2>2
<1>2. QED
  BY <1>1, BusyThread DEF TypeInv, WorkersHaveGeneration

LEMMA StepTypeInv == TypeInv /\ [Next]_vars => TypeInv'
BY StepTypeOK, StepWorkersHaveGeneration DEF TypeInv

LEMMA TypeInvariant == Spec => []TypeInv
<1>1. QED
  BY InitTypeInv, StepTypeInv, PTL DEF Spec

\* Every table keeps rows of its type, whatever the bounds.
THEOREM TypeCorrect == Spec => []TypeOK
<1>1. TypeInv => TypeOK
  BY DEF TypeInv
<1>2. QED
  BY TypeInvariant, <1>1, PTL

-----------------------------------------------------------------------------
(* The tables: the inductive invariant *)

BurstOfItsChat == \A c \in Chats : turn[c].burst # NoBurst => ChatOf[turn[c].burst] = c

NoRowBeyondMade == \A g \in Gens : gens[g].status = "none" <=> g > made

BurstOnlyOfQueued ==
  \A m \in Updates : inbox[m].status \in {"none", "control"} => inbox[m].burst = NoBurst

\* A chat's revision bounds those of its generations, strictly so while it
\* has waiting input: the next claim reuses the turn's revision.
RevisionsBelowTurn ==
  \A g \in Gens : g <= made =>
    LET c == gens[g].chat IN
    /\ gens[g].revision <= turn[c].revision
    /\ (turn[c].active = NoGen /\ turn[c].burst # NoBurst) => gens[g].revision < turn[c].revision

TablesInv ==
  /\ BurstOfItsChat
  /\ NoRowBeyondMade
  /\ BurstOnlyOfQueued
  /\ RevisionsBelowTurn
  /\ RevisionsGrow
  /\ TurnNamesActive
  /\ NoMessageStranded
  /\ OwnerSawEverything

-----------------------------------------------------------------------------
(* The five shapes of a step *)

SameTurn(c) ==
  /\ turn'[c].burst = turn[c].burst
  /\ turn'[c].active = turn[c].active
  /\ turn'[c].revision = turn[c].revision

\* The columns of a generation that never change.
SameRow(g) ==
  /\ gens'[g].chat = gens[g].chat
  /\ gens'[g].burst = gens[g].burst
  /\ gens'[g].revision = gens[g].revision
  /\ gens'[g].inputs = gens[g].inputs
  /\ gens'[g].visible = gens[g].visible

Untouched ==
  /\ made' = made
  /\ \A g \in Gens : SameRow(g) /\ gens'[g].status = gens[g].status
  /\ \A c \in Chats : SameTurn(c)
  /\ \A m \in Updates :
       /\ inbox'[m].burst = inbox[m].burst
       /\ \/ inbox'[m].status = inbox[m].status
          \/ inbox[m].status = "none" /\ inbox'[m].status = "control"

\* The chat's revision exceeds those of its generations.
Fresh(c) ==
  \A g \in Gens : (g <= made /\ gens[g].chat = c) => gens[g].revision < turn'[c].revision

Accepts(m) ==
  LET c == ChatOf[m] IN
  /\ inbox[m].status = "none"
  /\ inbox'[m].status = "pending"
  /\ inbox'[m].burst = turn'[c].burst
  /\ \A n \in Updates \ {m} : inbox'[n] = inbox[n]
  /\ turn'[c].burst = IF turn[c].burst = NoBurst THEN m ELSE turn[c].burst
  /\ turn'[c].active = NoGen
  /\ Fresh(c)
  /\ \A d \in Chats \ {c} : SameTurn(d)
  /\ made' = made
  /\ \A g \in Gens :
       /\ SameRow(g)
       /\ gens'[g].status = IF g = turn[c].active THEN "superseded" ELSE gens[g].status

Starts(c) ==
  LET g == made + 1 IN
  /\ g \in Gens
  /\ made' = g
  /\ turn[c].active = NoGen
  /\ turn'[c].burst = turn[c].burst
  /\ turn'[c].active = g
  /\ Fresh(c)
  /\ \A d \in Chats \ {c} : SameTurn(d)
  /\ inbox' = inbox
  /\ gens'[g].status = "active"
  /\ gens'[g].chat = c
  /\ gens'[g].burst = turn[c].burst
  /\ gens'[g].revision = turn'[c].revision
  /\ gens'[g].inputs = Open(c)
  /\ turn[c].burst # NoBurst => gens'[g].visible = VisibleText(turn[c].burst)
  /\ \A h \in Gens \ {g} : gens'[h] = gens[h]

Settles(c) ==
  LET g == turn[c].active IN
  /\ g \in Gens
  /\ gens'[g].status \in {"completed", "failed"}
  /\ \A h \in Gens : SameRow(h)
  /\ \A h \in Gens \ {g} : gens'[h].status = gens[h].status
  /\ inbox' = Close(turn[c].burst)
  /\ turn'[c].burst = NoBurst
  /\ turn'[c].active = NoGen
  /\ turn'[c].revision = turn[c].revision
  /\ \A d \in Chats \ {c} : SameTurn(d)
  /\ made' = made

Releases(cs) ==
  /\ inbox' = inbox
  /\ made' = made
  /\ \A c \in Chats \ cs : SameTurn(c)
  /\ \A c \in cs : /\ turn[c].active \in Gens
                   /\ turn'[c].burst = turn[c].burst
                   /\ turn'[c].active = NoGen
                   /\ turn[c].revision < turn'[c].revision
  /\ \A g \in Gens :
       /\ SameRow(g)
       /\ IF IsGenerationActive(g) /\ gens[g].chat \in cs
          THEN gens'[g].status \in {"superseded", "failed"}
          ELSE gens'[g].status = gens[g].status

Shapes ==
  \/ Untouched
  \/ \E m \in Updates : Accepts(m)
  \/ \E c \in Chats : Starts(c)
  \/ \E c \in Chats : Settles(c)
  \/ \E cs \in SUBSET Chats : Releases(cs)

-----------------------------------------------------------------------------
(* The types of the columns *)

LEMMA Columns ==
  ASSUME TypeInv
  PROVE  /\ made \in Nat /\ made <= MaxGenerations
         /\ \A g \in Gens : /\ gens[g].chat \in Chats
                            /\ gens[g].burst \in Updates \cup {NoBurst}
                            /\ gens[g].revision \in Nat
                            /\ gens[g] \in GenRow
                            /\ g \in Nat /\ g >= 1
         /\ \A c \in Chats : /\ turn[c].burst \in Updates \cup {NoBurst}
                             /\ turn[c].revision \in Nat
                             /\ turn[c].active \in Gens \cup {NoGen}
                             /\ turn[c] \in TurnRow
         /\ \A m \in Updates : /\ ChatOf[m] \in Chats
                               /\ m # NoBurst
                               /\ inbox[m] \in InboxRow
                               /\ inbox[m].burst \in Updates \cup {NoBurst}
                               /\ inbox[m].status \in {"none", "pending", "completed", "control"}
         /\ NoGen \notin Gens
<1>1. /\ made \in Nat /\ made <= MaxGenerations
      /\ \A g \in Gens : gens[g] \in GenRow /\ g \in Nat /\ g >= 1
      /\ NoGen \notin Gens
  BY ConstantsAssumption DEF TypeInv, TypeOK, Gens, NoGen
<1>2. \A g \in Gens : /\ gens[g].chat \in Chats
                      /\ gens[g].burst \in Updates \cup {NoBurst}
                      /\ gens[g].revision \in Nat
  BY <1>1 DEF GenRow
<1>3. \A c \in Chats : turn[c] \in TurnRow
  BY DEF TypeInv, TypeOK
<1>4. \A c \in Chats : /\ turn[c].burst \in Updates \cup {NoBurst}
                       /\ turn[c].revision \in Nat
                       /\ turn[c].active \in Gens \cup {NoGen}
  BY <1>3 DEF TurnRow
<1>5. \A m \in Updates : ChatOf[m] \in Chats /\ m # NoBurst /\ inbox[m] \in InboxRow
  BY ConstantsAssumption DEF TypeInv, TypeOK, NoBurst
<1>6. \A m \in Updates : /\ inbox[m].burst \in Updates \cup {NoBurst}
                         /\ inbox[m].status \in {"none", "pending", "completed", "control"}
  BY <1>5 DEF InboxRow
<1>7. QED
  BY <1>1, <1>2, <1>3, <1>4, <1>5, <1>6

-----------------------------------------------------------------------------
(* Each action has one of the shapes *)

\* The generation that an active status belongs to holds its chat.
LEMMA ActiveHolds ==
  ASSUME TypeInv, TablesInv, NEW g \in Gens, IsGenerationActive(g)
  PROVE  /\ gens[g].chat \in Chats
         /\ turn[gens[g].chat].active = g
         /\ gens[g].burst = turn[gens[g].chat].burst
         /\ \A h \in Gens : h # g /\ IsGenerationActive(h) => gens[h].chat # gens[g].chat
<1>1. gens[g].chat \in Chats /\ \A h \in Gens : IsGenerationActive(h) => turn[gens[h].chat].active = h
  BY Columns DEF TablesInv, TurnNamesActive
<1>2. g # NoGen
  BY Columns
<1>3. QED
  BY <1>1, <1>2 DEF TablesInv, TurnNamesActive

LEMMA StatusColumns ==
  ASSUME NEW row \in GenRow, NEW s
  PROVE  /\ [row EXCEPT !.status = s].status = s
         /\ [row EXCEPT !.status = s].chat = row.chat
         /\ [row EXCEPT !.status = s].burst = row.burst
         /\ [row EXCEPT !.status = s].revision = row.revision
         /\ [row EXCEPT !.status = s].inputs = row.inputs
BY DEF GenRow

LEMMA EnqueueMessageShape ==
  ASSUME TypeInv, TablesInv, NEW m \in Updates, EnqueueMessage(m)
  PROVE  Accepts(m)
<1> DEFINE c == ChatOf[m]
           b == IF turn[c].burst = NoBurst THEN m ELSE turn[c].burst
<1>1. c \in Chats /\ turn[c] \in TurnRow /\ turn[c].revision \in Nat
  BY Columns
<1>2. PICK top \in Revisions(c) :
        /\ \A r \in Revisions(c) : r <= top
        /\ turn' = [turn EXCEPT ![c] =
                     [burst |-> b, active |-> NoGen, waiting |-> TRUE,
                      revision |-> 1 + (IF turn[c].burst = NoBurst THEN top ELSE turn[c].revision)]]
  BY DEF EnqueueMessage
<1>3. top \in Nat
  BY <1>1, RevisionsType DEF TypeInv
<1>4. /\ turn'[c].burst = b /\ turn'[c].active = NoGen
      /\ turn'[c].revision = 1 + (IF turn[c].burst = NoBurst THEN top ELSE turn[c].revision)
      /\ \A d \in Chats \ {c} : turn'[d] = turn[d]
  BY <1>1, <1>2 DEF TypeInv, TypeOK
<1>5. /\ inbox[m].status = "none"
      /\ inbox'[m].status = "pending" /\ inbox'[m].burst = b
      /\ \A n \in Updates \ {m} : inbox'[n] = inbox[n]
      /\ made' = made
  BY DEF EnqueueMessage, TypeInv, TypeOK
<1>6. Fresh(c)
  <2> SUFFICES ASSUME NEW g \in Gens, g <= made, gens[g].chat = c
               PROVE  gens[g].revision < turn'[c].revision
    BY DEF Fresh
  <2>1. gens[g].revision \in Nat /\ gens[g].revision <= turn[c].revision
    BY Columns DEF TablesInv, RevisionsBelowTurn
  <2>2. turn[c].revision <= top
    BY <1>2 DEF Revisions
  <2>3. QED
    BY <2>1, <2>2, <1>1, <1>3, <1>4
<1>7. \A g \in Gens :
        /\ SameRow(g)
        /\ gens'[g].status = IF g = turn[c].active THEN "superseded" ELSE gens[g].status
  <2> TAKE g \in Gens
  <2>1. gens[g] \in GenRow
    BY Columns
  <2>2. gens'[g] = IF g = turn[c].active /\ IsGenerationActive(g)
                   THEN [gens[g] EXCEPT !.status = "superseded"] ELSE gens[g]
    BY DEF EnqueueMessage, Supersede
  <2>3. g = turn[c].active => IsGenerationActive(g)
    BY <1>1, Columns DEF TablesInv, TurnNamesActive, IsGenerationActive
  <2>4. QED
    BY <2>1, <2>2, <2>3 DEF SameRow, GenRow
<1>8. QED
  BY <1>4, <1>5, <1>6, <1>7 DEF Accepts, SameTurn

LEMMA NewGenerationShape ==
  ASSUME TypeInv, TablesInv, NEW c \in Chats, NEW b, NEW r, NEW t, NEW inputs, NEW visible,
         NewGeneration(c, b, r, t, inputs, visible)
  PROVE  /\ made + 1 \in Gens /\ made' = made + 1
         /\ gens'[made + 1].status = "active" /\ gens'[made + 1].chat = c
         /\ gens'[made + 1].burst = b /\ gens'[made + 1].revision = r
         /\ gens'[made + 1].inputs = inputs /\ gens'[made + 1].visible = visible
         /\ \A h \in Gens \ {made + 1} : gens'[h] = gens[h]
<1>1. made + 1 \in Gens
  BY ConstantsAssumption DEF NewGeneration, TypeInv, TypeOK, Gens
<1>2. QED
  BY <1>1 DEF NewGeneration, TypeInv, TypeOK

LEMMA ClaimNextWorkShape ==
  ASSUME TypeInv, TablesInv, NEW w \in Workers, NEW c \in Chats, ClaimNextWork(w, c)
  PROVE  Starts(c)
<1>1. /\ turn[c].burst # NoBurst /\ turn[c].active = NoGen /\ inbox' = inbox
      /\ turn' = [turn EXCEPT ![c].active = made + 1]
      /\ \E t : NewGeneration(c, turn[c].burst, turn[c].revision, t, Open(c),
                              VisibleText(turn[c].burst))
  BY DEF ClaimNextWork
<1>2. turn[c] \in TurnRow
  BY Columns
<1>3. /\ turn'[c].burst = turn[c].burst /\ turn'[c].revision = turn[c].revision
      /\ turn'[c].active = made + 1
      /\ \A d \in Chats \ {c} : turn'[d] = turn[d]
  BY <1>1, <1>2 DEF TurnRow, TypeInv, TypeOK
<1>4. Fresh(c)
  BY <1>1, <1>3 DEF Fresh, TablesInv, RevisionsBelowTurn
<1>5. QED
  BY <1>1, <1>3, <1>4, NewGenerationShape DEF Starts, SameTurn

LEMMA ReserveAutomationShape ==
  ASSUME TypeInv, TablesInv, NEW c \in Chats, ReserveAutomation(c)
  PROVE  Starts(c)
<1>1. PICK top \in Revisions(c) :
        /\ \A r \in Revisions(c) : r <= top
        /\ NewGeneration(c, NoBurst, top + 1, installed[c], {}, {})
        /\ turn' = [turn EXCEPT ![c] = [@ EXCEPT !.revision = top + 1, !.active = made + 1]]
  BY Zenon DEF ReserveAutomation
<1>2. turn[c].burst = NoBurst /\ turn[c].active = NoGen /\ inbox' = inbox
  BY DEF ReserveAutomation, ChatIsIdle
<1>3. turn[c] \in TurnRow /\ top \in Nat
  BY Columns, RevisionsType DEF TypeInv
<1>4. /\ turn'[c].burst = turn[c].burst /\ turn'[c].revision = top + 1
      /\ turn'[c].active = made + 1
      /\ \A d \in Chats \ {c} : turn'[d] = turn[d]
  BY <1>1, <1>3 DEF TurnRow, TypeInv, TypeOK
<1>5. Fresh(c)
  <2> SUFFICES ASSUME NEW g \in Gens, g <= made, gens[g].chat = c
               PROVE  gens[g].revision < turn'[c].revision
    BY DEF Fresh
  <2>1. gens[g].revision \in Revisions(c) /\ gens[g].revision \in Nat
    BY Columns DEF Revisions, TablesInv, NoRowBeyondMade
  <2>2. QED
    BY <2>1, <1>1, <1>3, <1>4
<1>6. Open(c) = {}
  BY <1>2 DEF Open, TablesInv, NoMessageStranded
<1>7. QED
  BY <1>1, <1>2, <1>4, <1>5, <1>6, NewGenerationShape DEF Starts, SameTurn

LEMMA StatusChangeRows ==
  ASSUME TypeInv, NEW g \in Gens, NEW s \in {"completed", "failed"},
         gens' = [gens EXCEPT ![g].status = s]
  PROVE  /\ \A h \in Gens : SameRow(h)
         /\ gens'[g].status = s
         /\ \A h \in Gens \ {g} : gens'[h].status = gens[h].status
<1>1. gens[g] \in GenRow
      /\ \A h \in Gens \ {g} : gens'[h] = gens[h]
  BY Columns DEF TypeInv, TypeOK
<1>2. SameRow(g) /\ gens'[g].status = s
  <2>1. gens' \in [Gens -> GenRow] /\ gens \in [Gens -> GenRow]
    BY StatusChangeType DEF TypeInv, TypeOK
  <2>2. QED
    BY <2>1 DEF SameRow, GenRow
<1>3. QED
  BY <1>1, <1>2 DEF SameRow

\* Both ways of closing a burst have the same shape.
LEMMA SettlingShape ==
  ASSUME TypeInv, TablesInv, NEW g \in Gens, IsGenerationActive(g),
         NEW s \in {"completed", "failed"},
         gens' = [gens EXCEPT ![g].status = s],
         inbox' = Close(gens[g].burst),
         made' = made,
         \/ turn' = [c \in Chats |->
                      IF c = gens[g].chat /\ turn[c].active = g
                      THEN [turn[c] EXCEPT !.burst = NoBurst, !.active = NoGen] ELSE turn[c]]
         \/ turn' = [c \in Chats |->
                      IF c = gens[g].chat /\ turn[c].active = g
                      THEN [turn[c] EXCEPT !.burst = NoBurst, !.active = NoGen, !.waiting = FALSE]
                      ELSE turn[c]]
  PROVE  Settles(gens[g].chat)
<1> DEFINE c == gens[g].chat
<1>1. c \in Chats /\ turn[c].active = g /\ gens[g].burst = turn[c].burst
  BY Zenon, ActiveHolds
<1>2. /\ turn'[c].burst = NoBurst /\ turn'[c].active = NoGen
      /\ turn'[c].revision = turn[c].revision
  <2>1. turn[c] \in TurnRow
    BY Zenon, <1>1, Columns
  <2>2. \/ turn'[c] = [turn[c] EXCEPT !.burst = NoBurst, !.active = NoGen]
        \/ turn'[c] = [turn[c] EXCEPT !.burst = NoBurst, !.active = NoGen, !.waiting = FALSE]
    BY Zenon, <1>1
  <2>3. QED
    BY ZenonT(60), <2>1, <2>2 DEF TurnRow
<1>3. \A d \in Chats \ {c} : turn'[d] = turn[d]
  BY Zenon
<1>4. /\ \A h \in Gens : SameRow(h)
      /\ gens'[g].status = s /\ \A h \in Gens \ {g} : gens'[h].status = gens[h].status
  BY Zenon, StatusChangeRows
<1>5. QED
  BY ZenonT(60), <1>1, <1>2, <1>3, <1>4 DEF Settles, SameTurn

LEMMA UnchangedShape ==
  ASSUME UNCHANGED <<inbox, turn, gens, made>>
  PROVE  Untouched
BY DEF Untouched, SameRow, SameTurn

LEMMA EndTurnShape ==
  ASSUME TypeInv, TablesInv, NEW p \in Procs, EndTurn(p)
  PROVE  Shapes
<1> DEFINE g == work[p].gen
<1>1. g \in Gens /\ CompleteGeneration(g) /\ made' = made
  BY WorkerGen DEF EndTurn
<1>2. CASE IsGenerationActive(g)
  <2>1. gens[g].chat \in Chats
    BY SMTT(60), <1>1, Columns
  <2>2. Settles(gens[g].chat)
    BY ZenonT(60), <1>1, <1>2, SettlingShape DEF CompleteGeneration
  <2>3. QED
    BY <2>1, <2>2 DEF Shapes
<1>3. CASE ~IsGenerationActive(g)
  BY Zenon, <1>1, <1>3, UnchangedShape DEF CompleteGeneration, store, Shapes
<1>4. QED
  BY <1>2, <1>3

LEMMA FailGenerationShape ==
  ASSUME TypeInv, TablesInv, NEW p \in Procs, FailGeneration(p)
  PROVE  Shapes
<1> DEFINE g == work[p].gen
           c == gens[g].chat
<1>1. g \in Gens /\ made' = made /\ work[p] \in Work
  BY WorkerGen DEF FailGeneration
<1>2. CASE GiveUp(p)
  <2>1. c \in Chats
    BY SMTT(60), <1>1, Columns
  <2>2. Settles(c)
    BY Zenon, <1>1, <1>2, SettlingShape DEF GiveUp
  <2>3. QED
    BY <2>1, <2>2 DEF Shapes
<1>3. CASE RetryLater(p)
  <2>1. c \in Chats /\ turn[c].active = g
        /\ \A h \in Gens : h # g /\ IsGenerationActive(h) => gens[h].chat # c
    BY Zenon, <1>1, <1>3, ActiveHolds DEF RetryLater
  <2>2. \A d \in Chats \ {c} : turn'[d] = turn[d]
    BY Zenon, <1>3 DEF RetryLater
  <2>3. /\ turn'[c].burst = turn[c].burst /\ turn'[c].active = NoGen
        /\ turn[c].revision < turn'[c].revision
    <3>1. turn[c] \in TurnRow /\ turn[c].revision \in Nat /\ work[p].floor \in Nat
      BY SMTT(60), <1>1, <2>1, Columns DEF Work
    <3>2. PICK q : turn'[c] = [turn[c] EXCEPT !.revision = RetryRevision(@, work[p].floor),
                                              !.active = NoGen, !.waiting = q]
      BY Zenon, <1>3, <2>1 DEF RetryLater
    <3>3. turn'[c].revision = RetryRevision(turn[c].revision, work[p].floor)
          /\ turn'[c].burst = turn[c].burst /\ turn'[c].active = NoGen
      BY <3>1, <3>2 DEF TurnRow
    <3>4. turn[c].revision < RetryRevision(turn[c].revision, work[p].floor)
      BY <3>1 DEF RetryRevision
    <3>5. QED
      BY <3>3, <3>4
  <2>4. \A h \in Gens : SameRow(h) /\ gens'[h].status = IF h = g THEN "failed" ELSE gens[h].status
    <3> TAKE h \in Gens
    <3>1. gens[h] \in GenRow
          /\ gens'[h] = IF h = g THEN [gens[h] EXCEPT !.status = "failed"] ELSE gens[h]
      BY Zenon, <1>1, <1>3, Columns DEF RetryLater, TypeInv, TypeOK
    <3>2. QED
      BY <3>1 DEF SameRow, GenRow
  <2>5. inbox' = inbox /\ IsGenerationActive(g)
    BY ZenonT(60), <1>3 DEF RetryLater
  <2>6. Releases({c})
    BY Zenon, <1>1, <2>1, <2>2, <2>3, <2>4, <2>5 DEF Releases, SameTurn
  <2>7. QED
    BY SMTT(60), <2>1, <2>6 DEF Shapes
<1>4. CASE UNCHANGED store
  BY <1>1, <1>4, UnchangedShape DEF store, Shapes
<1>5. QED
  BY <1>2, <1>3, <1>4 DEF FailGeneration

LEMMA RestartShape ==
  ASSUME TypeInv, TablesInv, Restart
  PROVE  Shapes
<1> DEFINE cs == {c \in Chats : turn[c].active \in Gens}
<1>1. \A c \in cs : IsGenerationActive(turn[c].active)
  BY Columns DEF TablesInv, TurnNamesActive, IsGenerationActive
<1>2. \A c \in Chats \ cs : turn'[c] = turn[c]
  BY Zenon DEF Restart, Recovered
<1>3. \A c \in cs : /\ turn'[c].burst = turn[c].burst
                    /\ turn'[c].active = NoGen
                    /\ turn[c].revision < turn'[c].revision
  <2> TAKE c \in cs
  <2>1. turn[c] \in TurnRow /\ turn[c].revision \in Nat
    BY Columns
  <2>2. turn'[c] = [turn[c] EXCEPT !.revision = @ + 1, !.active = NoGen, !.waiting = FALSE]
    BY Zenon, <1>1 DEF Restart, Recovered
  <2>3. turn'[c].revision = turn[c].revision + 1 /\ turn'[c].active = NoGen
        /\ turn'[c].burst = turn[c].burst
    BY <2>1, <2>2 DEF TurnRow
  <2>4. QED
    BY <2>1, <2>3
<1>4. \A g \in Gens :
        /\ SameRow(g)
        /\ IF IsGenerationActive(g) THEN gens'[g].status = "superseded"
                                    ELSE gens'[g].status = gens[g].status
  <2> TAKE g \in Gens
  <2>1. gens[g] \in GenRow
        /\ gens'[g] = IF IsGenerationActive(g) THEN [gens[g] EXCEPT !.status = "superseded"]
                                               ELSE gens[g]
    BY Columns DEF Restart
  <2>2. QED
    BY <2>1 DEF SameRow, GenRow
<1>5. \A g \in Gens : IsGenerationActive(g) => gens[g].chat \in cs
  BY ActiveHolds
<1>6. Releases(cs)
  BY <1>2, <1>3, <1>4, <1>5 DEF Releases, SameTurn, Restart
<1>7. QED
  BY <1>6 DEF Shapes

LEMMA StepShape ==
  ASSUME TypeInv, TablesInv, [Next]_vars
  PROVE  Shapes
<1>1. ASSUME NEW c \in Chats, NEW t \in Tomos, ConsumeStartToken(c, t) PROVE Untouched
  BY <1>1, UnchangedShape DEF ConsumeStartToken
<1>2. ASSUME NEW m \in Updates, Redelivered(m) PROVE Untouched
  BY <1>2, UnchangedShape DEF Redelivered, vars
<1>3. ASSUME NEW m \in Updates, EnqueueControl(m) PROVE Untouched
  <2>1. \A n \in Updates : inbox[n] \in InboxRow
    BY Columns
  <2>2. inbox[m].status = "none" /\ inbox' = [inbox EXCEPT ![m].status = "control"]
        /\ UNCHANGED <<turn, gens, made>>
    BY <1>3 DEF EnqueueControl
  <2>3. \A n \in Updates :
          /\ inbox'[n].burst = inbox[n].burst
          /\ \/ inbox'[n].status = inbox[n].status
             \/ inbox[n].status = "none" /\ inbox'[n].status = "control"
    BY <2>1, <2>2 DEF InboxRow, TypeInv, TypeOK
  <2>4. QED
    BY <2>2, <2>3 DEF Untouched, SameRow, SameTurn
<1>4. ASSUME NEW c \in Chats, QuietElapses(c) PROVE Untouched
  <2>1. turn[c] \in TurnRow /\ turn' = [turn EXCEPT ![c].waiting = FALSE]
        /\ UNCHANGED <<inbox, gens, made>>
    BY <1>4, Columns DEF QuietElapses
  <2>2. \A d \in Chats : SameTurn(d)
    BY <2>1 DEF SameTurn, TurnRow, TypeInv, TypeOK
  <2>3. QED
    BY <2>1, <2>2 DEF Untouched, SameRow
<1>5. ASSUME NEW p \in Procs, TurnStep(p) PROVE Shapes
  <2>1. CASE BeginTurn(p) \/ TurnFails(p) \/ \E ahead \in 0..1 : StaleEvent(p, ahead)
    BY <2>1, UnchangedShape DEF BeginTurn, TurnFails, StaleEvent, Shapes
  <2>2. QED
    BY <1>5, <2>1, EndTurnShape, FailGenerationShape DEF TurnStep
<1>6. ASSUME NEW w \in Workers, DeliveryStep(w) PROVE Untouched
  BY <1>6, UnchangedShape DEF DeliveryStep, ReserveDelivery, RecheckDelivery, TelegramAccepts,
     MarkSent, SendRaises, RecordDelivery
<1>7. CASE UNCHANGED vars
  BY <1>7, UnchangedShape DEF vars, Shapes
<1>8. QED
  BY <1>1, <1>2, <1>3, <1>4, <1>5, <1>6, <1>7, EnqueueMessageShape, ClaimNextWorkShape,
     ReserveAutomationShape, RestartShape DEF Next, Shapes

-----------------------------------------------------------------------------
(* Each shape keeps the invariant *)

LEMMA UntouchedKeeps ==
  ASSUME TypeInv, TypeInv', TablesInv, Untouched
  PROVE  TablesInv'
<1>1. \A c \in Chats : Open(c)' = Open(c)
  BY DEF Open, Untouched, SameTurn
<1>2. BurstOfItsChat' /\ NoRowBeyondMade' /\ BurstOnlyOfQueued'
  BY DEF TablesInv, BurstOfItsChat, NoRowBeyondMade, BurstOnlyOfQueued, Untouched, SameTurn
<1>3. RevisionsBelowTurn' /\ RevisionsGrow'
  BY Columns DEF TablesInv, RevisionsBelowTurn, RevisionsGrow, Untouched, SameTurn, SameRow
<1>4. TurnNamesActive'
  BY Columns DEF TablesInv, TurnNamesActive, IsGenerationActive, Untouched, SameTurn, SameRow
<1>5. NoMessageStranded'
  BY <1>1, Columns DEF TablesInv, NoMessageStranded, Untouched, SameTurn
<1>6. OwnerSawEverything'
  BY <1>1, Columns DEF TablesInv, OwnerSawEverything, Untouched, SameRow, SameTurn
<1>7. QED
  BY <1>2, <1>3, <1>4, <1>5, <1>6 DEF TablesInv

LEMMA AcceptsKeeps ==
  ASSUME TypeInv, TypeInv', TablesInv, NEW m \in Updates, Accepts(m)
  PROVE  TablesInv'
<1> DEFINE c == ChatOf[m]
<1>1. /\ c \in Chats /\ turn'[c].active = NoGen
      /\ turn'[c].burst = IF turn[c].burst = NoBurst THEN m ELSE turn[c].burst
      /\ turn'[c].burst # NoBurst
      /\ \A d \in Chats \ {c} : SameTurn(d)
  BY Columns DEF Accepts
<1>2. \A g \in Gens :
        /\ SameRow(g)
        /\ gens'[g].status = IF g = turn[c].active THEN "superseded" ELSE gens[g].status
  BY DEF Accepts
<1>3. \A g \in Gens : IsGenerationActive(g)' <=> IsGenerationActive(g) /\ gens[g].chat # c
  <2> TAKE g \in Gens
  <2>1. IsGenerationActive(g) /\ gens[g].chat = c => turn[c].active = g
    BY ActiveHolds
  <2>2. g = turn[c].active => gens[g].chat = c
    BY <1>1, Columns DEF TablesInv, TurnNamesActive
  <2>3. QED
    BY <1>2, <2>1, <2>2 DEF IsGenerationActive
<1>4. \A d \in Chats \ {c} : Open(d)' = Open(d)
  BY <1>1 DEF Open, Accepts, SameTurn
<1>5. BurstOfItsChat'
  BY <1>1 DEF TablesInv, BurstOfItsChat, SameTurn
<1>6. NoRowBeyondMade'
  <2>1. turn[c].active \in Gens => gens[turn[c].active].status = "active"
    BY <1>1, Columns DEF TablesInv, TurnNamesActive
  <2>2. QED
    BY <1>2, <2>1 DEF TablesInv, NoRowBeyondMade, Accepts
<1>7. BurstOnlyOfQueued'
  BY DEF TablesInv, BurstOnlyOfQueued, Accepts
<1>8. RevisionsBelowTurn'
  <2> SUFFICES ASSUME NEW g \in Gens, g <= made
               PROVE  LET d == gens'[g].chat IN
                      /\ gens'[g].revision <= turn'[d].revision
                      /\ (turn'[d].active = NoGen /\ turn'[d].burst # NoBurst)
                            => gens'[g].revision < turn'[d].revision
    BY DEF RevisionsBelowTurn, Accepts
  <2>1. gens'[g].chat = gens[g].chat /\ gens'[g].revision = gens[g].revision
        /\ gens[g].chat \in Chats /\ gens[g].revision \in Nat
    BY <1>2, Columns DEF SameRow
  <2>2. CASE gens[g].chat = c
    <3>1. gens[g].revision < turn'[c].revision /\ turn'[c].revision \in Nat
      <4>1. turn'[c].revision \in Nat
        BY <1>1 DEF TypeInv, TypeOK, TurnRow
      <4>2. QED
        BY <2>2, <4>1 DEF Accepts, Fresh
    <3>2. QED
      BY <2>1, <2>2, <3>1
  <2>3. CASE gens[g].chat # c
    BY <1>1, <2>1, <2>3 DEF TablesInv, RevisionsBelowTurn, SameTurn
  <2>4. QED
    BY <2>2, <2>3
<1>9. RevisionsGrow'
  BY <1>2 DEF TablesInv, RevisionsGrow, SameRow, Accepts
<1>10. TurnNamesActive'
  <2>1. ASSUME NEW d \in Chats, turn'[d].active # NoGen
        PROVE  LET g == turn'[d].active IN
               /\ gens'[g].status = "active" /\ gens'[g].chat = d
               /\ gens'[g].burst = turn'[d].burst /\ gens'[g].revision = turn'[d].revision
    <3>1. d # c /\ SameTurn(d) /\ turn[d].active \in Gens
      BY <1>1, <2>1, Columns DEF SameTurn
    <3>2. LET g == turn[d].active IN
          /\ IsGenerationActive(g) /\ gens[g].chat = d
          /\ gens[g].burst = turn[d].burst /\ gens[g].revision = turn[d].revision
      BY <3>1, Columns DEF TablesInv, TurnNamesActive, IsGenerationActive
    <3>3. QED
      BY <1>2, <1>3, <3>1, <3>2 DEF SameTurn, SameRow, IsGenerationActive
  <2>2. ASSUME NEW g \in Gens, IsGenerationActive(g)' PROVE turn'[gens'[g].chat].active = g
    BY <1>1, <1>2, <1>3, <2>2, ActiveHolds DEF SameRow, SameTurn
  <2>3. QED
    BY <2>1, <2>2 DEF TurnNamesActive
<1>11. NoMessageStranded'
  <2>1. ASSUME NEW n \in Updates, inbox'[n].status = "pending"
        PROVE  inbox'[n].burst # NoBurst /\ inbox'[n].burst = turn'[ChatOf[n]].burst
    <3>1. CASE n = m
      BY <1>1, <3>1 DEF Accepts
    <3>2. CASE n # m
      <4>1. inbox[n].status = "pending" /\ inbox'[n].burst = inbox[n].burst
        BY <2>1, <3>2 DEF Accepts
      <4>2. inbox[n].burst # NoBurst /\ inbox[n].burst = turn[ChatOf[n]].burst /\ ChatOf[n] \in Chats
        BY <4>1, Columns DEF TablesInv, NoMessageStranded
      <4>3. QED
        BY <1>1, <4>1, <4>2 DEF SameTurn
    <3>3. QED
      BY <3>1, <3>2
  <2>2. ASSUME NEW d \in Chats, turn'[d].burst # NoBurst PROVE Open(d)' # {}
    <3>1. CASE d = c
      BY <3>1 DEF Open, Accepts
    <3>2. CASE d # c
      BY <1>1, <1>4, <2>2, <3>2 DEF SameTurn, TablesInv, NoMessageStranded
    <3>3. QED
      BY <3>1, <3>2
  <2>3. QED
    BY <2>1, <2>2 DEF NoMessageStranded
<1>12. OwnerSawEverything'
  <2> SUFFICES ASSUME NEW d \in Chats, turn'[d].active # NoGen
               PROVE  gens'[turn'[d].active].inputs = Open(d)'
    BY DEF OwnerSawEverything
  <2>1. d # c /\ SameTurn(d) /\ turn[d].active \in Gens /\ SameRow(turn[d].active)
    BY <1>1, <1>2, Columns DEF SameTurn
  <2>2. QED
    BY <1>4, <2>1, Columns DEF TablesInv, OwnerSawEverything, SameRow, SameTurn
<1>13. QED
  BY <1>5, <1>6, <1>7, <1>8, <1>9, <1>10, <1>11, <1>12 DEF TablesInv

LEMMA StartsKeeps ==
  ASSUME TypeInv, TypeInv', TablesInv, NEW c \in Chats, Starts(c)
  PROVE  TablesInv'
<1> DEFINE g == made + 1
<1>1. /\ g \in Gens /\ made' = g /\ inbox' = inbox
      /\ turn[c].active = NoGen /\ turn'[c].active = g /\ turn'[c].burst = turn[c].burst
      /\ \A d \in Chats \ {c} : SameTurn(d)
      /\ gens'[g].status = "active" /\ gens'[g].chat = c /\ gens'[g].burst = turn[c].burst
      /\ gens'[g].revision = turn'[c].revision /\ gens'[g].inputs = Open(c)
      /\ \A h \in Gens \ {g} : gens'[h] = gens[h]
  BY DEF Starts
<1>2. \A d \in Chats : turn'[d].burst = turn[d].burst /\ Open(d)' = Open(d)
  BY <1>1 DEF SameTurn, Open
<1>3. ~IsGenerationActive(g) /\ \A d \in Chats : turn[d].active # g
  <2>1. gens[g].status = "none"
    BY <1>1, Columns DEF TablesInv, NoRowBeyondMade
  <2>2. QED
    BY <1>1, <2>1, Columns DEF IsGenerationActive, TablesInv, TurnNamesActive
<1>4. \A h \in Gens \ {g} : IsGenerationActive(h) => gens[h].chat # c
  BY <1>1, ActiveHolds, Columns
<1>5. BurstOfItsChat' /\ BurstOnlyOfQueued'
  BY <1>1, <1>2 DEF TablesInv, BurstOfItsChat, BurstOnlyOfQueued
<1>6. NoRowBeyondMade'
  <2> SUFFICES ASSUME NEW h \in Gens PROVE gens'[h].status = "none" <=> h > made'
    BY DEF NoRowBeyondMade
  <2>1. CASE h = g
    BY <1>1, <2>1, Columns
  <2>2. CASE h # g
    BY <1>1, <2>2, Columns DEF TablesInv, NoRowBeyondMade
  <2>3. QED
    BY <2>1, <2>2
<1>7. turn'[c].revision \in Nat /\ \A h \in Gens : gens'[h].revision \in Nat
  BY <1>1 DEF TypeInv, TypeOK, TurnRow, GenRow
<1>8. RevisionsBelowTurn'
  <2> SUFFICES ASSUME NEW h \in Gens, h <= made'
               PROVE  LET d == gens'[h].chat IN
                      /\ gens'[h].revision <= turn'[d].revision
                      /\ (turn'[d].active = NoGen /\ turn'[d].burst # NoBurst)
                            => gens'[h].revision < turn'[d].revision
    BY DEF RevisionsBelowTurn
  <2>1. CASE h = g
    BY <1>1, <1>7, <2>1, Columns
  <2>2. CASE h # g /\ gens[h].chat = c
    <3>1. gens'[h] = gens[h] /\ gens[h].revision < turn'[c].revision
      BY <1>1, <2>2, Columns DEF Starts, Fresh
    <3>2. QED
      BY <1>7, <2>2, <3>1
  <2>3. CASE h # g /\ gens[h].chat # c
    <3>1. gens'[h] = gens[h] /\ SameTurn(gens[h].chat) /\ h <= made
      BY <1>1, <2>3, Columns
    <3>2. QED
      BY <2>3, <3>1 DEF TablesInv, RevisionsBelowTurn, SameTurn
  <2>4. QED
    BY <2>1, <2>2, <2>3
<1>9. RevisionsGrow'
  <2> SUFFICES ASSUME NEW h \in Gens, NEW k \in Gens, h < k, k <= made', gens'[h].chat = gens'[k].chat
               PROVE  gens'[h].revision < gens'[k].revision
    BY DEF RevisionsGrow
  <2>1. CASE k = g
    <3>1. h # g /\ gens'[h] = gens[h] /\ h <= made /\ gens[h].chat = c
      BY <1>1, <2>1, Columns
    <3>2. QED
      BY <1>1, <2>1, <3>1 DEF Starts, Fresh
  <2>2. CASE k # g
    <3>1. h # g /\ gens'[h] = gens[h] /\ gens'[k] = gens[k] /\ k <= made
      BY <1>1, <2>2, Columns
    <3>2. QED
      BY <3>1 DEF TablesInv, RevisionsGrow
  <2>3. QED
    BY <2>1, <2>2
<1>10. TurnNamesActive'
  <2>1. ASSUME NEW d \in Chats, turn'[d].active # NoGen
        PROVE  LET h == turn'[d].active IN
               /\ gens'[h].status = "active" /\ gens'[h].chat = d
               /\ gens'[h].burst = turn'[d].burst /\ gens'[h].revision = turn'[d].revision
    <3>1. CASE d = c
      BY <1>1, <3>1
    <3>2. CASE d # c
      <4>1. SameTurn(d) /\ turn[d].active \in Gens \ {g}
        BY <1>1, <1>3, <2>1, <3>2, Columns DEF SameTurn
      <4>2. QED
        BY <1>1, <4>1, Columns DEF SameTurn, TablesInv, TurnNamesActive
    <3>3. QED
      BY <3>1, <3>2
  <2>2. ASSUME NEW h \in Gens, IsGenerationActive(h)' PROVE turn'[gens'[h].chat].active = h
    <3>1. CASE h = g
      BY <1>1, <3>1
    <3>2. CASE h # g
      <4>1. gens'[h] = gens[h] /\ IsGenerationActive(h)
        BY <1>1, <2>2, <3>2 DEF IsGenerationActive
      <4>2. QED
        BY <1>1, <1>4, <3>2, <4>1, ActiveHolds DEF SameTurn
    <3>3. QED
      BY <3>1, <3>2
  <2>3. QED
    BY <2>1, <2>2 DEF TurnNamesActive
<1>11. NoMessageStranded'
  BY <1>1, <1>2, Columns DEF TablesInv, NoMessageStranded
<1>12. OwnerSawEverything'
  <2> SUFFICES ASSUME NEW d \in Chats, turn'[d].active # NoGen
               PROVE  gens'[turn'[d].active].inputs = Open(d)'
    BY DEF OwnerSawEverything
  <2>1. CASE d = c
    BY <1>1, <1>2, <2>1
  <2>2. CASE d # c
    <3>1. turn'[d].active = turn[d].active /\ turn[d].active \in Gens \ {g}
      BY <1>1, <1>3, <2>2, Columns DEF SameTurn
    <3>2. QED
      BY <1>1, <1>2, <3>1, Columns DEF TablesInv, OwnerSawEverything
  <2>3. QED
    BY <2>1, <2>2
<1>13. QED
  BY <1>5, <1>6, <1>8, <1>9, <1>10, <1>11, <1>12 DEF TablesInv

\* Closing the burst of a chat completes exactly the chat's open rows.
LEMMA CloseIsOpen ==
  ASSUME TypeInv, TablesInv, NEW c \in Chats, NEW m \in Updates
  PROVE  /\ Close(turn[c].burst)[m].burst = inbox[m].burst
         /\ Close(turn[c].burst)[m].status =
              IF m \in Open(c) THEN "completed" ELSE inbox[m].status
<1> DEFINE b == turn[c].burst
<1>1. /\ inbox[m] \in InboxRow
      /\ inbox[m].burst \in Updates \cup {NoBurst} /\ ChatOf[m] \in Chats
      /\ inbox[m].status \in {"none", "pending", "completed", "control"}
  BY Columns
<1>2. Close(b)[m] = IF b # NoBurst /\ inbox[m].burst = b
                    THEN [inbox[m] EXCEPT !.status = "completed"] ELSE inbox[m]
  BY DEF Close
<1>3. /\ Close(b)[m].burst = inbox[m].burst
      /\ Close(b)[m].status = IF b # NoBurst /\ inbox[m].burst = b
                              THEN "completed" ELSE inbox[m].status
  BY <1>1, <1>2 DEF InboxRow
<1>4. m \in Open(c) => b # NoBurst /\ inbox[m].burst = b
  BY DEF Open, TablesInv, NoMessageStranded
<1>5. (b # NoBurst /\ inbox[m].burst = b) => (m \in Open(c) \/ inbox[m].status = "completed")
  <2> SUFFICES ASSUME b # NoBurst, inbox[m].burst = b, inbox[m].status = "pending"
               PROVE  ChatOf[m] = c
    BY <1>1 DEF Open, TablesInv, BurstOnlyOfQueued
  <2>1. turn[ChatOf[m]].burst = b
    BY DEF TablesInv, NoMessageStranded
  <2>2. QED
    BY <1>1, <2>1 DEF TablesInv, BurstOfItsChat
<1>6. QED
  BY <1>3, <1>4, <1>5

LEMMA SettlesKeeps ==
  ASSUME TypeInv, TypeInv', TablesInv, NEW c \in Chats, Settles(c)
  PROVE  TablesInv'
<1> DEFINE g == turn[c].active
<1>1. /\ g \in Gens /\ made' = made
      /\ gens'[g].status \in {"completed", "failed"}
      /\ turn'[c].active = NoGen /\ turn'[c].burst = NoBurst
      /\ turn'[c].revision = turn[c].revision
      /\ \A d \in Chats \ {c} : SameTurn(d)
      /\ \A h \in Gens : SameRow(h)
      /\ \A h \in Gens \ {g} : gens'[h].status = gens[h].status
  BY DEF Settles
<1>2. /\ IsGenerationActive(g) /\ gens[g].chat = c
      /\ \A h \in Gens \ {g} : IsGenerationActive(h) => gens[h].chat # c
  <2>1. IsGenerationActive(g) /\ gens[g].chat = c
    BY <1>1, Columns DEF TablesInv, TurnNamesActive, IsGenerationActive
  <2>2. QED
    BY <1>1, <2>1, ActiveHolds
<1>3. \A m \in Updates :
        /\ inbox'[m].burst = inbox[m].burst
        /\ inbox'[m].status = IF m \in Open(c) THEN "completed" ELSE inbox[m].status
  BY CloseIsOpen DEF Settles
<1>4. \A h \in Gens : IsGenerationActive(h)' => h # g /\ IsGenerationActive(h)
  BY <1>1 DEF IsGenerationActive
<1>5. \A d \in Chats \ {c} : Open(d)' = Open(d)
  BY <1>1, <1>3 DEF Open, SameTurn
<1>6. BurstOfItsChat' /\ BurstOnlyOfQueued'
  BY <1>1, <1>3 DEF TablesInv, BurstOfItsChat, BurstOnlyOfQueued, SameTurn
<1>7. NoRowBeyondMade'
  BY <1>1, <1>2 DEF TablesInv, NoRowBeyondMade, IsGenerationActive
<1>8. RevisionsBelowTurn'
  <2> SUFFICES ASSUME NEW h \in Gens, h <= made
               PROVE  LET d == gens'[h].chat IN
                      /\ gens'[h].revision <= turn'[d].revision
                      /\ (turn'[d].active = NoGen /\ turn'[d].burst # NoBurst)
                            => gens'[h].revision < turn'[d].revision
    BY <1>1 DEF RevisionsBelowTurn
  <2>1. gens'[h].chat = gens[h].chat /\ gens'[h].revision = gens[h].revision
        /\ gens[h].chat \in Chats
    BY <1>1, Columns DEF SameRow
  <2>2. QED
    BY <1>1, <2>1 DEF TablesInv, RevisionsBelowTurn, SameTurn
<1>9. RevisionsGrow'
  BY <1>1 DEF TablesInv, RevisionsGrow, SameRow
<1>10. TurnNamesActive'
  <2>1. ASSUME NEW d \in Chats, turn'[d].active # NoGen
        PROVE  LET h == turn'[d].active IN
               /\ gens'[h].status = "active" /\ gens'[h].chat = d
               /\ gens'[h].burst = turn'[d].burst /\ gens'[h].revision = turn'[d].revision
    <3>1. d # c /\ SameTurn(d) /\ turn[d].active \in Gens
      BY <1>1, <2>1, Columns DEF SameTurn
    <3>2. LET h == turn[d].active IN
          /\ IsGenerationActive(h) /\ gens[h].chat = d
          /\ gens[h].burst = turn[d].burst /\ gens[h].revision = turn[d].revision
      BY <3>1, Columns DEF TablesInv, TurnNamesActive, IsGenerationActive
    <3>3. turn[d].active # g
      BY <1>2, <3>1, <3>2
    <3>4. QED
      BY <1>1, <3>1, <3>2, <3>3 DEF SameTurn, SameRow, IsGenerationActive
  <2>2. ASSUME NEW h \in Gens, IsGenerationActive(h)' PROVE turn'[gens'[h].chat].active = h
    <3>1. h # g /\ IsGenerationActive(h) /\ gens[h].chat # c
      BY <1>2, <1>4, <2>2
    <3>2. QED
      BY <1>1, <3>1, ActiveHolds DEF SameRow, SameTurn
  <2>3. QED
    BY <2>1, <2>2 DEF TurnNamesActive
<1>11. NoMessageStranded'
  <2>1. ASSUME NEW n \in Updates, inbox'[n].status = "pending"
        PROVE  inbox'[n].burst # NoBurst /\ inbox'[n].burst = turn'[ChatOf[n]].burst
    <3>1. inbox[n].status = "pending" /\ n \notin Open(c) /\ inbox'[n].burst = inbox[n].burst
      BY <1>3, <2>1
    <3>2. inbox[n].burst # NoBurst /\ inbox[n].burst = turn[ChatOf[n]].burst /\ ChatOf[n] \in Chats
      BY <3>1, Columns DEF TablesInv, NoMessageStranded
    <3>3. ChatOf[n] # c
      BY <3>1, <3>2 DEF Open
    <3>4. QED
      BY <1>1, <3>1, <3>2, <3>3 DEF SameTurn
  <2>2. ASSUME NEW d \in Chats, turn'[d].burst # NoBurst PROVE Open(d)' # {}
    BY <1>1, <1>5, <2>2 DEF SameTurn, TablesInv, NoMessageStranded
  <2>3. QED
    BY <2>1, <2>2 DEF NoMessageStranded
<1>12. OwnerSawEverything'
  <2> SUFFICES ASSUME NEW d \in Chats, turn'[d].active # NoGen
               PROVE  gens'[turn'[d].active].inputs = Open(d)'
    BY DEF OwnerSawEverything
  <2>1. d # c /\ SameTurn(d) /\ turn[d].active \in Gens /\ SameRow(turn[d].active)
    BY <1>1, Columns DEF SameTurn
  <2>2. QED
    BY <1>5, <2>1, Columns DEF TablesInv, OwnerSawEverything, SameRow, SameTurn
<1>13. QED
  BY <1>6, <1>7, <1>8, <1>9, <1>10, <1>11, <1>12 DEF TablesInv

LEMMA ReleasesKeeps ==
  ASSUME TypeInv, TypeInv', TablesInv, NEW cs \in SUBSET Chats, Releases(cs)
  PROVE  TablesInv'
<1>1. /\ inbox' = inbox /\ made' = made
      /\ \A c \in Chats \ cs : SameTurn(c)
      /\ \A c \in cs : /\ turn[c].active \in Gens /\ turn'[c].burst = turn[c].burst
                       /\ turn'[c].active = NoGen /\ turn[c].revision < turn'[c].revision
      /\ \A g \in Gens :
           /\ SameRow(g)
           /\ IF IsGenerationActive(g) /\ gens[g].chat \in cs
              THEN gens'[g].status \in {"superseded", "failed"}
              ELSE gens'[g].status = gens[g].status
  BY DEF Releases
<1>2. \A c \in Chats : turn'[c].burst = turn[c].burst /\ Open(c)' = Open(c)
  BY <1>1 DEF SameTurn, Open
<1>3. \A g \in Gens : IsGenerationActive(g)' => IsGenerationActive(g) /\ gens[g].chat \in Chats \ cs
  BY <1>1, Columns DEF IsGenerationActive
<1>4. BurstOfItsChat' /\ BurstOnlyOfQueued'
  BY <1>1, <1>2 DEF TablesInv, BurstOfItsChat, BurstOnlyOfQueued
<1>5. NoRowBeyondMade'
  BY <1>1 DEF TablesInv, NoRowBeyondMade, IsGenerationActive
<1>6. RevisionsBelowTurn'
  <2> SUFFICES ASSUME NEW g \in Gens, g <= made
               PROVE  LET d == gens'[g].chat IN
                      /\ gens'[g].revision <= turn'[d].revision
                      /\ (turn'[d].active = NoGen /\ turn'[d].burst # NoBurst)
                            => gens'[g].revision < turn'[d].revision
    BY <1>1 DEF RevisionsBelowTurn
  <2> DEFINE d == gens[g].chat
  <2>1. gens'[g].chat = d /\ gens'[g].revision = gens[g].revision /\ d \in Chats
        /\ gens[g].revision \in Nat /\ turn[d].revision \in Nat
    BY <1>1, Columns DEF SameRow
  <2>2. gens[g].revision <= turn[d].revision
        /\ ((turn[d].active = NoGen /\ turn[d].burst # NoBurst) => gens[g].revision < turn[d].revision)
    BY DEF TablesInv, RevisionsBelowTurn
  <2>3. CASE d \in cs
    <3>1. turn[d].revision < turn'[d].revision /\ turn'[d].revision \in Nat
      BY <1>1, <2>1, <2>3 DEF TypeInv, TypeOK, TurnRow
    <3>2. QED
      BY <2>1, <2>2, <3>1
  <2>4. CASE d \notin cs
    BY <1>1, <2>1, <2>2, <2>4 DEF SameTurn
  <2>5. QED
    BY <2>3, <2>4
<1>7. RevisionsGrow'
  BY <1>1 DEF TablesInv, RevisionsGrow, SameRow
<1>8. TurnNamesActive'
  <2>1. ASSUME NEW d \in Chats, turn'[d].active # NoGen
        PROVE  LET h == turn'[d].active IN
               /\ gens'[h].status = "active" /\ gens'[h].chat = d
               /\ gens'[h].burst = turn'[d].burst /\ gens'[h].revision = turn'[d].revision
    <3>1. d \notin cs /\ SameTurn(d) /\ turn[d].active \in Gens
      BY <1>1, <2>1, Columns DEF SameTurn
    <3>2. LET h == turn[d].active IN
          /\ IsGenerationActive(h) /\ gens[h].chat = d
          /\ gens[h].burst = turn[d].burst /\ gens[h].revision = turn[d].revision
      BY <3>1, Columns DEF TablesInv, TurnNamesActive, IsGenerationActive
    <3>3. QED
      BY <1>1, <3>1, <3>2 DEF SameTurn, SameRow, IsGenerationActive
  <2>2. ASSUME NEW h \in Gens, IsGenerationActive(h)' PROVE turn'[gens'[h].chat].active = h
    BY <1>1, <1>3, <2>2, ActiveHolds DEF SameRow, SameTurn
  <2>3. QED
    BY <2>1, <2>2 DEF TurnNamesActive
<1>9. NoMessageStranded'
  BY <1>1, <1>2, Columns DEF TablesInv, NoMessageStranded
<1>10. OwnerSawEverything'
  <2> SUFFICES ASSUME NEW d \in Chats, turn'[d].active # NoGen
               PROVE  gens'[turn'[d].active].inputs = Open(d)'
    BY DEF OwnerSawEverything
  <2>1. SameTurn(d) /\ turn[d].active \in Gens /\ SameRow(turn[d].active)
    BY <1>1, Columns DEF SameTurn
  <2>2. QED
    BY <1>2, <2>1, Columns DEF TablesInv, OwnerSawEverything, SameRow, SameTurn
<1>11. QED
  BY <1>4, <1>5, <1>6, <1>7, <1>8, <1>9, <1>10 DEF TablesInv

LEMMA InitTablesInv == Init => TablesInv
<1> SUFFICES ASSUME Init PROVE TablesInv
  OBVIOUS
<1>1. /\ \A c \in Chats : turn[c].burst = NoBurst /\ turn[c].active = NoGen
      /\ \A g \in Gens : gens[g].status = "none" /\ g > made
      /\ \A m \in Updates : inbox[m].status = "none" /\ inbox[m].burst = NoBurst
      /\ made = 0
  BY ConstantsAssumption DEF Init, NoTurn, NoGenRow, NoRow, Gens
<1>2. \A g \in Gens : ~(g <= made)
  BY <1>1 DEF Gens
<1>3. NoRowBeyondMade /\ RevisionsBelowTurn /\ RevisionsGrow
  BY <1>1, <1>2 DEF NoRowBeyondMade, RevisionsBelowTurn, RevisionsGrow
<1>4. TurnNamesActive /\ OwnerSawEverything
  BY <1>1 DEF TurnNamesActive, OwnerSawEverything, IsGenerationActive
<1>5. BurstOfItsChat /\ BurstOnlyOfQueued /\ NoMessageStranded
  BY <1>1 DEF BurstOfItsChat, BurstOnlyOfQueued, NoMessageStranded
<1>6. QED
  BY <1>3, <1>4, <1>5 DEF TablesInv

LEMMA StepTablesInv == TypeInv /\ TypeInv' /\ TablesInv /\ [Next]_vars => TablesInv'
BY StepShape, UntouchedKeeps, AcceptsKeeps, StartsKeeps, SettlesKeeps, ReleasesKeeps DEF Shapes

LEMMA TablesInvariant == Spec => []TablesInv
<1>1. QED
  BY InitTablesInv, StepTablesInv, TypeInvariant, PTL DEF Spec

-----------------------------------------------------------------------------
(* The theorems *)

\* In every reachable state the generations table and the turns table agree
\* about who owns a chat.
THEOREM TablesAgree == Spec => []TurnNamesActive
<1>1. TablesInv => TurnNamesActive
  BY DEF TablesInv
<1>2. QED
  BY TablesInvariant, <1>1, PTL

\* No accepted message is ever stranded outside the burst its chat will claim.
THEOREM NothingStranded == Spec => []NoMessageStranded
<1>1. TablesInv => NoMessageStranded
  BY DEF TablesInv
<1>2. QED
  BY TablesInvariant, <1>1, PTL

\* The turn that may finish a burst was given all of it.
THEOREM FinisherSawEverything == Spec => []OwnerSawEverything
<1>1. TablesInv => OwnerSawEverything
  BY DEF TablesInv
<1>2. QED
  BY TablesInvariant, <1>1, PTL

\* The revisions that the sandboxes fence on grow along a chat's generations.
THEOREM RevisionsIncrease == Spec => []RevisionsGrow
<1>1. TablesInv => RevisionsGrow
  BY DEF TablesInv
<1>2. QED
  BY TablesInvariant, <1>1, PTL

-----------------------------------------------------------------------------
(* The tables implement the ledger *)

LEMMA LedgerInit == Init => Ledger!Init
<1> SUFFICES ASSUME Init PROVE Ledger!Init
  OBVIOUS
<1>1. /\ \A c \in Chats : turn[c].active = NoGen
      /\ \A g \in Gens : gens[g].inputs = {}
      /\ \A m \in Updates : inbox[m].status = "none"
      /\ made = 0
  BY DEF Init, NoTurn, NoGenRow, NoRow
<1>2. 1..made = {}
  BY <1>1
<1>3. QED
  BY <1>1, <1>2 DEF Ledger!Init

Accepted == {m \in Updates : inbox[m].status \in {"pending", "completed"}}
Settled  == {m \in Updates : inbox[m].status = "completed"}
Holder   == [c \in Chats |-> turn[c].active]
Seen     == [g \in Gens |-> gens[g].inputs]

LEMMA UntouchedStutters ==
  ASSUME TypeInv, Untouched
  PROVE  Accepted' = Accepted /\ Settled' = Settled /\ Holder' = Holder /\ Seen' = Seen
         /\ (1..made)' = 1..made
<1>1. Accepted' = Accepted /\ Settled' = Settled
  BY DEF Accepted, Settled, Untouched
<1>2. Holder' = Holder
  BY DEF Holder, Untouched, SameTurn
<1>3. Seen' = Seen
  BY DEF Seen, Untouched, SameRow
<1>4. QED
  BY <1>1, <1>2, <1>3 DEF Untouched

LEMMA AcceptsIsAccept ==
  ASSUME TypeInv, NEW m \in Updates, Accepts(m)
  PROVE  Ledger!Accept(m)
<1>1. m \notin Accepted /\ Accepted' = Accepted \cup {m} /\ Settled' = Settled
  BY DEF Accepts, Accepted, Settled
<1>2. Holder' = [Holder EXCEPT ![ChatOf[m]] = NoGen]
  BY DEF Holder, Accepts, SameTurn
<1>3. Seen' = Seen
  BY DEF Seen, Accepts, SameRow
<1>4. (1..made)' = 1..made
  BY DEF Accepts
<1>5. QED
  BY <1>1, <1>2, <1>3, <1>4 DEF Ledger!Accept, Accepted, Settled, Holder, Seen

LEMMA StartsIsBegin ==
  ASSUME TypeInv, TablesInv, NEW c \in Chats, Starts(c), NEW t \in Gens, t = made + 1
  PROVE  Ledger!Begin(c, t)
<1>1. Holder[c] = NoGen /\ Holder' = [Holder EXCEPT ![c] = t]
  BY DEF Holder, Starts, SameTurn
<1>2. t \notin 1..made /\ (1..made)' = (1..made) \cup {t}
  BY Columns DEF Starts
<1>3. Ledger!Waiting(c) = Open(c)
  <2>1. Ledger!Waiting(c) = {m \in Updates : inbox[m].status = "pending" /\ ChatOf[m] = c}
    BY DEF Ledger!Waiting
  <2>2. QED
    BY <2>1 DEF Open, TablesInv, NoMessageStranded
<1>4. Seen' = [Seen EXCEPT ![t] = Open(c)]
  BY DEF Seen, Starts
<1>5. Accepted' = Accepted /\ Settled' = Settled
  BY DEF Accepted, Settled, Starts
<1>6. QED
  BY <1>1, <1>2, <1>3, <1>4, <1>5 DEF Ledger!Begin, Accepted, Settled, Holder, Seen

LEMMA SettlesIsSettle ==
  ASSUME TypeInv, TablesInv, NEW c \in Chats, Settles(c)
  PROVE  Ledger!Settle(c)
<1>1. Holder[c] # NoGen /\ Holder' = [Holder EXCEPT ![c] = NoGen]
  <2>1. turn[c].active # NoGen
    BY Columns DEF Settles
  <2>2. \A d \in Chats : turn'[d].active = IF d = c THEN NoGen ELSE turn[d].active
    BY DEF Settles, SameTurn
  <2>3. QED
    BY <2>1, <2>2 DEF Holder
<1>2. Seen' = Seen /\ (1..made)' = 1..made
  BY DEF Seen, Settles, SameRow
<1>3. Seen[Holder[c]] = Open(c)
  BY <1>1 DEF Seen, Holder, Settles, TablesInv, OwnerSawEverything
<1>4. \A m \in Updates :
        inbox'[m].status = IF m \in Open(c) THEN "completed" ELSE inbox[m].status
  BY CloseIsOpen DEF Settles
<1>5. \A m \in Updates : m \in Open(c) => inbox[m].status = "pending"
  BY DEF Open
<1>6. Settled' = Settled \cup Open(c) /\ Accepted' = Accepted
  <2>1. Open(c) \subseteq Updates
    BY DEF Open
  <2>2. QED
    BY <1>4, <1>5, <2>1 DEF Settled, Accepted
<1>7. QED
  BY <1>1, <1>2, <1>3, <1>6 DEF Ledger!Settle, Accepted, Settled, Holder, Seen

LEMMA ReleasesIsRelease ==
  ASSUME TypeInv, NEW cs \in SUBSET Chats, Releases(cs)
  PROVE  Ledger!Release(cs)
<1>1. Holder' = [c \in Chats |-> IF c \in cs THEN NoGen ELSE Holder[c]]
  BY DEF Holder, Releases, SameTurn
<1>2. Accepted' = Accepted /\ Settled' = Settled /\ (1..made)' = 1..made
  BY DEF Accepted, Settled, Releases
<1>3. Seen' = Seen
  BY DEF Seen, Releases, SameRow
<1>4. QED
  BY <1>1, <1>2, <1>3 DEF Ledger!Release, Accepted, Settled, Holder, Seen

LEMMA LedgerStep ==
  ASSUME TypeInv, TablesInv, [Next]_vars
  PROVE  [Ledger!Next]_Ledger!vars
<1>1. CASE Untouched
  BY <1>1, UntouchedStutters DEF Ledger!vars, Accepted, Settled, Holder, Seen
<1>2. ASSUME NEW m \in Updates, Accepts(m) PROVE Ledger!Next
  BY <1>2, AcceptsIsAccept DEF Ledger!Next
<1>3. ASSUME NEW c \in Chats, Starts(c) PROVE Ledger!Next
  <2>1. PICK t \in Gens : t = made + 1
    BY <1>3 DEF Starts
  <2>2. Ledger!Begin(c, t)
    BY <1>3, <2>1, StartsIsBegin
  <2>3. QED
    BY <2>2 DEF Ledger!Next
<1>4. ASSUME NEW c \in Chats, Settles(c) PROVE Ledger!Next
  BY <1>4, SettlesIsSettle DEF Ledger!Next
<1>5. ASSUME NEW cs \in SUBSET Chats, Releases(cs) PROVE Ledger!Next
  BY <1>5, ReleasesIsRelease DEF Ledger!Next
<1>6. QED
  BY StepShape, <1>1, <1>2, <1>3, <1>4, <1>5 DEF Shapes

\* The store implements the ledger: a message is settled only by the turn that
\* holds its chat and was started with it and with all the others waiting, and
\* a new message takes the chat from the turn that runs.
THEOREM ImplementsLedger == Spec => LedgerSpec
<1>1. Init => Ledger!Init
  BY LedgerInit
<1>2. TypeInv /\ TablesInv /\ [Next]_vars => [Ledger!Next]_Ledger!vars
  BY LedgerStep
<1>3. QED
  BY <1>1, <1>2, TypeInvariant, TablesInvariant, PTL DEF Spec, LedgerSpec, Ledger!Spec

-----------------------------------------------------------------------------
(* The bubbles: the inductive invariant *)

\* Two busy threads never work on the same generation.
OneGenerationEach ==
  \A p, q \in Procs :
    (work[p].pc # "idle" /\ work[q].pc # "idle" /\ p # q) => work[p].gen # work[q].gen

\* The bubble of a thread that is about to send it is reserved, and unseen.
SendingIsReserved ==
  \A p \in Procs :
    LET g == work[p].gen  f == work[p].next IN
    /\ work[p].pc \in {"reserved", "send"} =>
         f \in Frames /\ bubble[g][f] = "reserved" /\ screen[g][f] = 0
    /\ work[p].pc = "accepted" => f \in Frames

\* A bubble that was seen has a row, so it is never reserved again.
SeenHasRow ==
  \A g \in Gens, f \in Frames :
    screen[g][f] <= 1 /\ (screen[g][f] > 0 => bubble[g][f] # "none")

\* A generation with a late bubble has lost its chat and sends nothing more.
LateIsOver ==
  \A g \in Gens :
    /\ late[g] <= 1
    /\ late[g] > 0 => /\ g <= made
                      /\ ~IsGenerationActive(g)
                      /\ \A p \in Procs : work[p].pc = "send" => work[p].gen # g

BubblesInv == OneGenerationEach /\ SendingIsReserved /\ SeenHasRow /\ LateIsOver

LEMMA InitBubblesInv == Init => BubblesInv
<1> SUFFICES ASSUME Init PROVE BubblesInv
  OBVIOUS
<1>1. /\ \A p \in Procs : work[p].pc = "idle"
      /\ \A g \in Gens : late[g] = 0 /\ \A f \in Frames : screen[g][f] = 0
  BY DEF Init, Idle
<1>2. QED
  BY <1>1 DEF BubblesInv, OneGenerationEach, SendingIsReserved, SeenHasRow, LateIsOver

LEMMA StepOneGenerationEach ==
  ASSUME TypeInv, BubblesInv, [Next]_vars
  PROVE  OneGenerationEach'
<1> SUFFICES ASSUME NEW p \in Procs, NEW q \in Procs, p # q,
                    work'[p].pc # "idle", work'[q].pc # "idle"
             PROVE  work'[p].gen # work'[q].gen
  BY DEF OneGenerationEach
<1>1. ASSUME NEW r \in Procs, work[r].pc # "idle" PROVE work[r].gen # made + 1
  BY <1>1, WorkerGen, Columns
<1>2. CASE work'[p].gen = made + 1 /\ \A r \in Procs \ {p} : work'[r] = work[r]
  BY <1>1, <1>2
<1>3. CASE work'[q].gen = made + 1 /\ \A r \in Procs \ {q} : work'[r] = work[r]
  BY <1>1, <1>3
<1>4. CASE /\ work[p].pc # "idle" /\ work'[p].gen = work[p].gen
           /\ work[q].pc # "idle" /\ work'[q].gen = work[q].gen
  BY <1>4 DEF BubblesInv, OneGenerationEach
<1>5. QED
  BY BusyThread, <1>2, <1>3, <1>4

\* A generation never becomes active again.
LEMMA ActiveOnlyOnce ==
  ASSUME TypeInv, TablesInv, [Next]_vars, NEW g \in Gens, g <= made, ~IsGenerationActive(g)
  PROVE  ~IsGenerationActive(g)' /\ g <= made'
<1>1. CASE Untouched
  BY <1>1 DEF Untouched, IsGenerationActive
<1>2. ASSUME NEW m \in Updates, Accepts(m) PROVE ~IsGenerationActive(g)' /\ g <= made'
  BY <1>2 DEF Accepts, IsGenerationActive
<1>3. ASSUME NEW c \in Chats, Starts(c) PROVE ~IsGenerationActive(g)' /\ g <= made'
  BY <1>3, Columns DEF Starts, IsGenerationActive
<1>4. ASSUME NEW c \in Chats, Settles(c) PROVE ~IsGenerationActive(g)' /\ g <= made'
  BY <1>4 DEF Settles, IsGenerationActive
<1>5. ASSUME NEW cs \in SUBSET Chats, Releases(cs) PROVE ~IsGenerationActive(g)' /\ g <= made'
  BY <1>5 DEF Releases, IsGenerationActive
<1>6. QED
  BY StepShape, <1>1, <1>2, <1>3, <1>4, <1>5 DEF Shapes

-----------------------------------------------------------------------------
(* Steps that deliver nothing *)

\* The places of a thread that has a bubble in hand.
Delivering == {"reserved", "send", "accepted"}

\* No bubble moves, and no thread takes up a bubble or lets go of one.
NoDelivery ==
  /\ UNCHANGED <<bubble, screen, late>>
  /\ \A p \in Procs :
       work'[p] = work[p] \/ (work[p].pc \notin Delivering /\ work'[p].pc \notin Delivering)

LEMMA OtherStepsDeliverNothing ==
  ASSUME TypeInv, [Next]_vars, ~Restart, \A w \in Workers : ~DeliveryStep(w)
  PROVE  NoDelivery
<1>1. Scheduler \in Procs /\ Workers \subseteq Procs /\ work \in [Procs -> Work]
  BY DEF Procs, TypeInv, TypeOK
<1>2. ASSUME UNCHANGED <<bubble, screen, late, work>> PROVE NoDelivery
  BY <1>2 DEF NoDelivery
<1>3. ASSUME NEW q \in Procs, UNCHANGED <<bubble, screen, late>>,
             NEW row, work' = [work EXCEPT ![q] = row],
             work[q].pc \notin Delivering, row.pc \notin Delivering
      PROVE  NoDelivery
  BY <1>1, <1>3 DEF NoDelivery
<1>4. ASSUME NEW c \in Chats, NEW t \in Tomos, ConsumeStartToken(c, t) PROVE NoDelivery
  BY <1>2, <1>4 DEF ConsumeStartToken
<1>5. ASSUME NEW m \in Updates, Redelivered(m) \/ EnqueueControl(m) \/ EnqueueMessage(m)
      PROVE  NoDelivery
  BY <1>2, <1>5 DEF Redelivered, EnqueueControl, EnqueueMessage, vars
<1>6. ASSUME NEW c \in Chats, QuietElapses(c) PROVE NoDelivery
  BY <1>2, <1>6 DEF QuietElapses
<1>7. ASSUME NEW c \in Chats, ReserveAutomation(c) PROVE NoDelivery
  <2>1. PICK row : /\ work' = [work EXCEPT ![Scheduler] = row]
                   /\ row = [Idle EXCEPT !.gen = made + 1, !.pc = "waiting"]
    BY <1>7 DEF ReserveAutomation
  <2>2. row.pc = "waiting" /\ work[Scheduler].pc = "idle"
    BY <1>7, <2>1 DEF Idle, ReserveAutomation
  <2>3. QED
    BY <1>1, <1>3, <1>7, <2>1, <2>2 DEF ReserveAutomation, Delivering
<1>8. ASSUME NEW w \in Workers, NEW c \in Chats, ClaimNextWork(w, c) PROVE NoDelivery
  <2>1. PICK s, row : /\ work' = [work EXCEPT ![w] = row]
                      /\ row = [Idle EXCEPT !.gen = made + 1, !.pc = s]
                      /\ s \in {"waiting", "failing"}
    BY Zenon, <1>8 DEF ClaimNextWork
  <2>2. row.pc = s /\ work[w].pc = "idle"
    BY <1>8, <2>1 DEF Idle, ClaimNextWork
  <2>3. QED
    BY <1>1, <1>3, <1>8, <2>1, <2>2 DEF ClaimNextWork, Delivering
<1>9. ASSUME NEW p \in Procs, TurnStep(p) PROVE NoDelivery
  <2>1. work[p] \in [pc : Pc, gen : Gens \cup {NoGen}, next : Nat, floor : Nat]
    BY <1>1 DEF Work
  <2>2. PICK row : work' = [work EXCEPT ![p] = row] /\ UNCHANGED <<bubble, screen, late>>
                   /\ work[p].pc \notin Delivering /\ row.pc \notin Delivering
    <3>1. CASE BeginTurn(p)
      <4>1. PICK row : /\ work' = [work EXCEPT ![p] = row]
                       /\ row = [work[p] EXCEPT !.pc = "turn"] \/ row = Idle
                       /\ UNCHANGED <<bubble, screen, late>> /\ work[p].pc = "waiting"
        BY <3>1 DEF BeginTurn
      <4>2. Idle.pc = "idle" /\ [work[p] EXCEPT !.pc = "turn"].pc = "turn"
        BY <2>1 DEF Idle
      <4>3. QED
        BY <4>1, <4>2 DEF Delivering
    <3>2. CASE \E ahead \in 0..1 : StaleEvent(p, ahead)
      <4>1. PICK s, n : /\ work' = [work EXCEPT ![p] = [@ EXCEPT !.pc = s, !.floor = n]]
                        /\ s \in {"failing", "deferring"}
                        /\ UNCHANGED <<bubble, screen, late>> /\ work[p].pc = "turn"
        BY Zenon, <3>2 DEF StaleEvent
      <4>2. [work[p] EXCEPT !.pc = s, !.floor = n].pc = s
        BY <2>1
      <4>3. QED
        BY <4>1, <4>2 DEF Delivering
    <3>3. CASE TurnFails(p)
      <4>1. /\ work' = [work EXCEPT ![p] = [@ EXCEPT !.pc = "failing"]]
            /\ UNCHANGED <<bubble, screen, late>> /\ work[p].pc = "turn"
        BY <3>3 DEF TurnFails
      <4>2. [work[p] EXCEPT !.pc = "failing"].pc = "failing"
        BY <2>1
      <4>3. QED
        BY <4>1, <4>2 DEF Delivering
    <3>4. CASE EndTurn(p) \/ FailGeneration(p)
      BY <3>4 DEF EndTurn, FailGeneration, Idle, Delivering
    <3>5. QED
      BY <1>9, <3>1, <3>2, <3>3, <3>4 DEF TurnStep
  <2>3. QED
    BY <1>3, <2>2
<1>10. CASE UNCHANGED vars
  BY <1>2, <1>10 DEF vars
<1>11. QED
  BY <1>4, <1>5, <1>6, <1>7, <1>8, <1>9, <1>10 DEF Next

LEMMA NoDeliveryKeeps ==
  ASSUME TypeInv, TablesInv, BubblesInv, [Next]_vars, NoDelivery
  PROVE  SendingIsReserved' /\ SeenHasRow' /\ LateIsOver'
<1>1. SendingIsReserved' /\ SeenHasRow'
  BY DEF NoDelivery, Delivering, BubblesInv, SendingIsReserved, SeenHasRow
<1>2. LateIsOver'
  BY ActiveOnlyOnce DEF NoDelivery, Delivering, BubblesInv, LateIsOver
<1>3. QED
  BY <1>1, <1>2

LEMMA RestartKeeps ==
  ASSUME TypeInv, TablesInv, BubblesInv, Restart
  PROVE  SendingIsReserved' /\ SeenHasRow' /\ LateIsOver'
<1>1. /\ screen' = screen /\ late' = late
      /\ \A p \in Procs : work'[p].pc = "idle"
      /\ \A g \in Gens, f \in Frames : bubble[g][f] # "none" => bubble'[g][f] # "none"
  BY DEF Restart, Idle, Uncertain
<1>2. [Next]_vars
  BY DEF Next
<1>3. SendingIsReserved' /\ SeenHasRow'
  BY <1>1 DEF BubblesInv, SendingIsReserved, SeenHasRow
<1>4. LateIsOver'
  BY <1>1, <1>2, ActiveOnlyOnce DEF BubblesInv, LateIsOver
<1>5. QED
  BY <1>3, <1>4

-----------------------------------------------------------------------------
(* The stages of one bubble *)

\* A delivery step moves the worker w, and at most the bubble it is on.
Moves(w, pc, next) ==
  /\ work'[w].pc = pc
  /\ work'[w].gen = work[w].gen
  /\ work'[w].next = next
  /\ \A p \in Procs \ {w} : work'[p] = work[p]

LEMMA WorkerMoves ==
  ASSUME TypeInv, NEW w \in Workers, NEW s, NEW n
  PROVE  /\ work' = [work EXCEPT ![w].pc = s] => Moves(w, s, work[w].next)
         /\ work' = [work EXCEPT ![w] = [@ EXCEPT !.pc = s, !.next = n]] => Moves(w, s, n)
<1>1. w \in Procs /\ work[w] \in [pc : Pc, gen : Gens \cup {NoGen}, next : Nat, floor : Nat]
      /\ work \in [Procs -> Work]
  BY DEF Procs, TypeInv, TypeOK, Work
<1>2. ASSUME work' = [work EXCEPT ![w].pc = s] PROVE Moves(w, s, work[w].next)
  BY <1>1, <1>2 DEF Moves
<1>3. ASSUME work' = [work EXCEPT ![w] = [@ EXCEPT !.pc = s, !.next = n]] PROVE Moves(w, s, n)
  BY <1>1, <1>3 DEF Moves
<1>4. QED
  BY <1>2, <1>3

\* One row of the delivery table changes.
RowChanges(g, f, s) ==
  /\ f \in Frames => bubble'[g][f] = s
  /\ \A h \in Gens, k \in Frames : (h # g \/ k # f) => bubble'[h][k] = bubble[h][k]

LEMMA BubbleChanges ==
  ASSUME TypeInv, NEW g \in Gens, NEW f, NEW s, bubble' = [bubble EXCEPT ![g][f] = s]
  PROVE  RowChanges(g, f, s)
BY DEF TypeInv, TypeOK, RowChanges

LEMMA DeliveryKeeps ==
  ASSUME TypeInv, TablesInv, BubblesInv, NEW w \in Workers, DeliveryStep(w)
  PROVE  SendingIsReserved' /\ SeenHasRow' /\ LateIsOver'
<1> DEFINE g == work[w].gen
           f == work[w].next
<1>1. /\ w \in Procs /\ g \in Gens /\ g <= made /\ work[w].pc # "idle"
      /\ \A p \in Procs \ {w} : work[p].pc # "idle" => work[p].gen \in Gens \ {g}
  <2>1. w \in Procs /\ work[w].pc # "idle"
    BY DEF Procs, DeliveryStep, ReserveDelivery, RecheckDelivery, TelegramAccepts, MarkSent,
       SendRaises
  <2>2. QED
    BY <2>1, WorkerGen DEF BubblesInv, OneGenerationEach
<1>2. made' = made /\ \A h \in Gens : IsGenerationActive(h)' = IsGenerationActive(h)
  BY DEF DeliveryStep, ReserveDelivery, RecheckDelivery, TelegramAccepts, MarkSent, SendRaises,
     RecordDelivery, IsGenerationActive
<1>3. ASSUME Moves(w, "turn", f + 1), NEW s, s # "none", RowChanges(g, f, s),
             UNCHANGED <<screen, late>>
      PROVE  SendingIsReserved' /\ SeenHasRow' /\ LateIsOver'
  <2>1. SendingIsReserved'
    BY <1>1, <1>3 DEF Moves, RowChanges, BubblesInv, SendingIsReserved
  <2>2. SeenHasRow'
    BY <1>1, <1>3 DEF RowChanges, BubblesInv, SeenHasRow
  <2>3. LateIsOver'
    BY <1>1, <1>2, <1>3 DEF Moves, BubblesInv, LateIsOver
  <2>4. QED
    BY <2>1, <2>2, <2>3
<1>4. CASE ReserveDelivery(w)
  <2>1. /\ f \in Frames /\ bubble[g][f] = "none"
        /\ RowChanges(g, f, "reserved") /\ Moves(w, "reserved", f)
        /\ UNCHANGED <<screen, late>>
    BY Zenon, <1>1, <1>4, BubbleChanges, WorkerMoves DEF ReserveDelivery
  <2>2. screen[g][f] = 0
    BY <1>1, <2>1 DEF BubblesInv, SeenHasRow, TypeInv, TypeOK
  <2>3. SendingIsReserved'
    BY <1>1, <2>1, <2>2 DEF Moves, RowChanges, BubblesInv, SendingIsReserved
  <2>4. SeenHasRow'
    BY <1>1, <2>1 DEF RowChanges, BubblesInv, SeenHasRow
  <2>5. LateIsOver'
    BY <1>1, <1>2, <2>1 DEF Moves, BubblesInv, LateIsOver
  <2>6. QED
    BY <2>3, <2>4, <2>5
<1>5. CASE RecheckDelivery(w)
  <2>1. CASE IsGenerationActive(g)
    <3>1. work[w].pc = "reserved" /\ Moves(w, "send", f) /\ UNCHANGED <<bubble, screen, late>>
      BY Zenon, <1>5, <2>1, WorkerMoves DEF RecheckDelivery
    <3>2. SendingIsReserved' /\ SeenHasRow'
      BY <1>1, <3>1 DEF Moves, BubblesInv, SendingIsReserved, SeenHasRow
    <3>3. LateIsOver'
      BY <1>1, <1>2, <2>1, <3>1 DEF Moves, BubblesInv, LateIsOver
    <3>4. QED
      BY <3>2, <3>3
  <2>2. CASE ~IsGenerationActive(g)
    <3>1. /\ RowChanges(g, f, "suppressed") /\ Moves(w, "turn", f + 1)
          /\ UNCHANGED <<screen, late>>
      BY Zenon, <1>1, <1>5, <2>2, BubbleChanges, WorkerMoves DEF RecheckDelivery
    <3>2. QED
      BY SMTT(60), <3>1, <1>3
  <2>3. QED
    BY <2>1, <2>2
<1>6. CASE TelegramAccepts(w)
  <2>1. /\ work[w].pc = "send" /\ Moves(w, "accepted", f) /\ bubble' = bubble
        /\ screen' = [screen EXCEPT ![g][f] = @ + 1]
        /\ late' = [late EXCEPT ![g] = IF IsGenerationActive(g) THEN @ ELSE @ + 1]
    BY Zenon, <1>6, WorkerMoves DEF TelegramAccepts, IsGenerationActive
  <2>2. f \in Frames /\ bubble[g][f] = "reserved" /\ screen[g][f] = 0
    BY <1>1, <2>1 DEF BubblesInv, SendingIsReserved
  <2>3. /\ screen'[g][f] = 1
        /\ \A h \in Gens, k \in Frames : (h # g \/ k # f) => screen'[h][k] = screen[h][k]
    BY <1>1, <2>1, <2>2 DEF TypeInv, TypeOK
  <2>4. late[g] = 0
    BY <1>1, <2>1 DEF BubblesInv, LateIsOver, TypeInv, TypeOK
  <2>5. /\ late'[g] = IF IsGenerationActive(g) THEN 0 ELSE 1
        /\ \A h \in Gens \ {g} : late'[h] = late[h]
    BY <1>1, <2>1, <2>4 DEF TypeInv, TypeOK
  <2>6. SendingIsReserved'
    BY <1>1, <2>1, <2>2, <2>3 DEF Moves, BubblesInv, SendingIsReserved
  <2>7. SeenHasRow'
    BY <1>1, <2>1, <2>2, <2>3 DEF BubblesInv, SeenHasRow
  <2>8. LateIsOver'
    <3> SUFFICES ASSUME NEW h \in Gens
                 PROVE  /\ late'[h] <= 1
                        /\ late'[h] > 0 => /\ h <= made
                                           /\ ~IsGenerationActive(h)
                                           /\ \A p \in Procs : work'[p].pc = "send" => work'[p].gen # h
      BY <1>2 DEF LateIsOver
    <3>1. CASE h = g
      BY <1>1, <2>1, <2>5, <3>1 DEF Moves
    <3>2. CASE h # g
      BY <1>1, <2>1, <2>5, <3>2 DEF Moves, BubblesInv, LateIsOver
    <3>3. QED
      BY <3>1, <3>2
  <2>9. QED
    BY <2>6, <2>7, <2>8
<1>7. ASSUME NEW s, s # "none", RecordDelivery(w, s)
      PROVE  SendingIsReserved' /\ SeenHasRow' /\ LateIsOver'
  <2>1. RowChanges(g, f, s) /\ Moves(w, "turn", f + 1) /\ UNCHANGED <<screen, late>>
    BY Zenon, <1>1, <1>7, BubbleChanges, WorkerMoves DEF RecordDelivery
  <2>2. QED
    BY <2>1, <1>3, <1>7
<1>8. CASE MarkSent(w) \/ SendRaises(w)
  BY <1>7, <1>8 DEF MarkSent, SendRaises
<1>9. QED
  BY <1>4, <1>5, <1>6, <1>8 DEF DeliveryStep

LEMMA StepBubblesInv == TypeInv /\ TablesInv /\ BubblesInv /\ [Next]_vars => BubblesInv'
BY StepOneGenerationEach, OtherStepsDeliverNothing, NoDeliveryKeeps, RestartKeeps, DeliveryKeeps
DEF BubblesInv

LEMMA BubblesInvariant == Spec => []BubblesInv
<1>1. QED
  BY InitBubblesInv, StepBubblesInv, TypeInvariant, TablesInvariant, PTL DEF Spec

-----------------------------------------------------------------------------
(* What is on record: the inductive invariant *)

\* A generation that is not made yet has no bubbles.
UnmadeHasNone == \A g \in Gens, f \in Frames : g > made => bubble[g][f] = "none"

\* A bubble that was seen is never suppressed.
SeenIsKept ==
  \A g \in Gens, f \in Frames :
    screen[g][f] > 0 => bubble[g][f] \in {"reserved", "sent", "unknown"}

\* A generation has one reserved bubble at most, and while a thread works on the
\* generation it is the one in hand.
OneReserved ==
  \A g \in Gens, f \in Frames : bubble[g][f] = "reserved" =>
    /\ \A k \in Frames : bubble[g][k] = "reserved" => k = f
    /\ \A p \in Procs : work[p].pc # "idle" /\ work[p].gen = g =>
         work[p].pc \in Delivering /\ work[p].next = f

\* While the generation has its chat, there is such a thread.
ReservedIsInHand ==
  \A g \in Gens, f \in Frames : bubble[g][f] = "reserved" /\ IsGenerationActive(g) =>
    \E w \in Workers : work[w].pc \in Delivering /\ work[w].gen = g /\ work[w].next = f

\* The bubbles of h that the user sees, or will, though generation g is not told.
Sending(h, f) == \E w \in Workers : work[w].pc = "send" /\ work[w].gen = h /\ work[w].next = f

Exposed(g, h, f) == (screen[h][f] > 0 \/ Sending(h, f)) /\ <<h, f>> \notin gens[g].visible

OneExposed ==
  \A g, h \in Gens : IsGenerationActive(g) /\ h \in OfBurst(gens[g].burst) /\ h # g =>
    \A f, k \in Frames : Exposed(g, h, f) /\ Exposed(g, h, k) => f = k

RecordInv == UnmadeHasNone /\ SeenIsKept /\ OneReserved /\ ReservedIsInHand /\ OneExposed

LEMMA InitRecordInv == Init => RecordInv
<1> SUFFICES ASSUME Init PROVE RecordInv
  OBVIOUS
<1>1. /\ \A g \in Gens : ~IsGenerationActive(g)
      /\ \A g \in Gens, f \in Frames : bubble[g][f] = "none" /\ screen[g][f] = 0
  BY DEF Init, NoGenRow, IsGenerationActive
<1>2. QED
  BY <1>1 DEF RecordInv, UnmadeHasNone, SeenIsKept, OneReserved, ReservedIsInHand, OneExposed

\* No other generation of a burst is active beside the one that holds the chat.
LEMMA ActiveIsAlone ==
  ASSUME TypeInv, TablesInv, NEW g \in Gens, NEW h \in Gens, h # g,
         IsGenerationActive(g), h \in OfBurst(gens[g].burst)
  PROVE  ~IsGenerationActive(h)
<1> SUFFICES ASSUME IsGenerationActive(h) PROVE FALSE
  OBVIOUS
<1> DEFINE c == gens[g].chat
           d == gens[h].chat
<1>1. c \in Chats /\ d \in Chats /\ turn[c].active = g /\ turn[d].active = h
  BY Columns DEF TablesInv, TurnNamesActive
<1>2. /\ g # NoGen /\ h # NoGen
      /\ gens[g].burst # NoBurst /\ gens[h].burst = gens[g].burst
  BY Columns DEF OfBurst, NoGen
<1>3. turn[c].burst = gens[g].burst /\ turn[d].burst = gens[h].burst
  BY <1>1, <1>2 DEF TablesInv, TurnNamesActive
<1>4. c = d
  BY <1>1, <1>2, <1>3 DEF TablesInv, BurstOfItsChat
<1>5. QED
  BY <1>1, <1>4

\* What a step does to a row of the generations: it is as it was, but for its
\* status, or it is the newest, with what its burst has shown so far.
LEMMA OldOrNew ==
  ASSUME TypeInv, TablesInv, [Next]_vars, NEW g \in Gens
  PROVE  /\ made' \in Nat /\ made <= made' /\ made' <= made + 1
         /\ g <= made => SameRow(g) /\ gens[g].status # "none"
         /\ IsGenerationActive(g)' =>
              \/ IsGenerationActive(g) /\ g <= made
              \/ /\ g = made + 1
                 /\ gens'[g].burst # NoBurst => gens'[g].visible = VisibleText(gens'[g].burst)
<1>1. /\ made \in Nat /\ (IsGenerationActive(g) => g <= made)
      /\ g <= made => gens[g].status # "none"
  BY Columns DEF TablesInv, NoRowBeyondMade, IsGenerationActive
<1>2. CASE Untouched
  BY <1>1, <1>2 DEF Untouched, IsGenerationActive
<1>3. CASE \E m \in Updates : Accepts(m)
  BY <1>1, <1>3 DEF Accepts, IsGenerationActive
<1>4. CASE \E c \in Chats : Starts(c)
  <2>1. PICK c \in Chats : Starts(c)
    BY <1>4
  <2>2. made' = made + 1 /\ \A h \in Gens : h # made + 1 => gens'[h] = gens[h]
    BY <2>1 DEF Starts
  <2>3. CASE g = made + 1
    BY <1>1, <2>1, <2>3 DEF Starts
  <2>4. CASE g # made + 1
    BY <1>1, <2>2, <2>4 DEF SameRow, IsGenerationActive
  <2>5. QED
    BY <2>3, <2>4
<1>5. CASE \E c \in Chats : Settles(c)
  BY <1>1, <1>5 DEF Settles, IsGenerationActive
<1>6. CASE \E cs \in SUBSET Chats : Releases(cs)
  BY <1>1, <1>6 DEF Releases, IsGenerationActive
<1>7. QED
  BY StepShape, <1>2, <1>3, <1>4, <1>5, <1>6 DEF Shapes

-----------------------------------------------------------------------------
(* The record under a step that delivers nothing *)

LEMMA QuietRecord ==
  ASSUME TypeInv, TablesInv, BubblesInv, RecordInv, [Next]_vars, NoDelivery
  PROVE  UnmadeHasNone' /\ SeenIsKept' /\ OneReserved' /\ ReservedIsInHand'
<1>1. UNCHANGED <<bubble, screen>>
  BY DEF NoDelivery
<1>2. UnmadeHasNone' /\ SeenIsKept'
  <2>1. \A g \in Gens : g > made' => g > made
    BY OldOrNew, Columns
  <2>2. QED
    BY <1>1, <2>1 DEF RecordInv, UnmadeHasNone, SeenIsKept
<1>3. ASSUME NEW g \in Gens, NEW f \in Frames, bubble[g][f] = "reserved"
      PROVE  g <= made /\ g # made + 1 /\ g \in Nat /\ made \in Nat
  BY <1>3, Columns DEF RecordInv, UnmadeHasNone
<1>4. ASSUME NEW g \in Gens, NEW f \in Frames, bubble[g][f] = "reserved",
             NEW p \in Procs, work'[p].pc # "idle", work'[p].gen = g
      PROVE  work'[p].pc \in Delivering /\ work'[p].next = f
  <2>1. work[p].pc # "idle" /\ work[p].gen = g
    BY <1>3, <1>4, BusyThread
  <2>2. work[p].pc \in Delivering /\ work[p].next = f
    BY <1>4, <2>1 DEF RecordInv, OneReserved
  <2>3. work'[p] = work[p]
    BY <2>2 DEF NoDelivery
  <2>4. QED
    BY <2>2, <2>3
<1>5. OneReserved'
  BY <1>1, <1>4 DEF OneReserved, RecordInv
<1>6. ASSUME NEW g \in Gens, NEW f \in Frames, bubble[g][f] = "reserved", IsGenerationActive(g)'
      PROVE  \E w \in Workers : work'[w].pc \in Delivering /\ work'[w].gen = g /\ work'[w].next = f
  <2>1. IsGenerationActive(g)
    BY <1>3, <1>6, OldOrNew
  <2>2. PICK w \in Workers : work[w].pc \in Delivering /\ work[w].gen = g /\ work[w].next = f
    BY <1>6, <2>1 DEF RecordInv, ReservedIsInHand
  <2>3. work'[w] = work[w]
    BY <2>2 DEF NoDelivery, Procs
  <2>4. QED
    BY <2>2, <2>3
<1>7. ReservedIsInHand'
  BY <1>1, <1>6 DEF ReservedIsInHand
<1>8. QED
  BY <1>2, <1>5, <1>7

\* The exposed bubble of h, of the generation that takes its place.
LEMMA ExposedIsReserved ==
  ASSUME BubblesInv, RecordInv, NEW h \in Gens, NEW f \in Frames,
         screen[h][f] > 0 \/ Sending(h, f), bubble[h][f] \notin {"sent", "unknown"}
  PROVE  bubble[h][f] = "reserved"
<1>1. CASE screen[h][f] > 0
  BY <1>1 DEF RecordInv, SeenIsKept
<1>2. CASE Sending(h, f)
  <2>1. PICK w \in Workers : work[w].pc = "send" /\ work[w].gen = h /\ work[w].next = f
    BY <1>2 DEF Sending
  <2>2. w \in Procs
    BY DEF Procs
  <2>3. QED
    BY <2>1, <2>2 DEF BubblesInv, SendingIsReserved
<1>3. QED
  BY <1>1, <1>2

\* The newest generation is of another burst than one that keeps its chat.
LEMMA NewestIsOther ==
  ASSUME TypeInv, TablesInv, [Next]_vars, NEW g \in Gens, NEW h \in Gens, h = made + 1,
         IsGenerationActive(g), g <= made, gens'[h].status # "none", gens'[h].burst # NoBurst
  PROVE  gens'[h].burst # gens[g].burst \/ made' = made
<1>1. CASE \E c \in Chats : Starts(c)
  <2>1. PICK c \in Chats : Starts(c)
    BY <1>1
  <2>2. gens'[h].burst = turn[c].burst /\ turn[c].active = NoGen
    BY <2>1 DEF Starts
  <2>3. turn[gens[g].chat].active = g /\ gens[g].chat \in Chats /\ g # NoGen
    BY Columns DEF TablesInv, TurnNamesActive, NoGen
  <2>4. turn[gens[g].chat].burst = gens[g].burst
    BY <2>3 DEF TablesInv, TurnNamesActive
  <2>5. QED
    BY <2>1, <2>2, <2>3, <2>4 DEF TablesInv, BurstOfItsChat
<1>2. CASE ~\E c \in Chats : Starts(c)
  <2>1. Untouched \/ (\E m \in Updates : Accepts(m)) \/ (\E c \in Chats : Settles(c))
        \/ \E cs \in SUBSET Chats : Releases(cs)
    BY <1>2, StepShape DEF Shapes
  <2>2. QED
    BY <2>1 DEF Untouched, Accepts, Settles, Releases
<1>3. QED
  BY <1>1, <1>2

LEMMA QuietExposed ==
  ASSUME TypeInv, TypeInv', TablesInv, TablesInv', BubblesInv, RecordInv, [Next]_vars, NoDelivery
  PROVE  OneExposed'
<1> SUFFICES ASSUME NEW g \in Gens, NEW h \in Gens, NEW f \in Frames, NEW k \in Frames,
                    IsGenerationActive(g)', gens'[h].status # "none", gens'[g].burst # NoBurst,
                    gens'[h].burst = gens'[g].burst, h # g, Exposed(g, h, f)', Exposed(g, h, k)'
             PROVE  f = k
  BY DEF OneExposed, OfBurst
<1>1. /\ made \in Nat /\ made' \in Nat /\ h \in Nat /\ g \in Nat
      /\ made <= made' /\ made' <= made + 1 /\ h <= made' /\ g <= made'
  <2>1. /\ made \in Nat /\ made' \in Nat /\ h \in Nat /\ g \in Nat
        /\ made <= made' /\ made' <= made + 1
    BY OldOrNew, Columns
  <2>2. g <= made' /\ h <= made'
    BY <2>1 DEF TablesInv, NoRowBeyondMade, IsGenerationActive
  <2>3. QED
    BY <2>1, <2>2
<1>2. \A e \in Frames :
        Exposed(g, h, e)' => (screen[h][e] > 0 \/ Sending(h, e)) /\ <<h, e>> \notin gens'[g].visible
  <2>1. \A e \in Frames : Sending(h, e)' => Sending(h, e)
    BY DEF Sending, NoDelivery, Delivering, Procs
  <2>2. screen' = screen
    BY DEF NoDelivery
  <2>3. QED
    BY <2>1, <2>2 DEF Exposed
<1>3. CASE IsGenerationActive(g) /\ g <= made
  <2>1. SameRow(g)
    BY <1>3, OldOrNew
  <2>2. h <= made
    BY <1>1, <1>3, <2>1, NewestIsOther DEF SameRow
  <2>3. SameRow(h) /\ gens[h].status # "none"
    BY <2>2, OldOrNew
  <2>4. h \in OfBurst(gens[g].burst)
    BY <2>1, <2>3 DEF SameRow, OfBurst
  <2>5. Exposed(g, h, f) /\ Exposed(g, h, k)
    BY <1>2, <2>1 DEF Exposed, SameRow
  <2>6. QED
    BY <1>3, <2>4, <2>5 DEF RecordInv, OneExposed
<1>4. CASE g = made + 1 /\ gens'[g].visible = VisibleText(gens'[g].burst)
  <2>1. h <= made
    BY <1>1, <1>4
  <2>2. h \in OfBurst(gens'[g].burst)
    BY <2>1, OldOrNew DEF SameRow, OfBurst
  <2>3. \A e \in Frames :
          <<h, e>> \notin gens'[g].visible => bubble[h][e] \notin {"sent", "unknown"}
    <3>1. ASSUME NEW e \in Frames, bubble[h][e] \in {"sent", "unknown"}
          PROVE  <<h, e>> \in VisibleText(gens'[g].burst)
      BY <2>2, <3>1 DEF VisibleText
    <3>2. QED
      BY <1>4, <3>1
  <2>4. bubble[h][f] = "reserved" /\ bubble[h][k] = "reserved"
    BY <1>2, <2>3, ExposedIsReserved
  <2>5. QED
    BY <2>4 DEF RecordInv, OneReserved
<1>5. QED
  BY <1>3, <1>4, OldOrNew

\* After a crash nothing runs and nothing is sent.
LEMMA RestartRecord ==
  ASSUME TypeInv, TablesInv, RecordInv, Restart
  PROVE  RecordInv'
<1>1. /\ made' = made /\ screen' = screen
      /\ \A p \in Procs : work'[p].pc = "idle"
      /\ \A g \in Gens : ~IsGenerationActive(g)'
  <2>1. \A g \in Gens : gens'[g].status # "active"
    BY DEF Restart, IsGenerationActive, TypeInv, TypeOK, GenRow
  <2>2. QED
    BY <2>1 DEF Restart, Idle, IsGenerationActive
<1>2. \A g \in Gens, f \in Frames :
        \/ bubble'[g][f] = bubble[g][f]
        \/ bubble[g][f] = "reserved" /\ bubble'[g][f] = "unknown"
  BY DEF Restart, Uncertain
<1>3. UnmadeHasNone' /\ SeenIsKept'
  BY <1>1, <1>2 DEF RecordInv, UnmadeHasNone, SeenIsKept
<1>4. OneReserved'
  BY <1>1, <1>2 DEF RecordInv, OneReserved
<1>5. QED
  BY <1>1, <1>3, <1>4 DEF RecordInv, ReservedIsInHand, OneExposed

-----------------------------------------------------------------------------
(* The record under the stages of one bubble *)

LEMMA DeliveryRecord ==
  ASSUME TypeInv, TablesInv, BubblesInv, RecordInv, NEW w \in Workers, DeliveryStep(w)
  PROVE  RecordInv'
<1> DEFINE g == work[w].gen
           f == work[w].next
<1>1. /\ w \in Procs /\ g \in Gens /\ g <= made /\ ~(g > made) /\ work[w].pc # "idle"
      /\ \A p \in Procs \ {w} : work[p].pc # "idle" => work[p].gen # g
      /\ Workers \subseteq Procs
  <2>1. w \in Procs /\ work[w].pc # "idle" /\ Workers \subseteq Procs
    BY SMTT(60) DEF Procs, DeliveryStep, ReserveDelivery, RecheckDelivery, TelegramAccepts, MarkSent,
       SendRaises
  <2>2. QED
    BY <2>1, WorkerGen, Columns DEF BubblesInv, OneGenerationEach
<1>2. /\ made' = made /\ gens' = gens
      /\ \A h \in Gens : IsGenerationActive(h)' = IsGenerationActive(h)
      /\ \A b : OfBurst(b)' = OfBurst(b)
  BY DEF DeliveryStep, ReserveDelivery, RecheckDelivery, TelegramAccepts, MarkSent, SendRaises,
     RecordDelivery, IsGenerationActive, OfBurst
\* Only a worker whose generation is active comes to send, and what comes to be
\* seen was being sent.
<1>3. ASSUME \A h \in Gens, e \in Frames :
               ~IsGenerationActive(h) /\ (screen'[h][e] > 0 \/ Sending(h, e)') =>
                 screen[h][e] > 0 \/ Sending(h, e)
      PROVE  OneExposed'
  <2> SUFFICES ASSUME NEW a \in Gens, NEW h \in Gens, NEW e \in Frames, NEW k \in Frames,
                      IsGenerationActive(a), h \in OfBurst(gens[a].burst), h # a,
                      Exposed(a, h, e)', Exposed(a, h, k)'
               PROVE  e = k
    BY <1>2 DEF OneExposed
  <2>1. ~IsGenerationActive(h)
    BY ActiveIsAlone
  <2>2. Exposed(a, h, e) /\ Exposed(a, h, k)
    BY <1>2, <1>3, <2>1 DEF Exposed
  <2>3. QED
    BY <2>2 DEF RecordInv, OneExposed
<1>4. ASSUME NEW s, s \in {"sent", "unknown", "suppressed"}, work[w].pc \in Delivering,
             s = "suppressed" => work[w].pc = "reserved",
             RowChanges(g, f, s), Moves(w, "turn", f + 1), screen' = screen
      PROVE  RecordInv'
  <2>1. f \in Frames /\ (work[w].pc = "reserved" => screen[g][f] = 0)
    BY <1>1, <1>4 DEF BubblesInv, SendingIsReserved, Delivering
  <2>2. UnmadeHasNone'
    BY <1>1, <1>2, <1>4 DEF RowChanges, RecordInv, UnmadeHasNone
  <2>3. SeenIsKept'
    BY <1>1, <1>4, <2>1 DEF RowChanges, RecordInv, SeenIsKept
  <2>4. \A e \in Frames : bubble'[g][e] # "reserved"
    BY <1>1, <1>4, <2>1 DEF RowChanges, RecordInv, OneReserved
  <2>5. OneReserved'
    BY <1>1, <1>4, <2>4 DEF RowChanges, Moves, RecordInv, OneReserved
  <2>6. ReservedIsInHand'
    BY <1>1, <1>2, <1>4, <2>4 DEF RowChanges, Moves, RecordInv, ReservedIsInHand
  <2>7. OneExposed'
    BY <1>1, <1>3, <1>4 DEF Moves, Sending
  <2>8. QED
    BY <2>2, <2>3, <2>5, <2>6, <2>7 DEF RecordInv
<1>5. CASE ReserveDelivery(w)
  <2>1. /\ work[w].pc = "turn" /\ f \in Frames
        /\ RowChanges(g, f, "reserved") /\ Moves(w, "reserved", f) /\ screen' = screen
    BY Zenon, <1>1, <1>5, BubbleChanges, WorkerMoves DEF ReserveDelivery
  <2>2. UnmadeHasNone' /\ SeenIsKept'
    BY <1>1, <1>2, <2>1 DEF RowChanges, RecordInv, UnmadeHasNone, SeenIsKept
  <2>3. \A e \in Frames : bubble[g][e] # "reserved"
    BY <1>1, <2>1 DEF RecordInv, OneReserved, Delivering
  <2>4. OneReserved'
    BY <1>1, <2>1, <2>3 DEF RowChanges, Moves, RecordInv, OneReserved, Delivering
  <2>5. ReservedIsInHand'
    BY <1>1, <1>2, <2>1, <2>3 DEF RowChanges, Moves, RecordInv, ReservedIsInHand, Delivering
  <2>6. OneExposed'
    BY <1>1, <1>3, <2>1 DEF Moves, Sending
  <2>7. QED
    BY <2>2, <2>4, <2>5, <2>6 DEF RecordInv
\* The bubble in hand goes one stage on, and its row stays.
<1>6. ASSUME NEW pc, pc \in Delivering, work[w].pc \in Delivering,
             Moves(w, pc, f), bubble' = bubble
      PROVE  UnmadeHasNone' /\ OneReserved' /\ ReservedIsInHand'
  <2>1. UnmadeHasNone'
    BY <1>2, <1>6 DEF RecordInv, UnmadeHasNone
  <2>2. OneReserved'
    BY <1>1, <1>6 DEF Moves, RecordInv, OneReserved, Delivering
  <2>3. ReservedIsInHand'
    <3> SUFFICES ASSUME NEW h \in Gens, NEW e \in Frames,
                        bubble[h][e] = "reserved", IsGenerationActive(h)
                 PROVE  \E v \in Workers :
                          work'[v].pc \in Delivering /\ work'[v].gen = h /\ work'[v].next = e
      BY <1>2, <1>6 DEF ReservedIsInHand
    <3>1. PICK v \in Workers : work[v].pc \in Delivering /\ work[v].gen = h /\ work[v].next = e
      BY DEF RecordInv, ReservedIsInHand
    <3>2. work'[v].pc \in Delivering /\ work'[v].gen = h /\ work'[v].next = e
      BY <1>1, <1>6, <3>1 DEF Moves
    <3>3. QED
      BY <3>2
  <2>4. QED
    BY <2>1, <2>2, <2>3
<1>7. CASE RecheckDelivery(w)
  <2>1. CASE IsGenerationActive(g)
    <3>1. work[w].pc = "reserved" /\ Moves(w, "send", f) /\ UNCHANGED <<bubble, screen>>
      BY Zenon, <1>7, <2>1, WorkerMoves DEF RecheckDelivery
    <3>2. UnmadeHasNone' /\ OneReserved' /\ ReservedIsInHand'
      BY <1>6, <3>1 DEF Delivering
    <3>3. SeenIsKept'
      BY <3>1 DEF RecordInv, SeenIsKept
    <3>4. OneExposed'
      BY <1>1, <1>3, <2>1, <3>1 DEF Moves, Sending
    <3>5. QED
      BY <3>2, <3>3, <3>4 DEF RecordInv
  <2>2. CASE ~IsGenerationActive(g)
    <3>1. /\ work[w].pc = "reserved"
          /\ RowChanges(g, f, "suppressed") /\ Moves(w, "turn", f + 1) /\ screen' = screen
      BY Zenon, <1>1, <1>7, <2>2, BubbleChanges, WorkerMoves DEF RecheckDelivery
    <3>2. QED
      BY SMTT(60), <1>4, <3>1 DEF Delivering
  <2>3. QED
    BY <2>1, <2>2
<1>8. CASE TelegramAccepts(w)
  <2>1. /\ work[w].pc = "send" /\ Moves(w, "accepted", f) /\ bubble' = bubble
        /\ screen' = [screen EXCEPT ![g][f] = @ + 1]
    BY Zenon, <1>8, WorkerMoves DEF TelegramAccepts
  <2>2. f \in Frames /\ bubble[g][f] = "reserved"
    BY <1>1, <2>1 DEF BubblesInv, SendingIsReserved
  <2>3. \A h \in Gens, k \in Frames : (h # g \/ k # f) => screen'[h][k] = screen[h][k]
    BY <1>1, <2>1, <2>2 DEF TypeInv, TypeOK
  <2>4. UnmadeHasNone' /\ OneReserved' /\ ReservedIsInHand'
    BY <1>6, <2>1 DEF Delivering
  <2>5. SeenIsKept'
    BY <1>1, <2>1, <2>2, <2>3 DEF RecordInv, SeenIsKept
  <2>6. Sending(g, f)
    BY <2>1 DEF Sending
  <2>7. OneExposed'
    BY <1>1, <1>3, <2>1, <2>3, <2>6 DEF Moves, Sending
  <2>8. QED
    BY <2>4, <2>5, <2>7 DEF RecordInv
<1>9. CASE MarkSent(w) \/ SendRaises(w)
  <2>1. PICK s : /\ s \in {"sent", "unknown"} /\ RecordDelivery(w, s)
                 /\ work[w].pc \in {"send", "accepted"}
    BY <1>9 DEF MarkSent, SendRaises
  <2>2. RowChanges(g, f, s) /\ Moves(w, "turn", f + 1) /\ screen' = screen
    BY Zenon, <1>1, <2>1, BubbleChanges, WorkerMoves DEF RecordDelivery
  <2>3. QED
    BY <1>4, <2>1, <2>2 DEF Delivering
<1>10. QED
  BY <1>5, <1>7, <1>8, <1>9 DEF DeliveryStep

LEMMA StepRecordInv ==
  TypeInv /\ TypeInv' /\ TablesInv /\ TablesInv' /\ BubblesInv /\ RecordInv /\ [Next]_vars
    => RecordInv'
BY OtherStepsDeliverNothing, QuietRecord, QuietExposed, RestartRecord, DeliveryRecord DEF RecordInv

LEMMA RecordInvariant == Spec => []RecordInv
<1>1. QED
  BY InitRecordInv, StepRecordInv, TypeInvariant, TablesInvariant, BubblesInvariant, PTL DEF Spec

-----------------------------------------------------------------------------
(* The theorems *)

\* No bubble reaches the user's phone twice, across lost acknowledgements,
\* superseded turns and restarts.
THEOREM NeverTwice == Spec => []NoDuplicateBubble
<1>1. BubblesInv => NoDuplicateBubble
  BY DEF BubblesInv, SeenHasRow, NoDuplicateBubble
<1>2. QED
  BY BubblesInvariant, <1>1, PTL

\* At most one bubble of a turn appears after the turn has lost its chat.
THEOREM AtMostOneLate == Spec => []OneLateBubble
<1>1. BubblesInv => OneLateBubble
  BY DEF BubblesInv, LateIsOver, OneLateBubble
<1>2. QED
  BY BubblesInvariant, <1>1, PTL

\* What the user saw of a turn that loses its chat is on record then, or about to be.
LEMMA LosingIsRecorded ==
  ASSUME TypeInv, TablesInv, BubblesInv, RecordInv, [Next]_vars, NEW g \in Gens, NEW f \in Frames,
         IsGenerationActive(g), gens'[g].status # "active", screen[g][f] > 0
  PROVE  \/ bubble'[g][f] \in {"sent", "unknown"}
         \/ \E w \in Workers : work'[w].pc = "accepted" /\ work'[w].gen = g /\ work'[w].next = f
<1>1. bubble[g][f] \in {"reserved", "sent", "unknown"}
  BY DEF RecordInv, SeenIsKept
<1>2. CASE Restart
  BY <1>1, <1>2 DEF Restart, Uncertain
<1>3. CASE ~Restart
  <2>1. \A w \in Workers : ~DeliveryStep(w)
    BY DEF DeliveryStep, ReserveDelivery, RecheckDelivery, TelegramAccepts, MarkSent, SendRaises,
       RecordDelivery, IsGenerationActive
  <2>2. NoDelivery
    BY <1>3, <2>1, OtherStepsDeliverNothing
  <2>3. CASE bubble[g][f] = "reserved"
    <3>1. PICK w \in Workers : work[w].pc \in Delivering /\ work[w].gen = g /\ work[w].next = f
      BY <2>3 DEF RecordInv, ReservedIsInHand
    <3>2. work[w].pc = "accepted"
      BY <3>1 DEF BubblesInv, SendingIsReserved, Delivering, Procs, TypeInv, TypeOK
    <3>3. work'[w] = work[w]
      BY <2>2, <3>1 DEF NoDelivery, Procs
    <3>4. QED
      BY <3>1, <3>2, <3>3
  <2>4. CASE bubble[g][f] # "reserved"
    BY <1>1, <2>2, <2>4 DEF NoDelivery
  <2>5. QED
    BY <2>3, <2>4
<1>4. QED
  BY <1>2, <1>3

\* When a turn loses its chat, to a message or a crash, what the user saw of it is
\* on record, or its worker is about to record it.
THEOREM RecordsAreHandedOver == Spec => HandoverIsRecorded
<1> DEFINE Step == \A g \in Gens, f \in Frames :
                     (IsGenerationActive(g) /\ gens'[g].status # "active" /\ screen[g][f] > 0) =>
                       \/ bubble'[g][f] \in {"sent", "unknown"}
                       \/ \E w \in Workers :
                            work'[w].pc = "accepted" /\ work'[w].gen = g /\ work'[w].next = f
<1>1. TypeInv /\ TablesInv /\ BubblesInv /\ RecordInv /\ [Next]_vars => [Step]_vars
  BY LosingIsRecorded
<1>2. QED
  BY <1>1, TypeInvariant, TablesInvariant, BubblesInvariant, RecordInvariant, PTL
  DEF Spec, HandoverIsRecorded

\* A replacement turn is told of everything its burst has shown, but for one
\* bubble of each earlier turn at most.
THEOREM AtMostOneMissing == Spec => []OneBubbleMissing
<1>1. RecordInv => OneBubbleMissing
  <2> SUFFICES ASSUME RecordInv, NEW g \in Gens, NEW h \in Gens,
                      IsGenerationActive(g), h \in OfBurst(gens[g].burst), h # g
               PROVE  Cardinality(MissingContext(g, h)) <= 1
    BY DEF OneBubbleMissing
  <2>1. \A f, k \in MissingContext(g, h) : f = k
    BY DEF MissingContext, Exposed, RecordInv, OneExposed
  <2>2. CASE MissingContext(g, h) = {}
    BY <2>2, FS_EmptySet
  <2>3. CASE MissingContext(g, h) # {}
    <3>1. PICK f : f \in MissingContext(g, h)
      BY <2>3
    <3>2. MissingContext(g, h) = {f}
      BY <2>1, <3>1
    <3>3. Cardinality({f}) = 1
      BY FS_Singleton
    <3>4. QED
      BY <3>2, <3>3
  <2>4. QED
    BY <2>2, <2>3
<1>2. QED
  BY RecordInvariant, <1>1, PTL

=============================================================================
