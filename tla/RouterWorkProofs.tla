-------------------------- MODULE RouterWorkProofs --------------------------
(***************************************************************************)
(* Whoever starts a session is replaced by someone who ends it:            *)
(* SessionsAreAccountedFor, for any number of generations and workers, any *)
(* queue, and any failures and deaths of the process.                      *)
(*                                                                         *)
(* The argument: a generation is in the hands of one turn's worker         *)
(* (OneDispatcher) and of one cancellation (OneCanceller), so that two     *)
(* deletions of a session at most are in each other's way. The mark of a   *)
(* deletion stands for one that is under way as long as the session runs   *)
(* (MarkIsKill): who finds it may go away. And a cancellation that is      *)
(* done leaves a session to nobody but the turn's own worker               *)
(* (CancelledIsEnded).                                                     *)
(***************************************************************************)
EXTENDS RouterWork, TLAPS

\* A worker that has a generation to cancel, one that has one to run, and one that
\* has none in hand.
Cancelling == {"cancel", "kill", "cancelled", "not_cancelled", "forget"}
Processing == {"lock", "token", "start", "started", "read", "close", "reap", "settle"}
Unburdened == {"refill", "schedule", "refill_again", "schedule_again", "drain", "claim",
               "dead"}

WorkerRow == [at : Cancelling \cup Processing \cup Unburdened, rows : Seq(Gens), left : Nat,
              verdict : {"nothing", "good", "bad"}, g : Nat, last : BOOLEAN,
              outcome : {"none", "returned", "raised", "expired"}]

TypeInv ==
  /\ gens \in [Gens -> [status : {"new", "active", "superseded", "completed", "failed"},
                        pending : BOOLEAN]]
  /\ poller \in Gens \cup {0}
  /\ queue \in Seq(Gens)
  /\ scheduled \subseteq Gens
  /\ worker \in [Workers -> WorkerRow]
  /\ \A w \in Workers : worker[w].at \in Cancelling \cup Processing => worker[w].g \in Gens
  /\ session \in [Sessions -> {"none", "running", "stray"}]
  /\ failures \in Nat

\* A generation is run by one worker, which claimed it.
OneDispatcher ==
  /\ \A w \in Workers :
       worker[w].at \in Processing => gens[worker[w].g].status # "new"
  /\ \A v, w \in Workers :
       (worker[v].at \in Processing /\ worker[w].at \in Processing
         /\ worker[v].g = worker[w].g) => v = w

\* A cancellation is in the queue once, or in the hands of one worker.
OneCanceller ==
  /\ \A i \in 1 .. Len(queue) : queue[i] \in scheduled
  /\ \A i, j \in 1 .. Len(queue) : queue[i] = queue[j] => i = j
  /\ \A w \in Workers : worker[w].at \in Cancelling =>
       /\ worker[w].g \in scheduled
       /\ \A i \in 1 .. Len(queue) : queue[i] # worker[w].g
  /\ \A v, w \in Workers :
       (worker[v].at \in Cancelling /\ worker[w].at \in Cancelling
         /\ worker[v].g = worker[w].g) => v = w

\* Someone who has generation g in hand is at one of these places.
Held(g, places) == \E w \in Workers : worker[w].g = g /\ worker[w].at \in places

\* The mark of a deletion, while the session runs, is of one that is under way, or
\* about to be taken away.
MarkIsKill(g) ==
  (SessionOf(g) \in keys /\ session[SessionOf(g)] = "running")
    => Held(g, {"kill"}) \/ Held(g, {"started", "reap"})

\* After its cancellation a session runs only in the hands of its turn's worker.
CancelledIsEnded(g) ==
  (Held(g, {"cancelled"}) /\ session[SessionOf(g)] = "running") => Dispatched(g)

IsAccountedFor(g) ==
  session[SessionOf(g)] = "running" => Dispatched(g) \/ gens[g].pending \/ Held(g, {"kill"})

SessionIsSafe(g) == MarkIsKill(g) /\ CancelledIsEnded(g) /\ IsAccountedFor(g)

SessionsSafe == \A g \in Gens : SessionIsSafe(g)

RouterInv == TypeInv /\ OneDispatcher /\ OneCanceller /\ SessionsSafe

-----------------------------------------------------------------------------
(* Types *)

\* The rows of a refill are generations, in the order of their names, once each.
LEMMA OldestType ==
  ASSUME NEW S \in SUBSET Gens, NEW rows \in Oldest(S)
  PROVE  /\ rows \in Seq(Gens)
         /\ \A i, j \in 1 .. Len(rows) : rows[i] = rows[j] => i = j
<1>1. PICK n \in 0 .. QueueSize : rows \in [1 .. n -> S]
  BY RouterAssumption DEF Oldest
<1>2. /\ n \in Nat /\ DOMAIN rows = 1 .. n
      /\ \A i, j \in DOMAIN rows : i < j => rows[i] < rows[j]
  BY <1>1, RouterAssumption DEF Oldest
<1>3. rows \in Seq(Gens) /\ Len(rows) = n
  BY <1>1, <1>2, SMT
<1>4. ASSUME NEW i \in 1 .. n, NEW j \in 1 .. n, rows[i] = rows[j] PROVE i = j
  <2>1. rows[i] \in Gens /\ rows[j] \in Gens
    BY <1>1, <1>2
  <2>2. ~(i < j) /\ ~(j < i)
    BY <1>2, <1>4, <2>1 DEF Gens
  <2> QED
    BY <2>1, <2>2 DEF Gens
<1> QED
  BY <1>3, <1>4

LEMMA IdleType == Idle \in WorkerRow
<1>1. <<>> \in Seq(Gens)
  OBVIOUS
<1> QED
  BY <1>1 DEF Idle, WorkerRow, Unburdened

LEMMA TypeInvInit == Init => TypeInv
BY IdleType, RouterAssumption
DEF Init, SessionsInit, TypeInv, Idle, Cancelling, Processing

-----------------------------------------------------------------------------
(* What a worker's step makes of its row *)

\* After its step worker w has no generation in hand that it did not have.
HoldsNoMore(w) ==
  \E row \in WorkerRow :
    /\ worker' = [worker EXCEPT ![w] = row]
    /\ row.at \in Cancelling => worker[w].at \in Cancelling /\ row.g = worker[w].g
    /\ row.at \in Processing => worker[w].at \in Processing /\ row.g = worker[w].g

\* The worker draws the next cancellation of the queue.
Draws(w) ==
  /\ worker[w].at = "drain" /\ queue # <<>> /\ queue' = Tail(queue) /\ UNCHANGED scheduled
  /\ \E row \in WorkerRow :
       worker' = [worker EXCEPT ![w] = row] /\ row.at = "cancel" /\ row.g = Head(queue)

\* The worker claims a new generation.
Claims(w) ==
  \E row \in WorkerRow, g \in Gens :
    /\ worker' = [worker EXCEPT ![w] = row] /\ row.at = "lock" /\ row.g = g
    /\ gens[g].status = "new" /\ gens' = [gens EXCEPT ![g].status = "active"]

LEMMA Disjoint ==
  /\ \A at \in Unburdened : at \notin Cancelling /\ at \notin Processing
  /\ \A at \in Cancelling : at \notin Processing
BY DEF Unburdened, Cancelling, Processing

\* The worker's new row holds nothing, or goes on with what the old one had.
LEMMA RowHolds ==
  ASSUME TypeInv, NEW w \in Workers, NEW row \in WorkerRow,
         worker' = [worker EXCEPT ![w] = row],
         \/ row.at \in Unburdened
         \/ row.at = worker[w].at /\ row.g = worker[w].g
         \/ row.at \in Cancelling /\ worker[w].at \in Cancelling /\ row.g = worker[w].g
         \/ row.at \in Processing /\ worker[w].at \in Processing /\ row.g = worker[w].g
  PROVE  HoldsNoMore(w)
BY Disjoint DEF HoldsNoMore

LEMMA GotoHolds ==
  ASSUME TypeInv, NEW w \in Workers, NEW at, Goto(w, at),
         \/ at \in Cancelling /\ worker[w].at \in Cancelling
         \/ at \in Processing /\ worker[w].at \in Processing
  PROVE  HoldsNoMore(w)
<1> DEFINE new == [worker[w] EXCEPT !.at = at]
<1>1. worker[w] \in WorkerRow
  BY DEF TypeInv
<1>2. new \in WorkerRow /\ new.at = at /\ new.g = worker[w].g
  BY <1>1 DEF WorkerRow
<1>3. worker' = [worker EXCEPT ![w] = new]
  BY DEF Goto
<1> HIDE DEF new
<1> QED
  BY <1>2, <1>3, RowHolds

LEMMA ScheduleType ==
  ASSUME TypeInv, NEW g \in Gens, Schedule(g)
  PROVE  queue' \in Seq(Gens) /\ scheduled' \subseteq Gens
<1>1. CASE g \in scheduled \cup backoff \/ Len(queue) = QueueSize
  <2>1. UNCHANGED queueVars
    BY <1>1 DEF Schedule
  <2> QED
    BY <2>1 DEF TypeInv, queueVars
<1>2. CASE ~(g \in scheduled \cup backoff \/ Len(queue) = QueueSize)
  <2>1. queue' = Append(queue, g) /\ scheduled' = scheduled \cup {g}
    BY <1>2 DEF Schedule
  <2> QED
    BY <2>1 DEF TypeInv
<1> QED
  BY <1>1, <1>2

LEMMA RefilledType ==
  ASSUME NEW r \in WorkerRow, NEW size \in Nat
  PROVE  /\ Refilled(r, size) \in WorkerRow
         /\ Refilled(r, size).at \in Unburdened
<1>1. Idle \in WorkerRow /\ Idle.at \in Unburdened
  BY IdleType DEF Idle, Unburdened
<1> DEFINE drains == [r EXCEPT !.at = "drain", !.left = size]
           claims == [Idle EXCEPT !.at = "claim"]
<1>2. drains \in WorkerRow /\ drains.at \in Unburdened
  BY DEF WorkerRow, Unburdened
<1>3. claims \in WorkerRow /\ claims.at \in Unburdened
  BY <1>1 DEF WorkerRow, Unburdened
<1>4. Refilled(r, size) \in {drains, Idle, claims}
  BY DEF Refilled
<1> HIDE DEF drains, claims
<1> QED
  BY <1>1, <1>2, <1>3, <1>4

LEMMA DrainsHold ==
  ASSUME TypeInv, NEW w \in Workers, Drains(w)
  PROVE  HoldsNoMore(w) \/ Draws(w)
<1> DEFINE row == worker[w]
<1>0. row \in WorkerRow /\ Len(queue) \in Nat /\ Len(queue) >= 0
  BY DEF TypeInv
<1>1. CASE Refill(w)
  <2>1. PICK rows \in Oldest({g \in Gens : gens[g].pending}) :
          LET r == [worker[w] EXCEPT !.at = IF @ = "refill" THEN "schedule" ELSE "schedule_again",
                                     !.rows = rows]
          IN  worker' = [worker EXCEPT ![w] = IF r.rows = <<>> THEN Refilled(r, Len(queue)) ELSE r]
    BY Zenon, <1>1 DEF Refill
  <2> DEFINE r == [worker[w] EXCEPT !.at = IF @ = "refill" THEN "schedule" ELSE "schedule_again",
                                    !.rows = rows]
             new == IF r.rows = <<>> THEN Refilled(r, Len(queue)) ELSE r
  <2>2. rows \in Seq(Gens)
    BY OldestType
  <2>3. r \in WorkerRow /\ r.at \in Unburdened
    BY <1>0, <2>2 DEF WorkerRow, Unburdened
  <2>4. new \in WorkerRow /\ new.at \in Unburdened
    BY <1>0, <2>3, RefilledType
  <2>5. worker' = [worker EXCEPT ![w] = new]
    BY <2>1
  <2> HIDE DEF new
  <2> QED
    BY <2>4, <2>5, RowHolds
<1>2. CASE ScheduleRow(w)
  <2> DEFINE r == [worker[w] EXCEPT !.rows = Tail(@)]
             new == IF r.rows = <<>> THEN Refilled(r, Len(queue')) ELSE r
  <2>1. Head(row.rows) \in Gens /\ Tail(row.rows) \in Seq(Gens)
    BY <1>0, <1>2 DEF ScheduleRow, WorkerRow
  <2>2. queue' \in Seq(Gens)
    BY <1>2, <2>1, ScheduleType DEF ScheduleRow
  <2>3. r \in WorkerRow /\ r.at = row.at /\ r.g = row.g
    BY <1>0, <2>1 DEF WorkerRow
  <2>4. /\ new \in WorkerRow
        /\ new.at \in Unburdened \/ (new.at = row.at /\ new.g = row.g)
    <3>1. Len(queue') \in Nat
      BY <2>2
    <3>2. CASE r.rows = <<>>
      BY <2>3, <3>1, <3>2, RefilledType
    <3>3. CASE r.rows # <<>>
      BY <2>3, <3>3
    <3> QED
      BY <3>2, <3>3
  <2>5. worker' = [worker EXCEPT ![w] = new]
    BY <1>2 DEF ScheduleRow
  <2> HIDE DEF new
  <2> QED
    BY <2>4, <2>5, RowHolds
<1>3. CASE Take(w)
  <2>1. CASE /\ row.left > 0 /\ queue # <<>> /\ queue' = Tail(queue)
             /\ worker' = [worker EXCEPT ![w].at = "cancel", ![w].left = @ - 1, ![w].g = Head(queue)]
    <3> DEFINE new == [row EXCEPT !.at = "cancel", !.left = @ - 1, !.g = Head(queue)]
    <3>1. Head(queue) \in Gens /\ queue' \in Seq(Gens)
      BY <2>1 DEF TypeInv
    <3>2. new \in WorkerRow /\ new.g \in Gens
      <4>1. row.left - 1 \in Nat
        BY <1>0, <2>1 DEF WorkerRow
      <4>2. "cancel" \in Cancelling \cup Processing \cup Unburdened /\ Head(queue) \in Nat
        BY <3>1 DEF Cancelling, Gens
      <4> QED
        BY <1>0, <3>1, <4>1, <4>2 DEF WorkerRow
    <3>3. worker' = [worker EXCEPT ![w] = new]
      BY <2>1 DEF TypeInv, WorkerRow
    <3>4. new.at = "cancel" /\ new.g = Head(queue)
      BY <1>0 DEF WorkerRow
    <3> HIDE DEF new
    <3> QED
      BY <1>3, <2>1, <3>2, <3>3, <3>4 DEF Draws, Take, At
  <2>2. CASE /\ worker' = [worker EXCEPT ![w].at = "refill_again", ![w].left = 0]
             /\ UNCHANGED queue
    <3> DEFINE new == [row EXCEPT !.at = "refill_again", !.left = 0]
    <3>1. new \in WorkerRow /\ new.at \in Unburdened
      BY <1>0 DEF WorkerRow, Unburdened
    <3>2. worker' = [worker EXCEPT ![w] = new]
      BY <2>2 DEF TypeInv, WorkerRow
    <3> HIDE DEF new
    <3> QED
      BY <3>1, <3>2, RowHolds
  <2> QED
    BY <1>3, <2>1, <2>2 DEF Take
<1>4. CASE Cancel(w)
  <2>1. At(w, "cancel") /\ \E at \in {"cancelled", "kill", "not_cancelled"} : Goto(w, at)
    BY <1>4 DEF Cancel
  <2> QED
    BY <2>1, GotoHolds DEF At, Cancelling
<1>5. CASE Kill(w)
  <2>1. At(w, "kill") /\ \E at \in {"cancelled", "not_cancelled"} : Goto(w, at)
    BY <1>5 DEF Kill
  <2> QED
    BY <2>1, GotoHolds DEF At, Cancelling
<1>6. CASE CompleteCleanup(w)
  <2>1. At(w, "cancelled") /\ \E at \in {"forget", "not_cancelled"} : Goto(w, at)
    BY <1>6 DEF CompleteCleanup
  <2> QED
    BY <2>1, GotoHolds DEF At, Cancelling
<1>7. CASE Forget(w) \/ BackOff(w)
  <2>1. PICK verdict \in {"good", "bad"} : Cancelled(w, verdict)
    BY <1>7 DEF Forget, BackOff
  <2> DEFINE new == [row EXCEPT !.at = "drain", !.g = 0, !.verdict = verdict]
  <2>2. worker' = [worker EXCEPT ![w] = new]
    BY <2>1 DEF Cancelled, TypeInv, WorkerRow
  <2>3. new \in WorkerRow /\ new.at \in Unburdened
    BY <1>0 DEF WorkerRow, Unburdened
  <2> HIDE DEF new
  <2> QED
    BY <2>2, <2>3, RowHolds
<1> QED
  BY <1>1, <1>2, <1>3, <1>4, <1>5, <1>6, <1>7 DEF Drains

\* The iterator's end leaves the turn to be settled.
LEMMA LeaveHolds ==
  ASSUME TypeInv, NEW w \in Workers, 
         NEW outcome \in {"none", "returned", "raised", "expired"},
         worker[w].at \in Processing, Leave(w, outcome)
  PROVE  HoldsNoMore(w)
<1> DEFINE new == [Idle EXCEPT !.at = "settle", !.g = worker[w].g, !.outcome = outcome]
<1>1. worker[w] \in WorkerRow
  BY DEF TypeInv
<1>2. new \in WorkerRow /\ new.at = "settle" /\ new.g = worker[w].g
  BY <1>1, IdleType DEF WorkerRow, Processing, Idle
<1>3. worker' = [worker EXCEPT ![w] = new]
  BY DEF Leave
<1> HIDE DEF new
<1> QED
  BY <1>2, <1>3, RowHolds DEF Processing

\* So does the end of a session's use, or it begins the second attempt.
LEMMA ClosedHolds ==
  ASSUME TypeInv, NEW w \in Workers, worker[w].at \in Processing, Closed(w)
  PROVE  HoldsNoMore(w)
<1>1. worker[w] \in WorkerRow
  BY DEF TypeInv
<1>2. CASE worker[w].outcome = "expired"
  <2> DEFINE new == [worker[w] EXCEPT !.at = "token", !.last = TRUE, !.outcome = "none"]
  <2>1. new \in WorkerRow /\ new.at = "token" /\ new.g = worker[w].g
    BY <1>1 DEF WorkerRow, Processing
  <2>2. worker' = [worker EXCEPT ![w] = new]
    BY <1>1, <1>2 DEF Closed, WorkerRow, TypeInv
  <2> HIDE DEF new
  <2> QED
    BY <2>1, <2>2, RowHolds DEF Processing
<1>3. CASE worker[w].outcome # "expired"
  <2>1. Leave(w, worker[w].outcome)
    BY <1>3 DEF Closed
  <2>2. worker[w].outcome \in {"none", "returned", "raised", "expired"}
    BY <1>1 DEF WorkerRow
  <2> QED
    BY <2>1, <2>2, LeaveHolds
<1> QED
  BY <1>2, <1>3

LEMMA ProcessesHold ==
  ASSUME TypeInv, NEW w \in Workers, Processes(w)
  PROVE  HoldsNoMore(w) \/ Claims(w)
<1>0. worker[w] \in WorkerRow
  BY DEF TypeInv
<1>1. CASE Claim(w)
  <2>1. CASE worker' = [worker EXCEPT ![w] = Idle]
    BY <2>1, IdleType, RowHolds DEF Idle, Unburdened
  <2>2. CASE worker' # [worker EXCEPT ![w] = Idle]
    <3>1. PICK g \in Gens :
            /\ gens[g].status = "new" /\ gens' = [gens EXCEPT ![g].status = "active"]
            /\ worker' = [worker EXCEPT ![w].at = "lock", ![w].g = g]
      BY <1>1, <2>2 DEF Claim
    <3> DEFINE new == [worker[w] EXCEPT !.at = "lock", !.g = g]
    <3>2. new \in WorkerRow /\ new.at = "lock" /\ new.g = g
      <4>1. g \in Nat /\ "lock" \in Cancelling \cup Processing \cup Unburdened
        BY RouterAssumption DEF Gens, Processing
      <4> QED
        BY <1>0, <4>1 DEF WorkerRow
    <3>3. worker' = [worker EXCEPT ![w] = new]
      BY <3>1 DEF TypeInv, WorkerRow
    <3> HIDE DEF new
    <3> QED
      BY <3>1, <3>2, <3>3 DEF Claims
  <2> QED
    BY <2>1, <2>2
<1>2. CASE Acquire(w)
  BY <1>2, GotoHolds DEF Acquire, At, Processing
<1>3. CASE Prepare(w)
  <2>1. /\ worker[w].at \in Processing
        /\ Leave(w, "returned") \/ Leave(w, "raised") \/ Goto(w, "start")
    BY <1>3 DEF Prepare, At, Processing, Stay
  <2> QED
    BY <2>1, LeaveHolds, GotoHolds DEF Processing
<1>4. CASE Start(w)
  <2>1. /\ worker[w].at \in Processing
        /\ Leave(w, "raised") \/ Goto(w, "started")
    BY <1>4 DEF Start, At, Processing, Stay
  <2> QED
    BY <2>1, LeaveHolds, GotoHolds DEF Processing
<1>5. CASE Started(w)
  BY <1>5, GotoHolds DEF Started, At, Processing, Stay
<1>6. CASE Read(w)
  <2>1. CASE worker' = [worker EXCEPT ![w].last = TRUE]
    <3> DEFINE new == [worker[w] EXCEPT !.last = TRUE]
    <3>1. new \in WorkerRow /\ new.at = worker[w].at /\ new.g = worker[w].g
      BY <1>0 DEF WorkerRow
    <3>2. worker' = [worker EXCEPT ![w] = new]
      BY <2>1
    <3> HIDE DEF new
    <3> QED
      BY <3>1, <3>2, RowHolds
  <2>2. ASSUME NEW outcome \in {"returned", "raised", "expired"}, Stop(w, outcome)
        PROVE  HoldsNoMore(w)
    <3> DEFINE new == [worker[w] EXCEPT !.at = "close", !.last = FALSE, !.outcome = outcome]
    <3>1. new \in WorkerRow /\ new.at = "close" /\ new.g = worker[w].g
      BY <1>0 DEF WorkerRow, Processing
    <3>2. worker' = [worker EXCEPT ![w] = new]
      BY <2>2 DEF Stop, TypeInv, WorkerRow
    <3>3. worker[w].at \in Processing
      BY <1>6 DEF Read, At, Processing
    <3> HIDE DEF new
    <3> QED
      BY <3>1, <3>2, <3>3, RowHolds DEF Processing
  <2> QED
    BY <1>6, <2>1, <2>2 DEF Read
<1>7. CASE Close(w) \/ Reap(w)
  <2>1. /\ worker[w].at \in Processing
        /\ Closed(w) \/ Goto(w, "reap")
    BY <1>7 DEF Close, Reap, At, Processing, Stay
  <2> QED
    BY <2>1, ClosedHolds, GotoHolds DEF Processing
<1>8. CASE Settle(w)
  <2>1. worker' = [worker EXCEPT ![w] = Idle]
    BY <1>8 DEF Settle
  <2> QED
    BY <2>1, IdleType, RowHolds DEF Idle, Unburdened
<1> QED
  BY <1>1, <1>2, <1>3, <1>4, <1>5, <1>6, <1>7, <1>8 DEF Processes

LEMMA DiesHolds ==
  ASSUME TypeInv, NEW w \in Workers, Dies(w)
  PROVE  HoldsNoMore(w)
<1> DEFINE new == [Idle EXCEPT !.at = "dead"]
<1>1. new \in WorkerRow /\ new.at \in Unburdened
  BY IdleType DEF WorkerRow, Unburdened
<1>2. worker' = [worker EXCEPT ![w] = new]
  BY DEF Dies
<1> HIDE DEF new
<1> QED
  BY <1>1, <1>2, RowHolds

-----------------------------------------------------------------------------
(* Types, after a step *)

LEMMA WorkersKeepType ==
  ASSUME TypeInv, NEW w \in Workers, HoldsNoMore(w) \/ Draws(w) \/ Claims(w)
  PROVE  /\ worker' \in [Workers -> WorkerRow]
         /\ \A v \in Workers : worker'[v].at \in Cancelling \cup Processing => worker'[v].g \in Gens
<1>1. PICK row \in WorkerRow :
        /\ worker' = [worker EXCEPT ![w] = row]
        /\ row.at \in Cancelling \cup Processing => row.g \in Gens
  <2>1. CASE HoldsNoMore(w)
    BY <2>1 DEF HoldsNoMore, TypeInv
  <2>2. CASE Draws(w)
    <3>1. Head(queue) \in Gens
      BY <2>2 DEF Draws, TypeInv
    <3> QED
      BY <2>2, <3>1 DEF Draws
  <2>3. CASE Claims(w)
    BY <2>3 DEF Claims
  <2> QED
    BY <2>1, <2>2, <2>3
<1> QED
  BY <1>1 DEF TypeInv

Sessional == [Sessions -> {"none", "running", "stray"}]

\* What the calls of the service leave of the sessions.
LEMMA SessionType ==
  ASSUME TypeInv, NEW s, NEW left \in {"none", "running", "stray"},
         \/ KillSucceeds(s) \/ KillFails(s, left) \/ Open(s) \/ OpenFails(s)
         \/ SessionEnds(s)
  PROVE  session' \in Sessional /\ failures' \in Nat
<1>1. session \in Sessional /\ failures \in Nat
  BY DEF TypeInv, Sessional
<1>2. CASE KillSucceeds(s)
  BY <1>1, <1>2 DEF KillSucceeds, Sessional
<1>3. CASE KillFails(s, left)
  <2>1. \/ UNCHANGED session
        \/ session' = [session EXCEPT ![s] = left]
        \/ session' = [session EXCEPT ![s] = "none"]
    BY <1>3 DEF KillFails
  <2>2. failures' \in Nat
    BY <1>1, <1>3 DEF KillFails, Failure
  <2> QED
    BY <1>1, <2>1, <2>2 DEF Sessional
<1>4. CASE Open(s)
  BY <1>1, <1>4 DEF Open, Sessional
<1>5. CASE OpenFails(s)
  BY <1>1, <1>5 DEF OpenFails, Failure, Sessional
<1>6. CASE SessionEnds(s)
  BY <1>1, <1>6 DEF SessionEnds, Sessional
<1> QED
  BY <1>2, <1>3, <1>4, <1>5, <1>6

TablesType ==
  /\ gens \in [Gens -> [status : {"new", "active", "superseded", "completed", "failed"},
                        pending : BOOLEAN]]
  /\ poller \in Gens \cup {0}
  /\ queue \in Seq(Gens)
  /\ scheduled \subseteq Gens
  /\ session \in Sessional
  /\ failures \in Nat

\* A drain's step.
LEMMA DrainsTables ==
  ASSUME TypeInv, NEW w \in Workers, Drains(w)
  PROVE  TablesType'
<1>0. TablesType /\ worker[w] \in WorkerRow
  BY DEF TypeInv, TablesType, Sessional
<1>1. CASE Refill(w)
  BY <1>0, <1>1 DEF Refill, TablesType, tableVars, queueVars, sessionVars
<1>2. CASE ScheduleRow(w)
  <2>1. Head(worker[w].rows) \in Gens
    BY <1>0, <1>2 DEF ScheduleRow, WorkerRow
  <2>2. queue' \in Seq(Gens) /\ scheduled' \subseteq Gens
    BY <1>2, <2>1, ScheduleType DEF ScheduleRow
  <2> QED
    BY <1>0, <1>2, <2>2 DEF ScheduleRow, TablesType, tableVars, sessionVars
<1>3. CASE Take(w)
  <2>1. queue' \in Seq(Gens)
    <3>1. UNCHANGED queue \/ (queue # <<>> /\ queue' = Tail(queue))
      BY <1>3 DEF Take
    <3> QED
      BY <1>0, <3>1 DEF TablesType
  <2> QED
    BY <1>0, <1>3, <2>1 DEF Take, TablesType, tableVars, sessionVars
<1>4. CASE Cancel(w)
  <2>1. UNCHANGED session /\ failures' \in Nat
    BY <1>0, <1>4 DEF Cancel, SkipKill, BeginKill, Failure, sessionVars, TablesType
  <2>2. UNCHANGED <<tableVars, poller, queueVars>>
    BY <1>4 DEF Cancel
  <2> QED
    BY <1>0, <2>1, <2>2 DEF TablesType, tableVars, queueVars
<1>5. CASE Kill(w)
  <2>1. Left(worker[w].g) \in {"none", "running", "stray"}
    <3>1. worker[w].g \in Sessions
      BY <1>5, RouterAssumption DEF Kill, TypeInv, At, Cancelling, Gens
    <3> QED
      BY <1>0, <3>1 DEF Left, TablesType, Sessional, SessionOf
  <2>2. session' \in Sessional /\ failures' \in Nat
    BY <1>5, <2>1, SessionType DEF Kill
  <2>3. UNCHANGED <<tableVars, poller, queueVars>>
    BY <1>5 DEF Kill
  <2> QED
    BY <1>0, <2>2, <2>3 DEF TablesType, tableVars, queueVars
<1>6. CASE CompleteCleanup(w)
  <2>1. gens' = [gens EXCEPT ![worker[w].g].pending = FALSE] \/ UNCHANGED gens
    BY <1>6 DEF CompleteCleanup
  <2>2. UNCHANGED <<poller, queue, scheduled, session>> /\ failures' \in Nat
    BY <1>0, <1>6 DEF CompleteCleanup, queueVars, Failure, TablesType
  <2>3. gens' \in [Gens -> [status : {"new", "active", "superseded", "completed", "failed"},
                           pending : BOOLEAN]]
    <3>1. CASE UNCHANGED gens
      BY <1>0, <3>1 DEF TablesType
    <3>2. CASE ~UNCHANGED gens
      <4>1. gens' = [gens EXCEPT ![worker[w].g].pending = FALSE]
        BY <2>1, <3>2
      <4> QED
        BY <1>0, <4>1 DEF TablesType
    <3> QED
      BY <3>1, <3>2
  <2> QED
    BY <1>0, <2>2, <2>3 DEF TablesType
<1>7. CASE Forget(w) \/ BackOff(w)
  BY <1>0, <1>7 DEF Forget, BackOff, TablesType, tableVars, sessionVars
<1> QED
  BY <1>1, <1>2, <1>3, <1>4, <1>5, <1>6, <1>7 DEF Drains

\* A step of a turn's worker.
LEMMA ProcessesTables ==
  ASSUME TypeInv, NEW w \in Workers, Processes(w)
  PROVE  TablesType'
<1>0. TablesType
  BY DEF TypeInv, TablesType, Sessional
<1>1. CASE Claim(w)
  BY <1>0, <1>1 DEF Claim, TablesType, tableVars, queueVars, sessionVars
<1>2. CASE Acquire(w)
  BY <1>0, <1>2 DEF Acquire, TablesType, tableVars, queueVars, sessionVars
<1>3. CASE Prepare(w)
  <2>1. UNCHANGED session /\ failures' \in Nat
    BY <1>0, <1>3 DEF Prepare, Failure, TablesType
  <2> QED
    BY <1>0, <1>3, <2>1 DEF Prepare, TablesType, tableVars, queueVars
<1>4. CASE Start(w)
  <2>1. session' \in Sessional /\ failures' \in Nat
    BY <1>4, SessionType DEF Start
  <2> QED
    BY <1>0, <1>4, <2>1 DEF Start, TablesType, tableVars, queueVars
<1>5. CASE Started(w)
  BY <1>0, <1>5 DEF Started, ForgetDeletion, TablesType, tableVars, queueVars
<1>6. CASE Read(w)
  BY <1>0, <1>6 DEF Read, TablesType, tableVars, queueVars, sessionVars
<1>7. CASE Close(w)
  <2>1. UNCHANGED <<session, failures>>
    BY <1>7 DEF Close, SkipKill, BeginKill, sessionVars
  <2> QED
    BY <1>0, <1>7, <2>1 DEF Close, TablesType, tableVars, queueVars
<1>8. CASE Reap(w)
  <2>1. session' \in Sessional /\ failures' \in Nat
    BY <1>8, SessionType DEF Reap
  <2> QED
    BY <1>0, <1>8, <2>1 DEF Reap, TablesType, tableVars, queueVars
<1>9. CASE Settle(w)
  <2>1. UNCHANGED <<poller, queue, scheduled, session, failures>>
    BY <1>9 DEF Settle, queueVars, sessionVars
  <2>2. \/ UNCHANGED gens
        \/ gens' = [gens EXCEPT ![worker[w].g].status = "completed"]
        \/ gens' = [gens EXCEPT ![worker[w].g].status = "failed"]
    BY <1>9 DEF Settle, tableVars
  <2>3. gens' \in [Gens -> [status : {"new", "active", "superseded", "completed", "failed"},
                           pending : BOOLEAN]]
    BY <1>0, <2>2 DEF TablesType
  <2> QED
    BY <1>0, <2>1, <2>3 DEF TablesType
<1> QED
  BY <1>1, <1>2, <1>3, <1>4, <1>5, <1>6, <1>7, <1>8, <1>9 DEF Processes

LEMMA DiesTables ==
  ASSUME TypeInv, NEW w \in Workers, Dies(w)
  PROVE  TablesType'
<1>1. failures' \in Nat
  BY DEF Dies, Failure, TypeInv
<1>2. UNCHANGED <<gens, poller, queue, scheduled, session>>
  BY DEF Dies, tableVars, queueVars
<1> QED
  BY <1>1, <1>2 DEF TypeInv, TablesType, Sessional

\* The death of the process.
LEMMA CrashType ==
  ASSUME TypeInv, Crash
  PROVE  TypeInv'
<1>0. TablesType
  BY DEF TypeInv, TablesType, Sessional
<1>1. gens' \in [Gens -> [status : {"new", "active", "superseded", "completed", "failed"},
                          pending : BOOLEAN]]
  BY <1>0 DEF Crash, Recover, TablesType
<1>2. queue' \in Seq(Gens)
  BY OldestType DEF Crash, Recover
<1>3. scheduled' \subseteq Gens
  BY <1>2 DEF Crash, ToSet
<1>4. session' \in Sessional /\ failures' \in Nat
  BY <1>0 DEF Crash, TablesType, Sessional
<1>5. /\ worker' \in [Workers -> WorkerRow]
      /\ \A w \in Workers : worker'[w].at = "refill"
  BY IdleType DEF Crash, Idle
<1>6. poller' = 0
  BY DEF Crash
<1> QED
  BY <1>1, <1>2, <1>3, <1>4, <1>5, <1>6 DEF TypeInv, Sessional, Cancelling, Processing

LEMMA TypeInvStep == TypeInv /\ [Next]_vars => TypeInv'
<1> SUFFICES ASSUME TypeInv, [Next]_vars PROVE TypeInv'
  OBVIOUS
<1>0. TablesType
  BY DEF TypeInv, TablesType, Sessional
<1>1. CASE Enqueue
  <2>1. gens' \in [Gens -> [status : {"new", "active", "superseded", "completed", "failed"},
                            pending : BOOLEAN]]
    <3>1. \/ UNCHANGED gens
          \/ \E g \in Gens : gens' = [gens EXCEPT ![g] = [status |-> "superseded", pending |-> TRUE]]
      BY <1>1 DEF Enqueue
    <3>2. CASE UNCHANGED gens
      BY <1>0, <3>2 DEF TablesType
    <3>3. CASE ~UNCHANGED gens
      <4> DEFINE over == [status |-> "superseded", pending |-> TRUE]
      <4>1. over \in [status : {"new", "active", "superseded", "completed", "failed"},
                      pending : BOOLEAN]
        OBVIOUS
      <4>2. \E g \in Gens : gens' = [gens EXCEPT ![g] = over]
        BY <3>1, <3>3
      <4> HIDE DEF over
      <4> QED
        BY <1>0, <4>1, <4>2 DEF TablesType
    <3> QED
      BY <3>2, <3>3
  <2>2. poller' \in Gens \cup {0}
    BY <1>0, <1>1 DEF Enqueue, TablesType
  <2> QED
    BY <1>1, <2>1, <2>2 DEF Enqueue, TypeInv, queueVars, sessionVars
<1>2. CASE PollerSchedules
  <2>1. poller \in Gens
    BY <1>2 DEF PollerSchedules, TypeInv
  <2>2. queue' \in Seq(Gens) /\ scheduled' \subseteq Gens
    BY <1>2, <2>1, ScheduleType DEF PollerSchedules
  <2> QED
    BY <1>2, <2>2 DEF PollerSchedules, TypeInv, tableVars, sessionVars
<1>3. CASE Crash
  BY <1>3, CrashType
<1>4. CASE \E g \in Gens : BackoffEnds(g)
  BY <1>4 DEF BackoffEnds, TypeInv, tableVars, sessionVars
<1>5. ASSUME NEW w \in Workers, Drains(w) \/ Processes(w) \/ Dies(w) PROVE TypeInv'
  <2>1. TablesType'
    BY <1>5, DrainsTables, ProcessesTables, DiesTables
  <2>2. HoldsNoMore(w) \/ Draws(w) \/ Claims(w)
    BY <1>5, DrainsHold, ProcessesHold, DiesHolds
  <2> QED
    BY <2>1, <2>2, WorkersKeepType DEF TypeInv, TablesType, Sessional
<1>6. ASSUME NEW s \in Sessions, End(s) PROVE TypeInv'
  <2>1. session' \in Sessional /\ failures' \in Nat
    BY <1>6, SessionType DEF End
  <2> QED
    BY <1>6, <2>1 DEF End, TypeInv, Sessional, tableVars, queueVars
<1>7. CASE UNCHANGED vars
  BY <1>7 DEF TypeInv, vars, sessionVars
<1> QED
  BY <1>1, <1>2, <1>3, <1>4, <1>5, <1>6, <1>7 DEF Next

-----------------------------------------------------------------------------
(* A generation is in one pair of hands *)

\* No generation becomes new again.
NewIsPast == \A g \in Gens : gens'[g].status = "new" => gens[g].status = "new"

LEMMA DispatcherStays ==
  ASSUME TypeInv, OneDispatcher, NEW w \in Workers, HoldsNoMore(w), NewIsPast
  PROVE  OneDispatcher'
<1>1. PICK row \in WorkerRow :
        /\ worker' = [worker EXCEPT ![w] = row]
        /\ row.at \in Processing => worker[w].at \in Processing /\ row.g = worker[w].g
  BY DEF HoldsNoMore
<1>2. \A v \in Workers : worker'[v].at \in Processing =>
        worker[v].at \in Processing /\ worker'[v].g = worker[v].g /\ worker[v].g \in Gens
  BY <1>1 DEF TypeInv
<1> QED
  BY <1>2 DEF OneDispatcher, NewIsPast

LEMMA DispatcherClaims ==
  ASSUME TypeInv, OneDispatcher, NEW w \in Workers, Claims(w)
  PROVE  OneDispatcher'
<1>1. PICK row \in WorkerRow, g \in Gens :
        /\ worker' = [worker EXCEPT ![w] = row] /\ row.at = "lock" /\ row.g = g
        /\ gens[g].status = "new" /\ gens' = [gens EXCEPT ![g].status = "active"]
  BY DEF Claims
<1>2. \A v \in Workers : v # w => worker'[v] = worker[v]
  BY <1>1 DEF TypeInv
<1>3. worker'[w].g = g
  BY <1>1 DEF TypeInv
<1>4. \A h \in Gens : gens'[h].status = "new" => gens[h].status = "new" /\ h # g
  BY <1>1 DEF TypeInv
<1>5. \A v \in Workers : v # w /\ worker[v].at \in Processing => worker[v].g # g
  BY <1>1 DEF OneDispatcher
<1>6. \A v \in Workers : worker[v].at \in Processing => worker[v].g \in Gens
  BY DEF TypeInv
<1>7. ASSUME NEW v \in Workers, worker'[v].at \in Processing
      PROVE  gens'[worker'[v].g].status # "new"
  <2>1. CASE v = w
    BY <1>1, <1>3, <1>4, <2>1
  <2>2. CASE v # w
    BY <1>2, <1>4, <1>6, <1>7, <2>2 DEF OneDispatcher
  <2> QED
    BY <2>1, <2>2
<1>8. ASSUME NEW u \in Workers, NEW v \in Workers,
             worker'[u].at \in Processing, worker'[v].at \in Processing, worker'[u].g = worker'[v].g
      PROVE  u = v
  BY <1>2, <1>3, <1>5, <1>8 DEF OneDispatcher
<1> QED
  BY <1>7, <1>8 DEF OneDispatcher

\* A step that leaves the queue to itself.
LEMMA CancellerStays ==
  ASSUME TypeInv, OneCanceller, NEW w \in Workers, HoldsNoMore(w), UNCHANGED <<queue, scheduled>>
  PROVE  OneCanceller'
<1>1. PICK row \in WorkerRow :
        /\ worker' = [worker EXCEPT ![w] = row]
        /\ row.at \in Cancelling => worker[w].at \in Cancelling /\ row.g = worker[w].g
  BY DEF HoldsNoMore
<1>2. \A v \in Workers : worker'[v].at \in Cancelling =>
        worker[v].at \in Cancelling /\ worker'[v].g = worker[v].g
  BY <1>1 DEF TypeInv
<1> QED
  BY <1>2 DEF OneCanceller

\* One that puts a generation into the queue, if it is in nobody's hand.
LEMMA CancellerSchedules ==
  ASSUME TypeInv, OneCanceller, NEW g \in Gens, Schedule(g),
         \A v \in Workers : worker'[v].at \in Cancelling =>
           worker[v].at \in Cancelling /\ worker'[v].g = worker[v].g
  PROVE  OneCanceller'
<1>1. CASE g \in scheduled \cup backoff \/ Len(queue) = QueueSize
  <2>1. queue' = queue /\ scheduled' = scheduled
    BY <1>1 DEF Schedule, queueVars
  <2> QED
    BY <2>1 DEF OneCanceller
<1>2. CASE ~(g \in scheduled \cup backoff \/ Len(queue) = QueueSize)
  <2>1. queue' = Append(queue, g) /\ scheduled' = scheduled \cup {g} /\ g \notin scheduled
    BY <1>2 DEF Schedule
  <2>2. /\ Len(queue) \in Nat /\ Len(queue') = Len(queue) + 1
        /\ \A i \in 1 .. Len(queue) : queue'[i] = queue[i]
        /\ queue'[Len(queue) + 1] = g
    BY <2>1 DEF TypeInv
  <2>3. \A i \in 1 .. Len(queue') : i \in 1 .. Len(queue) \/ i = Len(queue) + 1
    BY <2>2
  <2>4. \A i \in 1 .. Len(queue) : queue[i] # g
    BY <2>1 DEF OneCanceller
  <2>5. \A v \in Workers : worker'[v].at \in Cancelling => worker'[v].g # g
    BY <2>1 DEF OneCanceller
  <2>6. /\ \A i \in 1 .. Len(queue') : queue'[i] \in scheduled'
        /\ \A i, j \in 1 .. Len(queue') : queue'[i] = queue'[j] => i = j
    BY <2>1, <2>2, <2>3, <2>4 DEF OneCanceller
  <2>7. \A v \in Workers : worker'[v].at \in Cancelling =>
          /\ worker'[v].g \in scheduled'
          /\ \A i \in 1 .. Len(queue') : queue'[i] # worker'[v].g
    BY <2>1, <2>2, <2>3, <2>5 DEF OneCanceller
  <2> QED
    BY <2>6, <2>7 DEF OneCanceller
<1> QED
  BY <1>1, <1>2

\* One that takes a generation out of the queue.
LEMMA CancellerDraws ==
  ASSUME TypeInv, OneCanceller, NEW w \in Workers, Draws(w)
  PROVE  OneCanceller'
<1>1. PICK row \in WorkerRow :
        worker' = [worker EXCEPT ![w] = row] /\ row.at = "cancel" /\ row.g = Head(queue)
  BY DEF Draws
<1>2. queue # <<>> /\ queue' = Tail(queue) /\ scheduled' = scheduled
  BY DEF Draws
<1>3. /\ \A v \in Workers : v # w => worker'[v] = worker[v]
      /\ worker'[w].g = queue[1]
  BY <1>1, <1>2 DEF TypeInv
<1>4. /\ Len(queue) \in Nat /\ Len(queue) >= 1 /\ Len(queue') = Len(queue) - 1
      /\ \A i \in 1 .. Len(queue') : i + 1 \in 1 .. Len(queue) /\ queue'[i] = queue[i + 1]
  BY <1>2 DEF TypeInv
<1>5. /\ \A i \in 1 .. Len(queue') : queue'[i] \in scheduled'
      /\ \A i, j \in 1 .. Len(queue') : queue'[i] = queue'[j] => i = j
  BY <1>2, <1>4 DEF OneCanceller
<1>6. queue[1] \in scheduled /\ \A i \in 1 .. Len(queue') : queue'[i] # queue[1]
  <2>1. 1 \in 1 .. Len(queue)
    BY <1>4
  <2>2. ASSUME NEW i \in 1 .. Len(queue'), queue'[i] = queue[1] PROVE FALSE
    <3>1. i + 1 \in 1 .. Len(queue) /\ queue[i + 1] = queue[1]
      BY <1>4, <2>2
    <3>2. i + 1 = 1
      BY <2>1, <3>1 DEF OneCanceller
    <3> QED
      BY <1>4, <3>2
  <2> QED
    BY <2>1, <2>2 DEF OneCanceller
<1>7. \A v \in Workers : v # w /\ worker[v].at \in Cancelling =>
        /\ worker[v].g \in scheduled /\ worker[v].g # queue[1]
        /\ \A i \in 1 .. Len(queue') : queue'[i] # worker[v].g
  BY <1>4 DEF OneCanceller
<1> QED
  BY <1>2, <1>3, <1>5, <1>6, <1>7 DEF OneCanceller

\* One that is done with a generation.
LEMMA CancellerForgets ==
  ASSUME TypeInv, OneCanceller, NEW w \in Workers, Forget(w) \/ BackOff(w)
  PROVE  OneCanceller'
<1>1. /\ worker[w].at \in Cancelling
      /\ queue' = queue /\ scheduled' = scheduled \ {worker[w].g}
  BY DEF Forget, BackOff, At, Cancelling
<1>2. PICK verdict : Cancelled(w, verdict)
  BY DEF Forget, BackOff
<1>3. /\ \A v \in Workers : v # w => worker'[v] = worker[v]
      /\ worker'[w].at = "drain"
  BY <1>2 DEF Cancelled, TypeInv, WorkerRow
<1>4. worker'[w].at \notin Cancelling
  BY <1>3 DEF Cancelling
<1>5. \A v \in Workers : worker'[v].at \in Cancelling =>
        v # w /\ worker[v].at \in Cancelling /\ worker'[v].g = worker[v].g
              /\ worker[v].g # worker[w].g
  BY <1>1, <1>3, <1>4 DEF OneCanceller
<1> QED
  BY <1>1, <1>5 DEF OneCanceller

LEMMA HandsStep ==
  ASSUME TypeInv, OneDispatcher, OneCanceller, [Next]_vars
  PROVE  OneDispatcher' /\ OneCanceller'
<1>1. CASE Enqueue
  <2>1. NewIsPast /\ UNCHANGED <<worker, queue, scheduled>>
    BY <1>1 DEF Enqueue, NewIsPast, TypeInv, queueVars
  <2>2. \A w \in Workers : worker[w].at \in Processing => worker[w].g \in Gens
    BY DEF TypeInv
  <2> QED
    BY <2>1, <2>2 DEF OneDispatcher, OneCanceller, NewIsPast
<1>2. CASE PollerSchedules
  <2>1. poller \in Gens /\ Schedule(poller) /\ UNCHANGED <<gens, worker>>
    BY <1>2 DEF PollerSchedules, TypeInv, tableVars
  <2>2. OneCanceller'
    BY <2>1, CancellerSchedules
  <2> QED
    BY <2>1, <2>2 DEF OneDispatcher
<1>3. CASE Crash
  <2>1. \A w \in Workers : worker'[w].at \in Unburdened
    BY <1>3 DEF Crash, Idle, Unburdened
  <2>2. \A w \in Workers : worker'[w].at \notin Cancelling /\ worker'[w].at \notin Processing
    BY <2>1, Disjoint
  <2>3. /\ queue' \in Seq(Gens) /\ scheduled' = ToSet(queue')
        /\ \A i, j \in 1 .. Len(queue') : queue'[i] = queue'[j] => i = j
    BY <1>3, OldestType DEF Crash, Recover
  <2>4. \A i \in 1 .. Len(queue') : queue'[i] \in scheduled'
    BY <2>3 DEF ToSet
  <2> QED
    BY <2>2, <2>3, <2>4 DEF OneDispatcher, OneCanceller
<1>4. CASE \E g \in Gens : BackoffEnds(g)
  BY <1>4 DEF BackoffEnds, OneDispatcher, OneCanceller, tableVars
<1>5. ASSUME NEW w \in Workers, Drains(w) PROVE OneDispatcher' /\ OneCanceller'
  <2>1. NewIsPast
    <3>1. UNCHANGED gens \/ gens' = [gens EXCEPT ![worker[w].g].pending = FALSE]
      BY ZenonT(60), <1>5 DEF Drains, Refill, ScheduleRow, Take, Cancel, Kill, CompleteCleanup, Forget,
                  BackOff, tableVars
    <3> QED
      BY SMTT(60), <3>1 DEF NewIsPast, TypeInv
  <2>2. CASE Draws(w)
    <3>1. OneCanceller'
      BY <2>2, CancellerDraws
    <3>2. \A v \in Workers : worker'[v].at \in Processing => v # w
      BY <2>2 DEF Draws, TypeInv, Processing
    <3>3. \A v \in Workers : v # w => worker'[v] = worker[v]
      BY <2>2 DEF Draws, TypeInv
    <3>4. \A v \in Workers : worker[v].at \in Processing => worker[v].g \in Gens
      BY DEF TypeInv
    <3> QED
      BY <2>1, <3>1, <3>2, <3>3, <3>4 DEF OneDispatcher, NewIsPast
  <2>3. CASE HoldsNoMore(w)
    <3>1. OneDispatcher'
      BY <2>1, <2>3, DispatcherStays
    <3>2. CASE Forget(w) \/ BackOff(w)
      BY <3>1, <3>2, CancellerForgets
    <3>3. CASE ScheduleRow(w)
      <4>1. Head(worker[w].rows) \in Gens
        BY <3>3 DEF ScheduleRow, WorkerRow, TypeInv
      <4>2. \A v \in Workers : worker'[v].at \in Cancelling =>
              worker[v].at \in Cancelling /\ worker'[v].g = worker[v].g
        BY <2>3 DEF HoldsNoMore, TypeInv
      <4>3. Schedule(Head(worker[w].rows))
        BY <3>3 DEF ScheduleRow
      <4>4. OneCanceller'
        BY <4>1, <4>2, <4>3, CancellerSchedules
      <4> QED
        BY <3>1, <4>4
    <3>4. CASE UNCHANGED <<queue, scheduled>>
      BY <2>3, <3>1, <3>4, CancellerStays
    <3>5. CASE Take(w) /\ ~UNCHANGED <<queue, scheduled>>
      <4>1. worker' = [worker EXCEPT ![w].at = "cancel", ![w].left = @ - 1, ![w].g = Head(queue)]
        BY <3>5 DEF Take
      <4>2. worker'[w].at = "cancel" /\ worker[w].at = "drain"
        BY <3>5, <4>1 DEF Take, At, TypeInv, WorkerRow
      <4>3. worker'[w].at \in Cancelling => worker[w].at \in Cancelling
        BY <2>3 DEF HoldsNoMore, TypeInv
      <4> QED
        BY <4>2, <4>3 DEF Cancelling
    <3> QED
      BY Zenon, <1>5, <3>2, <3>3, <3>4, <3>5
      DEF Drains, Refill, Cancel, Kill, CompleteCleanup, queueVars
  <2> QED
    BY <1>5, <2>2, <2>3, DrainsHold
<1>6. ASSUME NEW w \in Workers, Processes(w) PROVE OneDispatcher' /\ OneCanceller'
  <2>1. UNCHANGED <<queue, scheduled>>
    BY <1>6 DEF Processes, Claim, Acquire, Prepare, Start, Started, Read, Close, Reap, Settle,
                queueVars
  <2>2. CASE Claims(w)
    <3>1. OneDispatcher'
      BY <2>2, DispatcherClaims
    <3>2. \A v \in Workers : worker'[v].at \in Cancelling => worker'[v] = worker[v]
      BY <2>2 DEF Claims, TypeInv, Cancelling
    <3> QED
      BY <2>1, <3>1, <3>2 DEF OneCanceller
  <2>3. CASE HoldsNoMore(w)
    <3>1. NewIsPast
      <4>1. CASE \E g \in Gens : gens' = [gens EXCEPT ![g].status = "active"]
        BY <4>1 DEF NewIsPast, TypeInv
      <4>2. CASE \/ gens' = [gens EXCEPT ![worker[w].g].status = "completed"]
                 \/ gens' = [gens EXCEPT ![worker[w].g].status = "failed"]
        BY <4>2 DEF NewIsPast, TypeInv
      <4>3. CASE UNCHANGED gens
        BY <4>3 DEF NewIsPast
      <4> QED
        BY <1>6, <4>1, <4>2, <4>3
        DEF Processes, Claim, Acquire, Prepare, Start, Started, Read, Close, Reap, Settle, tableVars
    <3> QED
      BY <2>1, <2>3, <3>1, DispatcherStays, CancellerStays
  <2> QED
    BY <1>6, <2>2, <2>3, ProcessesHold
<1>7. ASSUME NEW w \in Workers, Dies(w) PROVE OneDispatcher' /\ OneCanceller'
  <2>1. HoldsNoMore(w)
    BY <1>7, DiesHolds
  <2>2. UNCHANGED <<gens, queue, scheduled>>
    BY <1>7 DEF Dies, tableVars, queueVars
  <2> QED
    BY <2>1, <2>2, DispatcherStays, CancellerStays DEF NewIsPast
<1>8. CASE \E s \in Sessions : End(s)
  BY <1>8 DEF End, OneDispatcher, OneCanceller, tableVars, queueVars
<1>9. CASE UNCHANGED vars
  BY <1>9 DEF OneDispatcher, OneCanceller, vars
<1> QED
  BY <1>1, <1>2, <1>3, <1>4, <1>5, <1>6, <1>7, <1>8, <1>9 DEF Next

-----------------------------------------------------------------------------
(* Sessions have someone to end them *)

\* The places of a worker that matter to a session.
Dispatching == {"started", "read", "close", "reap"}
Watched == Dispatching \cup {"kill", "cancelled"}

\* A step that gives no session and no mark, and leaves the watchers where they are.
LEMMA QuietStep ==
  ASSUME SessionsSafe, UNCHANGED <<session, keys>>,
         \A g \in Gens : gens[g].pending => gens'[g].pending,
         \A v \in Workers : worker[v].at \in Watched \/ worker'[v].at \in Watched =>
           worker'[v].at = worker[v].at /\ worker'[v].g = worker[v].g
  PROVE  SessionsSafe'
<1> SUFFICES ASSUME NEW g \in Gens PROVE SessionIsSafe(g)'
  BY DEF SessionsSafe
<1>1. /\ Held(g, {"kill"})' <=> Held(g, {"kill"})
      /\ Held(g, {"cancelled"})' <=> Held(g, {"cancelled"})
      /\ Held(g, {"started", "reap"})' <=> Held(g, {"started", "reap"})
      /\ Dispatched(g)' <=> Dispatched(g)
  BY DEF Held, Dispatched, Watched, Dispatching
<1>2. SessionIsSafe(g)
  BY DEF SessionsSafe
<1> QED
  BY <1>1, <1>2 DEF SessionIsSafe, MarkIsKill, CancelledIsEnded, IsAccountedFor, SessionOf

\* What is seen of generation h when a worker with another one moves.
LEMMA OthersSee ==
  ASSUME TypeInv, NEW w \in Workers, NEW h \in Gens, worker[w].g # h, worker'[w].g # h,
         \A v \in Workers : v # w => worker'[v] = worker[v],
         SessionIsSafe(h), session'[h] = session[h], h \in keys' => h \in keys,
         gens[h].pending => gens'[h].pending
  PROVE  SessionIsSafe(h)'
<1>1. /\ Held(h, {"kill"})' <=> Held(h, {"kill"})
      /\ Held(h, {"cancelled"})' <=> Held(h, {"cancelled"})
      /\ Held(h, {"started", "reap"})' <=> Held(h, {"started", "reap"})
      /\ Dispatched(h)' <=> Dispatched(h)
  BY DEF Held, Dispatched
<1> QED
  BY <1>1 DEF SessionIsSafe, MarkIsKill, CancelledIsEnded, IsAccountedFor, SessionOf

\* What is seen of a generation when the worker that cancels it moves.
LEMMA CancellerSees ==
  ASSUME TypeInv, OneCanceller, OneCanceller', NEW w \in Workers, NEW g \in Gens,
         worker[w].g = g, worker'[w].g = g,
         worker[w].at \in Cancelling, worker'[w].at \in Cancelling,
         \A v \in Workers : v # w => worker'[v] = worker[v]
  PROVE  /\ Held(g, {"kill"}) <=> worker[w].at = "kill"
         /\ Held(g, {"kill"})' <=> worker'[w].at = "kill"
         /\ Held(g, {"cancelled"}) <=> worker[w].at = "cancelled"
         /\ Held(g, {"cancelled"})' <=> worker'[w].at = "cancelled"
         /\ Held(g, {"started", "reap"})' <=> Held(g, {"started", "reap"})
         /\ Held(g, {"started", "reap"}) => Dispatched(g)
         /\ Dispatched(g)' <=> Dispatched(g)
<1>1. \A v \in Workers : v # w /\ worker[v].at \in Cancelling => worker[v].g # g
  BY DEF OneCanceller
<1>2. "kill" \in Cancelling /\ "cancelled" \in Cancelling
  BY DEF Cancelling
<1>3. /\ Held(g, {"kill"}) <=> worker[w].at = "kill"
      /\ Held(g, {"cancelled"}) <=> worker[w].at = "cancelled"
  BY <1>1, <1>2 DEF Held
<1>4. /\ Held(g, {"kill"})' <=> worker'[w].at = "kill"
      /\ Held(g, {"cancelled"})' <=> worker'[w].at = "cancelled"
  BY <1>1, <1>2 DEF Held
<1>5. worker[w].at \notin Dispatching /\ worker'[w].at \notin Dispatching
  BY DEF Dispatching, Cancelling
<1>6. /\ Held(g, {"started", "reap"})' <=> Held(g, {"started", "reap"})
      /\ Held(g, {"started", "reap"}) => Dispatched(g)
      /\ Dispatched(g)' <=> Dispatched(g)
  BY <1>5 DEF Held, Dispatched, Dispatching
<1> QED
  BY <1>3, <1>4, <1>6

\* What is seen of a generation when the worker of its turn moves.
LEMMA DispatcherSees ==
  ASSUME TypeInv, OneDispatcher, NEW w \in Workers, NEW g \in Gens,
         worker[w].g = g, worker'[w].g = g,
         worker[w].at \in Processing, worker'[w].at \in Processing,
         \A v \in Workers : v # w => worker'[v] = worker[v]
  PROVE  /\ Held(g, {"kill"})' <=> Held(g, {"kill"})
         /\ Held(g, {"cancelled"})' <=> Held(g, {"cancelled"})
         /\ Held(g, {"started", "reap"}) <=> worker[w].at \in {"started", "reap"}
         /\ Held(g, {"started", "reap"})' <=> worker'[w].at \in {"started", "reap"}
         /\ Dispatched(g) <=> worker[w].at \in Dispatching
         /\ Dispatched(g)' <=> worker'[w].at \in Dispatching
<1>1. \A v \in Workers : v # w /\ worker[v].at \in Processing => worker[v].g # g
  BY DEF OneDispatcher
<1>2. Dispatching \subseteq Processing /\ {"started", "reap"} \subseteq Processing
  BY DEF Dispatching, Processing
<1>3. /\ Held(g, {"started", "reap"}) <=> worker[w].at \in {"started", "reap"}
      /\ Dispatched(g) <=> worker[w].at \in Dispatching
  BY <1>1, <1>2 DEF Held, Dispatched, Dispatching
<1>4. /\ Held(g, {"started", "reap"})' <=> worker'[w].at \in {"started", "reap"}
      /\ Dispatched(g)' <=> worker'[w].at \in Dispatching
  BY <1>1, <1>2 DEF Held, Dispatched, Dispatching
<1>5. worker[w].at \notin {"kill", "cancelled"} /\ worker'[w].at \notin {"kill", "cancelled"}
  BY DEF Processing
<1>6. /\ Held(g, {"kill"})' <=> Held(g, {"kill"})
      /\ Held(g, {"cancelled"})' <=> Held(g, {"cancelled"})
  BY <1>5 DEF Held
<1> QED
  BY <1>3, <1>4, <1>6

LEMMA GotoMoves ==
  ASSUME TypeInv, NEW w \in Workers, NEW at, Goto(w, at)
  PROVE  /\ worker'[w].at = at /\ worker'[w].g = worker[w].g
         /\ \A v \in Workers : v # w => worker'[v] = worker[v]
BY DEF TypeInv, Goto, WorkerRow

LEMMA CancelIsSafe ==
  ASSUME TypeInv, OneCanceller, OneCanceller', SessionsSafe, NEW w \in Workers, Cancel(w)
  PROVE  SessionsSafe'
<1>0. worker[w].at = "cancel"
  BY DEF Cancel, At
<1> PICK g \in Gens : g = worker[w].g
  BY <1>0 DEF TypeInv, Cancelling
<1>1. worker[w].at = "cancel" /\ SessionIsSafe(g)
  BY <1>0 DEF SessionsSafe
<1>2. UNCHANGED <<gens, session>>
  BY DEF Cancel, SkipKill, BeginKill, sessionVars, tableVars
<1>3. \/ g \in keys /\ keys' = keys /\ Goto(w, "cancelled")
      \/ keys' = keys \cup {g} /\ Goto(w, "kill")
      \/ keys' = keys /\ Goto(w, "not_cancelled")
  BY DEF Cancel, SkipKill, BeginKill, sessionVars, SessionOf
<1>4. /\ worker'[w].at \in Cancelling /\ worker'[w].g = g
      /\ \A v \in Workers : v # w => worker'[v] = worker[v]
      /\ \/ g \in keys /\ keys' = keys /\ worker'[w].at = "cancelled"
         \/ keys' = keys \cup {g} /\ worker'[w].at = "kill"
         \/ keys' = keys /\ worker'[w].at = "not_cancelled"
  BY <1>3, GotoMoves DEF Cancelling
<1>5. /\ Held(g, {"kill"}) <=> worker[w].at = "kill"
      /\ Held(g, {"kill"})' <=> worker'[w].at = "kill"
      /\ Held(g, {"cancelled"}) <=> worker[w].at = "cancelled"
      /\ Held(g, {"cancelled"})' <=> worker'[w].at = "cancelled"
      /\ Held(g, {"started", "reap"})' <=> Held(g, {"started", "reap"})
      /\ Held(g, {"started", "reap"}) => Dispatched(g)
      /\ Dispatched(g)' <=> Dispatched(g)
  BY <1>1, <1>4, CancellerSees DEF Cancelling
<1>6. SessionIsSafe(g)'
  BY <1>1, <1>2, <1>4, <1>5
  DEF SessionIsSafe, MarkIsKill, CancelledIsEnded, IsAccountedFor, SessionOf
<1>7. ASSUME NEW h \in Gens, h # g PROVE SessionIsSafe(h)'
  BY <1>2, <1>4, <1>7, OthersSee DEF SessionsSafe
<1> QED
  BY <1>6, <1>7 DEF SessionsSafe

LEMMA KillIsSafe ==
  ASSUME TypeInv, OneCanceller, OneCanceller', SessionsSafe, NEW w \in Workers, Kill(w)
  PROVE  SessionsSafe'
<1>0. worker[w].at = "kill"
  BY DEF Kill, At
<1> PICK g \in Gens : g = worker[w].g
  BY <1>0 DEF TypeInv, Cancelling
<1>1. worker[w].at = "kill" /\ g \in Sessions
  BY <1>0, RouterAssumption DEF Gens
<1>2. UNCHANGED gens
  BY DEF Kill, tableVars
<1>3. \/ KillSucceeds(g) /\ Goto(w, "cancelled")
      \/ KillFails(g, Left(g)) /\ Goto(w, "not_cancelled")
  BY DEF Kill, SessionOf
<1>4. /\ worker'[w].at \in Cancelling /\ worker'[w].g = g /\ worker'[w].at # "kill"
      /\ \A v \in Workers : v # w => worker'[v] = worker[v]
  BY <1>3, GotoMoves DEF Cancelling
<1>5. /\ Held(g, {"kill"})' <=> worker'[w].at = "kill"
      /\ Held(g, {"cancelled"})' <=> worker'[w].at = "cancelled"
      /\ Dispatched(g)' <=> Dispatched(g)
  BY <1>1, <1>4, CancellerSees DEF Cancelling
<1>6. /\ \A h \in Gens : h # g => session'[h] = session[h] /\ (h \in keys' => h \in keys)
      /\ \/ session'[g] = "none"
         \/ /\ worker'[w].at = "not_cancelled" /\ g \notin keys'
            /\ session'[g] = Left(g)
  <2>1. CASE KillSucceeds(g)
    BY <1>1, <2>1 DEF KillSucceeds, TypeInv
  <2>2. CASE KillFails(g, Left(g)) /\ Goto(w, "not_cancelled")
    <3>1. keys' = keys \ {g}
      BY <2>2 DEF KillFails
    <3>2. worker'[w].at = "not_cancelled"
      BY <2>2, GotoMoves
    <3>3. \/ session[g] = "none" /\ session' = session
          \/ session' = [session EXCEPT ![g] = Left(g)]
          \/ session' = [session EXCEPT ![g] = "none"]
      BY <2>2 DEF KillFails, Runs
    <3>4. keys' = keys \ {g} /\ session \in [Sessions -> {"none", "running", "stray"}]
      BY <3>1 DEF TypeInv
    <3>5. Gens \subseteq Sessions
      BY RouterAssumption DEF Gens
    <3> QED
      BY <1>1, <3>2, <3>3, <3>4, <3>5
  <2> QED
    BY <1>3, <2>1, <2>2
<1>7. Left(g) = "running" => gens[g].pending \/ Dispatched(g)
  BY DEF Left
<1>8. SessionIsSafe(g)'
  BY <1>2, <1>4, <1>5, <1>6, <1>7
  DEF SessionIsSafe, MarkIsKill, CancelledIsEnded, IsAccountedFor, SessionOf
<1>9. ASSUME NEW h \in Gens, h # g PROVE SessionIsSafe(h)'
  BY <1>2, <1>4, <1>6, <1>9, OthersSee DEF SessionsSafe
<1> QED
  BY <1>8, <1>9 DEF SessionsSafe

LEMMA CompleteIsSafe ==
  ASSUME TypeInv, OneCanceller, OneCanceller', SessionsSafe, NEW w \in Workers, CompleteCleanup(w)
  PROVE  SessionsSafe'
<1>0. worker[w].at = "cancelled"
  BY DEF CompleteCleanup, At
<1> PICK g \in Gens : g = worker[w].g
  BY <1>0 DEF TypeInv, Cancelling
<1>1. worker[w].at = "cancelled" /\ SessionIsSafe(g)
  BY <1>0 DEF SessionsSafe
<1>2. /\ UNCHANGED <<session, keys>>
      /\ \A h \in Gens : h # g => gens'[h] = gens[h]
      /\ worker'[w].at = "forget" \/ UNCHANGED gens
  BY GotoMoves DEF CompleteCleanup, TypeInv
<1>3. /\ worker'[w].at \in {"forget", "not_cancelled"} /\ worker'[w].g = g
      /\ \A v \in Workers : v # w => worker'[v] = worker[v]
  BY GotoMoves DEF CompleteCleanup
<1>4. /\ Held(g, {"kill"}) <=> worker[w].at = "kill"
      /\ Held(g, {"kill"})' <=> worker'[w].at = "kill"
      /\ Held(g, {"cancelled"}) <=> worker[w].at = "cancelled"
      /\ Held(g, {"cancelled"})' <=> worker'[w].at = "cancelled"
      /\ Held(g, {"started", "reap"})' <=> Held(g, {"started", "reap"})
      /\ Dispatched(g)' <=> Dispatched(g)
  BY <1>1, <1>3, CancellerSees DEF Cancelling
<1>5. SessionIsSafe(g)'
  BY <1>1, <1>2, <1>3, <1>4
  DEF SessionIsSafe, MarkIsKill, CancelledIsEnded, IsAccountedFor, SessionOf
<1>6. ASSUME NEW h \in Gens, h # g PROVE SessionIsSafe(h)'
  BY <1>2, <1>3, <1>6, OthersSee DEF SessionsSafe
<1> QED
  BY <1>5, <1>6 DEF SessionsSafe

-----------------------------------------------------------------------------
(* A turn's worker goes from its place to another with the same generation *)

LEMMA LeaveMoves ==
  ASSUME TypeInv, NEW w \in Workers, NEW outcome, Leave(w, outcome)
  PROVE  /\ worker'[w].at = "settle" /\ worker'[w].g = worker[w].g
         /\ \A v \in Workers : v # w => worker'[v] = worker[v]
BY DEF TypeInv, Leave, WorkerRow, Idle

LEMMA ClosedMoves ==
  ASSUME TypeInv, NEW w \in Workers, Closed(w)
  PROVE  /\ worker'[w].at \in {"token", "settle"} /\ worker'[w].g = worker[w].g
         /\ \A v \in Workers : v # w => worker'[v] = worker[v]
<1>1. CASE worker[w].outcome = "expired"
  BY <1>1 DEF Closed, TypeInv, WorkerRow
<1>2. CASE worker[w].outcome # "expired"
  BY <1>2, LeaveMoves DEF Closed
<1> QED
  BY <1>1, <1>2

\* A turn's worker moves. Its session, if it runs afterwards, is in its hands, and
\* a mark is a deletion under way; or it ran before, and the worker may go, since it
\* found a mark, or had not begun with it.
LEMMA TurnIsSafe ==
  ASSUME TypeInv, OneDispatcher, OneCanceller, SessionsSafe, NEW w \in Workers, NEW g \in Gens,
         worker[w].g = g, worker'[w].g = g,
         worker[w].at \in Processing, worker'[w].at \in Processing,
         \A v \in Workers : v # w => worker'[v] = worker[v],
         UNCHANGED gens,
         \A h \in Gens : h # g => session'[h] = session[h] /\ (h \in keys' => h \in keys),
         session'[g] = "running" =>
           \/ /\ worker'[w].at \in Dispatching
              /\ g \in keys' => worker'[w].at \in {"started", "reap"} \/ Held(g, {"kill"})
           \/ /\ session[g] = "running" /\ keys' = keys
              /\ worker[w].at \notin {"started", "reap"} /\ g \in keys
           \/ /\ session[g] = "running" /\ keys' = keys
              /\ worker[w].at \notin Dispatching
  PROVE  SessionsSafe'
<1>1. SessionIsSafe(g)
  BY DEF SessionsSafe
<1>2. /\ Held(g, {"kill"})' <=> Held(g, {"kill"})
      /\ Held(g, {"cancelled"})' <=> Held(g, {"cancelled"})
      /\ Held(g, {"started", "reap"}) <=> worker[w].at \in {"started", "reap"}
      /\ Held(g, {"started", "reap"})' <=> worker'[w].at \in {"started", "reap"}
      /\ Dispatched(g) <=> worker[w].at \in Dispatching
      /\ Dispatched(g)' <=> worker'[w].at \in Dispatching
  BY DispatcherSees
<1>3. ~(Held(g, {"kill"}) /\ Held(g, {"cancelled"}))
  BY DEF Held, OneCanceller, Cancelling
<1>4. {"started", "reap"} \subseteq Dispatching
  BY DEF Dispatching
<1>5. SessionIsSafe(g)'
  <2>1. CASE session'[g] # "running"
    BY <2>1 DEF SessionIsSafe, MarkIsKill, CancelledIsEnded, IsAccountedFor, SessionOf
  <2>2. CASE /\ worker'[w].at \in Dispatching
             /\ g \in keys' => worker'[w].at \in {"started", "reap"} \/ Held(g, {"kill"})
    BY <1>2, <2>2 DEF SessionIsSafe, MarkIsKill, CancelledIsEnded, IsAccountedFor, SessionOf
  <2>3. CASE /\ session[g] = "running" /\ keys' = keys
             /\ worker[w].at \notin {"started", "reap"} /\ g \in keys
    <3>1. Held(g, {"kill"})
      BY <1>1, <1>2, <2>3 DEF SessionIsSafe, MarkIsKill, SessionOf
    <3> QED
      BY <1>2, <1>3, <3>1 DEF SessionIsSafe, MarkIsKill, CancelledIsEnded, IsAccountedFor, SessionOf
  <2>4. CASE /\ session[g] = "running" /\ keys' = keys
             /\ worker[w].at \notin Dispatching
    BY <1>1, <1>2, <1>4, <2>4
    DEF SessionIsSafe, MarkIsKill, CancelledIsEnded, IsAccountedFor, SessionOf
  <2> QED
    BY <2>1, <2>2, <2>3, <2>4
<1>6. ASSUME NEW h \in Gens, h # g PROVE SessionIsSafe(h)'
  BY <1>6, OthersSee DEF SessionsSafe
<1> QED
  BY <1>5, <1>6 DEF SessionsSafe

LEMMA StartIsSafe ==
  ASSUME TypeInv, OneDispatcher, OneCanceller, SessionsSafe, NEW w \in Workers, Start(w)
  PROVE  SessionsSafe'
<1>0. worker[w].at = "start"
  BY DEF Start, At
<1> PICK g \in Gens : g = worker[w].g
  BY <1>0 DEF TypeInv, Processing
<1>1. g \in Sessions /\ UNCHANGED <<gens, keys>>
  BY RouterAssumption DEF Start, Gens, tableVars, Open, OpenFails
<1>2. \/ Open(g) /\ Goto(w, "started")
      \/ OpenFails(g) /\ Leave(w, "raised")
  BY DEF Start, Stay, SessionOf
<1>3. /\ worker'[w].g = g
      /\ \A v \in Workers : v # w => worker'[v] = worker[v]
      /\ \/ Open(g) /\ worker'[w].at = "started"
         \/ OpenFails(g) /\ worker'[w].at = "settle"
  BY <1>2, GotoMoves, LeaveMoves
<1>4. /\ \A h \in Gens : h # g => session'[h] = session[h]
      /\ session'[g] = "running" => worker'[w].at = "started" \/ session[g] = "running"
  <2>1. session \in [Sessions -> {"none", "running", "stray"}]
    BY DEF TypeInv
  <2>2. CASE Open(g) /\ worker'[w].at = "started"
    BY <1>1, <2>1, <2>2 DEF Open
  <2>3. CASE OpenFails(g)
    <3>1. session' = session \/ session' = [session EXCEPT ![g] = "stray"]
      BY <2>3, Zenon DEF OpenFails
    <3>2. Gens \subseteq Sessions
      BY RouterAssumption DEF Gens
    <3> QED
      BY <1>1, <2>1, <3>1, <3>2
  <2> QED
    BY <1>3, <2>2, <2>3
<1>6. worker[w].at \in Processing /\ worker'[w].at \in Processing /\ worker[w].at \notin Dispatching
  BY <1>0, <1>3 DEF Processing, Dispatching
<1>7. "started" \in Dispatching
  BY DEF Dispatching
<1> QED
  BY <1>1, <1>3, <1>4, <1>6, <1>7, TurnIsSafe

LEMMA StartedIsSafe ==
  ASSUME TypeInv, OneDispatcher, OneCanceller, SessionsSafe, NEW w \in Workers, Started(w)
  PROVE  SessionsSafe'
<1>0. worker[w].at = "started"
  BY DEF Started, At
<1> PICK g \in Gens : g = worker[w].g
  BY <1>0 DEF TypeInv, Processing
<1>1. UNCHANGED <<gens, session>> /\ keys' = keys \ {g}
  BY DEF Started, ForgetDeletion, SessionOf, tableVars
<1>2. /\ worker'[w].at = "read" /\ worker'[w].g = g
      /\ \A v \in Workers : v # w => worker'[v] = worker[v]
  BY GotoMoves DEF Started, Stay
<1>3. worker[w].at \in Processing /\ worker'[w].at \in Processing /\ worker'[w].at \in Dispatching
  BY <1>0, <1>2 DEF Processing, Dispatching
<1> QED
  BY <1>1, <1>2, <1>3, TurnIsSafe

\* The session is used, up to its end.
LEMMA ReadIsSafe ==
  ASSUME TypeInv, OneDispatcher, OneCanceller, SessionsSafe, NEW w \in Workers, Read(w)
  PROVE  SessionsSafe'
<1>0. worker[w].at = "read"
  BY DEF Read, At
<1> PICK g \in Gens : g = worker[w].g
  BY <1>0 DEF TypeInv, Processing
<1>1. UNCHANGED <<gens, session, keys>>
  BY DEF Read, sessionVars, tableVars
<1>2. /\ worker'[w].at \in {"read", "close"} /\ worker'[w].g = g
      /\ \A v \in Workers : v # w => worker'[v] = worker[v]
  BY <1>0 DEF Read, Stop, TypeInv, WorkerRow
<1>3. worker[w].at \in Processing /\ worker'[w].at \in Processing /\ worker'[w].at \in Dispatching
  BY <1>0, <1>2 DEF Processing, Dispatching
<1>4. session[g] = "running" /\ g \in keys => Held(g, {"kill"}) \/ Held(g, {"started", "reap"})
  BY DEF SessionsSafe, SessionIsSafe, MarkIsKill, SessionOf
<1>5. ~Held(g, {"started", "reap"})
  <2>1. {"started", "reap"} \subseteq Processing
    BY DEF Processing
  <2> QED
    BY <1>0, <1>3, <2>1 DEF Held, OneDispatcher
<1> QED
  BY <1>1, <1>2, <1>3, <1>4, <1>5, TurnIsSafe

LEMMA CloseIsSafe ==
  ASSUME TypeInv, OneDispatcher, OneCanceller, SessionsSafe, NEW w \in Workers, Close(w)
  PROVE  SessionsSafe'
<1>0. worker[w].at = "close"
  BY DEF Close, At
<1> PICK g \in Gens : g = worker[w].g
  BY <1>0 DEF TypeInv, Processing
<1>1. UNCHANGED <<gens, session>>
  BY DEF Close, SkipKill, BeginKill, sessionVars, tableVars
<1>2. \/ g \in keys /\ keys' = keys /\ Closed(w)
      \/ keys' = keys \cup {g} /\ Goto(w, "reap")
  BY DEF Close, SkipKill, BeginKill, sessionVars, SessionOf, Stay
<1>3. /\ worker'[w].g = g
      /\ \A v \in Workers : v # w => worker'[v] = worker[v]
      /\ \/ g \in keys /\ keys' = keys /\ worker'[w].at \in {"token", "settle"}
         \/ keys' = keys \cup {g} /\ worker'[w].at = "reap"
  BY <1>2, GotoMoves, ClosedMoves
<1>4. worker[w].at \in Processing /\ worker'[w].at \in Processing
  BY <1>0, <1>3 DEF Processing
<1>5. "reap" \in Dispatching
  BY DEF Dispatching
<1> QED
  BY <1>0, <1>1, <1>3, <1>4, <1>5, TurnIsSafe

LEMMA ReapIsSafe ==
  ASSUME TypeInv, OneDispatcher, OneCanceller, SessionsSafe, NEW w \in Workers, Reap(w)
  PROVE  SessionsSafe'
<1>0. worker[w].at = "reap"
  BY DEF Reap, At
<1> PICK g \in Gens : g = worker[w].g
  BY <1>0 DEF TypeInv, Processing
<1>1. g \in Sessions /\ UNCHANGED gens
  BY RouterAssumption DEF Reap, Gens, tableVars
<1>2. /\ worker'[w].at \in {"token", "settle"} /\ worker'[w].g = g
      /\ \A v \in Workers : v # w => worker'[v] = worker[v]
  BY ClosedMoves DEF Reap
<1>3. /\ \A h \in Gens : h # g => session'[h] = session[h] /\ (h \in keys' => h \in keys)
      /\ session'[g] # "running"
  <2>1. CASE KillSucceeds(g)
    BY <1>1, <2>1 DEF KillSucceeds, TypeInv
  <2>2. CASE KillFails(g, "stray")
    <3>1. /\ keys' = keys \ {g}
          /\ \/ session' = session /\ session[g] = "none"
             \/ \E left \in {"stray", "none"} : session' = [session EXCEPT ![g] = left]
      BY <2>2 DEF KillFails, Runs
    <3>2. session \in [Sessions -> {"none", "running", "stray"}]
      BY DEF TypeInv
    <3>3. Gens \subseteq Sessions
      BY RouterAssumption DEF Gens
    <3>4. CASE session' = session /\ session[g] = "none"
      BY <3>1, <3>4
    <3>5. ASSUME NEW left \in {"stray", "none"}, session' = [session EXCEPT ![g] = left]
          PROVE  /\ \A h \in Gens : h # g => session'[h] = session[h]
                 /\ session'[g] # "running"
      BY <1>1, <3>2, <3>3, <3>5
    <3> QED
      BY <3>1, <3>4, <3>5
  <2> QED
    BY <2>1, <2>2 DEF Reap, SessionOf
<1>4. worker[w].at \in Processing /\ worker'[w].at \in Processing
  BY <1>0, <1>2 DEF Processing
<1> QED
  BY <1>1, <1>2, <1>3, <1>4, TurnIsSafe

-----------------------------------------------------------------------------
(* Every step *)

\* A worker whose places before and after are not at a session.
LEMMA Elsewhere ==
  ASSUME TypeInv, SessionsSafe, NEW w \in Workers, UNCHANGED <<session, keys>>,
         \A g \in Gens : gens[g].pending => gens'[g].pending,
         \A v \in Workers : v # w => worker'[v] = worker[v],
         worker[w].at \notin Watched, worker'[w].at \notin Watched
  PROVE  SessionsSafe'
BY QuietStep

LEMMA SafeStep ==
  ASSUME TypeInv, OneDispatcher, OneCanceller, OneCanceller', SessionsSafe, [Next]_vars
  PROVE  SessionsSafe'
<1>1. CASE Enqueue
  <2>1. \A g \in Gens : gens[g].pending => gens'[g].pending
    BY <1>1 DEF Enqueue, TypeInv
  <2> QED
    BY <1>1, <2>1, QuietStep DEF Enqueue, sessionVars
<1>2. CASE PollerSchedules
  BY <1>2, QuietStep DEF PollerSchedules, tableVars, sessionVars
<1>3. CASE Crash
  <2> SUFFICES ASSUME NEW g \in Gens, session'[g] = "running"
               PROVE  keys' = {} /\ ~Held(g, {"cancelled"})' /\ gens'[g].pending
    BY DEF SessionsSafe, SessionIsSafe, MarkIsKill, CancelledIsEnded, IsAccountedFor, SessionOf
  <2>1. keys' = {} /\ \A w \in Workers : worker'[w].at = "refill"
    BY <1>3 DEF Crash, Idle
  <2>2. ~Held(g, {"cancelled"})'
    BY <2>1 DEF Held
  <2>3. g \in Sessions
    BY RouterAssumption DEF Gens
  <2>4. IsActive(g) \/ gens[g].pending
    BY <1>3, <2>3 DEF Crash, Runs, SessionOf
  <2> QED
    BY <1>3, <2>1, <2>2, <2>4 DEF Crash, Recover
<1>4. CASE \E g \in Gens : BackoffEnds(g)
  BY <1>4, QuietStep DEF BackoffEnds, tableVars, sessionVars
<1>5. ASSUME NEW w \in Workers, Drains(w) PROVE SessionsSafe'
  <2>1. CASE Cancel(w)
    BY <2>1, CancelIsSafe
  <2>2. CASE Kill(w)
    BY <2>2, KillIsSafe
  <2>3. CASE CompleteCleanup(w)
    BY <2>3, CompleteIsSafe
  <2>4. CASE Refill(w) \/ ScheduleRow(w) \/ Take(w) \/ Forget(w) \/ BackOff(w)
    <3>1. UNCHANGED <<gens, session, keys>> /\ \A v \in Workers : v # w => worker'[v] = worker[v]
      BY ZenonT(60), <2>4 DEF Refill, ScheduleRow, Take, Forget, BackOff, Cancelled, TypeInv, tableVars,
                  sessionVars
    <3>2. worker[w].at \notin Watched
      BY Zenon, <2>4 DEF Refill, ScheduleRow, Take, Forget, BackOff, At, Watched, Dispatching
    <3>3. worker'[w].at \notin Watched
      <4>0. worker[w] \in WorkerRow /\ worker \in [Workers -> WorkerRow]
        BY DEF TypeInv
      <4>1. \A r, size : r.at \in Unburdened => Refilled(r, size).at \in Unburdened
        BY DEF Refilled, Idle, Unburdened
      <4>2. CASE Refill(w)
        <5>1. PICK rows \in Oldest({g \in Gens : gens[g].pending}) :
                LET r == [worker[w] EXCEPT !.at = IF @ = "refill" THEN "schedule"
                                                  ELSE "schedule_again",
                                           !.rows = rows]
                IN  worker' = [worker EXCEPT ![w] = IF r.rows = <<>> THEN Refilled(r, Len(queue))
                                                    ELSE r]
          BY Zenon, <4>2 DEF Refill
        <5> DEFINE r == [worker[w] EXCEPT !.at = IF @ = "refill" THEN "schedule"
                                                 ELSE "schedule_again",
                                          !.rows = rows]
        <5>2. r.at \in {"schedule", "schedule_again"}
          BY <4>0 DEF WorkerRow
        <5>3. r.at \in Unburdened
          BY <5>2 DEF Unburdened
        <5>4. worker'[w] = r \/ worker'[w] = Refilled(r, Len(queue))
          BY <4>0, <5>1
        <5>5. worker'[w].at \in Unburdened
          BY <4>1, <5>3, <5>4
        <5> QED
          BY <5>5 DEF Unburdened, Watched, Dispatching
      <4>3. CASE ScheduleRow(w)
        <5> DEFINE r == [worker[w] EXCEPT !.rows = Tail(@)]
        <5>1. r.at \in {"schedule", "schedule_again"}
          BY <4>0, <4>3 DEF ScheduleRow, WorkerRow
        <5>2. r.at \in Unburdened
          BY <5>1 DEF Unburdened
        <5>3. worker'[w] = r \/ worker'[w] = Refilled(r, Len(queue'))
          BY <4>0, <4>3 DEF ScheduleRow
        <5>4. worker'[w].at \in Unburdened
          BY <4>1, <5>2, <5>3
        <5> QED
          BY <5>4 DEF Unburdened, Watched, Dispatching
      <4>4. CASE Take(w)
        <5>1. worker'[w].at \in {"cancel", "refill_again"}
          BY <4>0, <4>4 DEF Take, WorkerRow
        <5> QED
          BY <5>1 DEF Watched, Dispatching
      <4>5. CASE Forget(w) \/ BackOff(w)
        <5>1. worker'[w].at = "drain"
          BY <4>0, <4>5 DEF Forget, BackOff, Cancelled, WorkerRow
        <5> QED
          BY <5>1 DEF Watched, Dispatching
      <4> QED
        BY <2>4, <4>2, <4>3, <4>4, <4>5
    <3> QED
      BY SMTT(60), <3>1, <3>2, <3>3, Elsewhere
  <2> QED
    BY <1>5, <2>1, <2>2, <2>3, <2>4 DEF Drains
<1>6. ASSUME NEW w \in Workers, Processes(w) PROVE SessionsSafe'
  <2>1. CASE Start(w)
    BY <2>1, StartIsSafe
  <2>2. CASE Started(w)
    BY <2>2, StartedIsSafe
  <2>3. CASE Read(w)
    BY <2>3, ReadIsSafe
  <2>4. CASE Close(w)
    BY <2>4, CloseIsSafe
  <2>5. CASE Reap(w)
    BY <2>5, ReapIsSafe
  <2>6. CASE Claim(w) \/ Acquire(w) \/ Prepare(w) \/ Settle(w)
    <3>1. /\ UNCHANGED <<session, keys>>
          /\ \A g \in Gens : gens[g].pending => gens'[g].pending
      BY SMTT(60), <2>6 DEF Claim, Acquire, Prepare, Settle, TypeInv, tableVars, sessionVars
    <3>2. worker[w].at \notin Watched
      BY <2>6 DEF Claim, Acquire, Prepare, Settle, At, Watched, Dispatching
    <3>3. /\ worker'[w].at \in {"refill", "lock", "token", "settle", "start"}
          /\ \A v \in Workers : v # w => worker'[v] = worker[v]
      <4>1. CASE Claim(w) \/ Settle(w)
        BY <4>1 DEF Claim, Settle, Idle, TypeInv, WorkerRow
      <4>2. CASE Acquire(w)
        BY <4>2, GotoMoves DEF Acquire
      <4>3. CASE Prepare(w)
        BY <4>3, GotoMoves, LeaveMoves DEF Prepare, Stay
      <4> QED
        BY <2>6, <4>1, <4>2, <4>3
    <3>4. worker'[w].at \notin Watched
      BY <3>3 DEF Watched, Dispatching
    <3> QED
      BY <3>1, <3>2, <3>3, <3>4, Elsewhere
  <2> QED
    BY <1>6, <2>1, <2>2, <2>3, <2>4, <2>5, <2>6 DEF Processes
<1>7. ASSUME NEW w \in Workers, Dies(w) PROVE SessionsSafe'
  <2>1. UNCHANGED <<gens, session, keys>> /\ \A v \in Workers : v # w => worker'[v] = worker[v]
    BY <1>7 DEF Dies, TypeInv, tableVars
  <2>2. worker[w].at \notin Watched /\ worker'[w].at \notin Watched
    BY <1>7 DEF Dies, Idle, Watched, Dispatching, TypeInv
  <2> QED
    BY <2>1, <2>2, Elsewhere
<1>8. ASSUME NEW s \in Sessions, End(s) PROVE SessionsSafe'
  <2>1. UNCHANGED <<gens, worker, keys>> /\ session' = [session EXCEPT ![s] = "none"]
    BY <1>8 DEF End, SessionEnds, tableVars
  <2>2. \A g \in Gens : session'[g] = "running" => session[g] = "running"
    BY <2>1, RouterAssumption DEF TypeInv, Gens
  <2> QED
    BY <2>1, <2>2 DEF SessionsSafe, SessionIsSafe, MarkIsKill, CancelledIsEnded, IsAccountedFor,
                      SessionOf, Held, Dispatched
<1>9. CASE UNCHANGED vars
  BY <1>9, QuietStep DEF vars, sessionVars
<1> QED
  BY <1>1, <1>2, <1>3, <1>4, <1>5, <1>6, <1>7, <1>8, <1>9 DEF Next

LEMMA RouterInvInit == Init => RouterInv
<1> SUFFICES ASSUME Init PROVE RouterInv
  OBVIOUS
<1>1. TypeInv
  BY TypeInvInit
<1>2. /\ queue = <<>> /\ keys = {}
      /\ \A w \in Workers : worker[w].at = "refill"
      /\ \A g \in Gens : session[g] = "none"
  BY RouterAssumption DEF Init, SessionsInit, Idle, Gens
<1>3. OneDispatcher /\ OneCanceller
  BY <1>2 DEF OneDispatcher, OneCanceller, Processing, Cancelling
<1>4. SessionsSafe
  BY <1>2 DEF SessionsSafe, SessionIsSafe, MarkIsKill, CancelledIsEnded, IsAccountedFor, SessionOf
<1> QED
  BY <1>1, <1>3, <1>4 DEF RouterInv

LEMMA RouterInvStep == RouterInv /\ [Next]_vars => RouterInv'
BY TypeInvStep, HandsStep, SafeStep DEF RouterInv

\* A generation is run by one worker and is cancelled by one at a time, whichever
\* workers drain the queue, refill it and come back after a failure.
THEOREM OneHandEach == Spec => [](OneDispatcher /\ OneCanceller)
<1>1. RouterInv => OneDispatcher /\ OneCanceller
  BY DEF RouterInv
<1>2. QED
  BY <1>1, RouterInvInit, RouterInvStep, PTL DEF Spec

\* A session that runs has someone to end it, for any number of generations and
\* workers: the worker that reads it, a cleanup that is pending, or a kill under way.
THEOREM SessionsAccounted == Spec => []SessionsAreAccountedFor
<1>1. RouterInv => SessionsAreAccountedFor
  BY DEF RouterInv, SessionsSafe, SessionIsSafe, IsAccountedFor, SessionsAreAccountedFor, Held, At
<1>2. QED
  BY <1>1, RouterInvInit, RouterInvStep, PTL DEF Spec

=============================================================================
