----------------------------- MODULE RouterWork -----------------------------
(* TelegramUpdateRouter at one chat: the poller, the workers that drain the   *)
(* cancellation queue before they take a turn, the dispatch of a turn to the  *)
(* owner's sandbox under the owner's lock, and a process that may die. What a *)
(* turn's input is and what it shows is TelegramTurns; here it is that a turn *)
(* taken from its chat has its session ended, and no other.                   *)
EXTENDS SandboxSessions, SequencesExt, FiniteSets

CONSTANTS
  MaxGens,     \* bound: generations of the chat, named in the order of their creation
  Workers,
  QueueSize,   \* cancellation_queue_size
  MaxCrashes,  \* bound: deaths of the process
  NoWorker

\* Any name of a generation makes the name of a session.
ASSUME RouterAssumption == /\ MaxGens \in Nat \ {0} /\ QueueSize \in Nat \ {0}
                           /\ NoWorker \notin Workers
                           /\ 1 .. MaxGens \subseteq Sessions

VARIABLES
  gens,       \* telegram_generations: [status, pending], pending: cleanup_pending
  waiting,    \* the chat has a burst and no active generation
  poller,     \* the generation poll_once is about to schedule, or 0
  queue,      \* _cancellations
  scheduled,  \* _scheduled_cancellation_ids
  backoff,    \* generations whose _cancellation_retry_at is yet to come
  lock,       \* the worker that holds the owner's lock
  worker,
  crashes

tableVars == <<gens, waiting>>
queueVars == <<queue, scheduled, backoff>>
vars == <<gens, waiting, poller, queue, scheduled, backoff, lock, worker, crashes, sessionVars>>

Gens == 1 .. MaxGens

\* _session_id: the hash of the generation's id.
SessionOf(g) == g

IsActive(g) == gens[g].status = "active"

\* A worker at the head of its loop. verdict: what this drain has done so far;
\* g: the generation in hand; last: of a turn, whether there is no other attempt, an
\* event having gone out or this being the second; outcome: how the turn ended.
Idle == [at |-> "refill", rows |-> <<>>, left |-> 0, verdict |-> "nothing", g |-> 0,
         last |-> FALSE, outcome |-> "none"]

\* A turn's worker has its session in hand.
Dispatched(g) ==
  \E w \in Workers : worker[w].g = g /\ worker[w].at \in {"started", "read", "close", "reap"}

Goto(w, at) == worker' = [worker EXCEPT ![w].at = at]
At(w, at) == worker[w].at = at

-----------------------------------------------------------------------------
\* poll_once: an accepted message takes the chat from its active generation; the
\* commit comes first, the queue after it.
Enqueue ==
  /\ poller = 0 /\ waiting' = TRUE
  /\ \/ /\ \A g \in Gens : ~IsActive(g)
        /\ UNCHANGED <<gens, poller>>
     \/ \E g \in Gens :
          /\ IsActive(g) /\ poller' = g
          /\ gens' = [gens EXCEPT ![g] = [status |-> "superseded", pending |-> TRUE]]
  /\ UNCHANGED <<queueVars, lock, worker, crashes, sessionVars>>

\* _schedule_cancellation: not twice, not before its time, not into a full queue.
Schedule(g) ==
  IF g \in scheduled \cup backoff \/ Len(queue) = QueueSize
  THEN UNCHANGED queueVars
  ELSE queue' = Append(queue, g) /\ scheduled' = scheduled \cup {g} /\ UNCHANGED backoff

PollerSchedules ==
  /\ poller # 0 /\ Schedule(poller) /\ poller' = 0
  /\ UNCHANGED <<tableVars, lock, worker, crashes, sessionVars>>

\* _cancellation_retry_at is reached.
BackoffEnds(g) ==
  /\ g \in backoff /\ backoff' = backoff \ {g}
  /\ UNCHANGED <<tableVars, poller, queue, scheduled, lock, worker, crashes, sessionVars>>

-----------------------------------------------------------------------------
\* pending_generation_cleanups: the oldest of the pending, in order, as many as the
\* queue holds.
Oldest(pending) ==
  {rows \in UNION {[1 .. n -> pending] : n \in 0 .. QueueSize} :
     /\ \A i, j \in DOMAIN rows : i < j => rows[i] < rows[j]
     /\ \A g \in pending \ ToSet(rows) :
          Len(rows) = QueueSize /\ \A i \in DOMAIN rows : rows[i] < g}

\* After the rows of a refill: the drain, of as many as the queue holds now, or,
\* after the drain, the head of the loop again.
Refilled(r, size) ==
  CASE r.at = "schedule" -> [r EXCEPT !.at = "drain", !.left = size]
    [] r.verdict = "good" -> Idle
    [] OTHER -> [Idle EXCEPT !.at = "claim"]

\* _refill_cancellations, before the drain and after it: the rows are read, and
\* scheduled one by one.
Refill(w) ==
  /\ worker[w].at \in {"refill", "refill_again"}
  /\ \E rows \in Oldest({g \in Gens : gens[g].pending}) :
       LET r == [worker[w] EXCEPT !.at = IF @ = "refill" THEN "schedule" ELSE "schedule_again",
                                  !.rows = rows]
       IN  worker' = [worker EXCEPT ![w] = IF r.rows = <<>> THEN Refilled(r, Len(queue)) ELSE r]
  /\ UNCHANGED <<tableVars, poller, queueVars, lock, crashes, sessionVars>>

ScheduleRow(w) ==
  /\ worker[w].at \in {"schedule", "schedule_again"} /\ worker[w].rows # <<>>
  /\ Schedule(Head(worker[w].rows))
  /\ LET r == [worker[w] EXCEPT !.rows = Tail(@)]
     IN  worker' = [worker EXCEPT ![w] = IF r.rows = <<>> THEN Refilled(r, Len(queue')) ELSE r]
  /\ UNCHANGED <<tableVars, poller, lock, crashes, sessionVars>>

\* drain_cancellations: another worker may have emptied the queue meanwhile.
Take(w) ==
  /\ At(w, "drain")
  /\ \/ /\ worker[w].left > 0 /\ queue # <<>> /\ queue' = Tail(queue)
        /\ worker' = [worker EXCEPT ![w].at = "cancel", ![w].left = @ - 1, ![w].g = Head(queue)]
     \/ /\ worker[w].left = 0 \/ queue = <<>>
        /\ worker' = [worker EXCEPT ![w].at = "refill_again", ![w].left = 0]
        /\ UNCHANGED queue
  /\ UNCHANGED <<tableVars, poller, scheduled, backoff, lock, crashes, sessionVars>>

\* cancel_generation: the sandbox is looked up and the session deleted, whoever
\* holds the owner's lock.
Cancel(w) ==
  /\ At(w, "cancel")
  /\ \/ SkipKill(SessionOf(worker[w].g)) /\ Goto(w, "cancelled")
     \/ BeginKill(SessionOf(worker[w].g)) /\ Goto(w, "kill")
     \/ Failure /\ Goto(w, "not_cancelled") /\ UNCHANGED <<session, keys>>
  /\ UNCHANGED <<tableVars, poller, queueVars, lock, crashes>>

\* What a failed cancellation leaves of a session: the cleanup is tried again as
\* long as it is pending, and a dispatcher ends what it started.
Left(g) == IF gens[g].pending \/ Dispatched(g) THEN session[SessionOf(g)] ELSE "stray"

Kill(w) ==
  /\ At(w, "kill")
  /\ \/ KillSucceeds(SessionOf(worker[w].g)) /\ Goto(w, "cancelled")
     \/ KillFails(SessionOf(worker[w].g), Left(worker[w].g)) /\ Goto(w, "not_cancelled")
  /\ UNCHANGED <<tableVars, poller, queueVars, lock, crashes>>

\* complete_generation_cleanup, or its exception.
CompleteCleanup(w) ==
  /\ At(w, "cancelled") /\ UNCHANGED <<waiting, poller, queueVars, lock, crashes, session, keys>>
  /\ \/ Goto(w, "forget") /\ gens' = [gens EXCEPT ![worker[w].g].pending = FALSE]
        /\ UNCHANGED failures
     \/ Failure /\ Goto(w, "not_cancelled") /\ UNCHANGED gens

Cancelled(w, verdict) ==
  worker' = [worker EXCEPT ![w].at = "drain", ![w].g = 0, ![w].verdict = verdict]

Forget(w) ==
  /\ At(w, "forget") /\ Cancelled(w, IF worker[w].verdict = "bad" THEN "bad" ELSE "good")
  /\ scheduled' = scheduled \ {worker[w].g} /\ backoff' = backoff \ {worker[w].g}
  /\ UNCHANGED <<tableVars, poller, queue, lock, crashes, sessionVars>>

\* Mutant: what failed stays in the set of what is scheduled.
BackOffScheduled(w) ==
  /\ At(w, "not_cancelled") /\ Cancelled(w, "bad")
  /\ backoff' = backoff \cup {worker[w].g} /\ UNCHANGED scheduled
  /\ UNCHANGED <<tableVars, poller, queue, lock, crashes, sessionVars>>

\* The exception: the row stays pending, and is not taken up before its time.
BackOff(w) ==
  /\ At(w, "not_cancelled") /\ Cancelled(w, "bad")
  /\ scheduled' = scheduled \ {worker[w].g} /\ backoff' = backoff \cup {worker[w].g}
  /\ UNCHANGED <<tableVars, poller, queue, lock, crashes, sessionVars>>

-----------------------------------------------------------------------------
\* claim_next_work, when the burst has been quiet long enough; otherwise there is
\* nothing to do.
Claim(w) ==
  /\ At(w, "claim")
  /\ \/ \E g \in Gens :
          /\ waiting /\ gens[g].status = "new" /\ \A h \in Gens : h < g => gens[h].status # "new"
          /\ gens' = [gens EXCEPT ![g].status = "active"] /\ waiting' = FALSE
          /\ worker' = [worker EXCEPT ![w].at = "lock", ![w].g = g]
     \/ worker' = [worker EXCEPT ![w] = Idle] /\ UNCHANGED tableVars
  /\ UNCHANGED <<poller, queueVars, lock, crashes, sessionVars>>

\* iter_telegram_events takes the owner's lock.
Acquire(w) ==
  /\ At(w, "lock") /\ lock = NoWorker /\ lock' = w /\ Goto(w, "token")
  /\ UNCHANGED <<tableVars, poller, queueVars, crashes, sessionVars>>

\* The iterator ends, by itself or by an exception, and gives back the lock.
Leave(w, outcome) ==
  /\ lock' = NoWorker
  /\ worker' = [worker EXCEPT ![w] = [Idle EXCEPT !.at = "settle", !.g = worker[w].g,
                                        !.outcome = outcome]]

Stay(w, at) == Goto(w, at) /\ UNCHANGED lock

\* Is the turn still wanted? Then, for the first attempt, reconcile and get, and,
\* for each, the access token.
Prepare(w) ==
  /\ At(w, "token") /\ UNCHANGED <<session, keys>>
  /\ \/ ~IsActive(worker[w].g) /\ Leave(w, "returned") /\ UNCHANGED failures
     \/ IsActive(worker[w].g) /\ Stay(w, "start") /\ UNCHANGED failures
     \/ IsActive(worker[w].g) /\ Failure /\ Leave(w, "raised")
  /\ UNCHANGED <<tableVars, poller, queueVars, crashes>>

Start(w) ==
  /\ At(w, "start")
  /\ \/ Open(SessionOf(worker[w].g)) /\ Stay(w, "started")
     \/ OpenFails(SessionOf(worker[w].g)) /\ Leave(w, "raised")
  /\ UNCHANGED <<tableVars, poller, queueVars, crashes>>

Started(w) ==
  /\ At(w, "started") /\ ForgetDeletion(SessionOf(worker[w].g)) /\ Stay(w, "read")
  /\ UNCHANGED <<tableVars, poller, queueVars, crashes>>

Stop(w, outcome) ==
  worker' = [worker EXCEPT ![w].at = "close", ![w].last = FALSE, ![w].outcome = outcome]

\* What the command says next: anything, for a turn that is no longer wanted; an
\* event that goes out; an expired token before any of them, once; an error, a
\* silence or a broken stream; the end.
Read(w) ==
  /\ At(w, "read")
  /\ \/ ~IsActive(worker[w].g) /\ Stop(w, "returned")
     \/ IsActive(worker[w].g) /\ ~worker[w].last /\ worker' = [worker EXCEPT ![w].last = TRUE]
     \/ IsActive(worker[w].g) /\ ~worker[w].last /\ Stop(w, "expired")
     \/ IsActive(worker[w].g) /\ Stop(w, "raised")
     \/ IsActive(worker[w].g) /\ ~Runs(SessionOf(worker[w].g)) /\ Stop(w, "returned")
  /\ UNCHANGED <<tableVars, poller, queueVars, lock, crashes, sessionVars>>

\* After the finally clause: the second attempt, or the end of the turn.
Closed(w) ==
  IF worker[w].outcome = "expired"
  THEN /\ worker' = [worker EXCEPT ![w].at = "token", ![w].last = TRUE, ![w].outcome = "none"]
       /\ UNCHANGED lock
  ELSE Leave(w, worker[w].outcome)

\* The finally clause: the session is deleted, unless someone does so already.
Close(w) ==
  /\ At(w, "close")
  /\ \/ SkipKill(SessionOf(worker[w].g)) /\ Closed(w)
     \/ BeginKill(SessionOf(worker[w].g)) /\ Stay(w, "reap")
  /\ UNCHANGED <<tableVars, poller, queueVars, crashes>>

\* Its error is swallowed: nobody looks after the session then.
Reap(w) ==
  /\ At(w, "reap") /\ Closed(w)
  /\ KillSucceeds(SessionOf(worker[w].g)) \/ KillFails(SessionOf(worker[w].g), "stray")
  /\ UNCHANGED <<tableVars, poller, queueVars, crashes>>

\* complete_generation and fail_generation: of an active generation only; a
\* failure leaves the burst to be tried again, or, after the last attempt, not.
Settle(w) ==
  /\ At(w, "settle") /\ worker' = [worker EXCEPT ![w] = Idle]
  /\ LET g == worker[w].g IN
     \/ ~IsActive(g) /\ UNCHANGED tableVars
     \/ /\ IsActive(g) /\ worker[w].outcome = "returned" /\ UNCHANGED waiting
        /\ gens' = [gens EXCEPT ![g].status = "completed"]
     \/ /\ IsActive(g) /\ worker[w].outcome = "raised" /\ waiting' \in BOOLEAN
        /\ gens' = [gens EXCEPT ![g].status = "failed"]
  /\ UNCHANGED <<poller, queueVars, lock, crashes, sessionVars>>

-----------------------------------------------------------------------------
\* recover_interrupted_generations and __post_init__: what was active is
\* superseded, its burst is open again, and what is pending is scheduled as far
\* as the queue goes.
Recover ==
  /\ waiting' = (waiting \/ \E g \in Gens : IsActive(g))
  /\ gens' = [g \in Gens |-> IF IsActive(g) THEN [status |-> "superseded", pending |-> TRUE]
                             ELSE gens[g]]
  /\ queue' \in Oldest({g \in Gens : IsActive(g) \/ gens[g].pending})

\* The process dies and is started again: its threads, its queue and what it knew
\* of deletions are gone; the sessions go on, and those of turns that are over
\* have nobody left to end them.
Crash ==
  /\ crashes < MaxCrashes /\ crashes' = crashes + 1
  /\ Recover /\ scheduled' = ToSet(queue') /\ backoff' = {} /\ poller' = 0
  /\ lock' = NoWorker /\ worker' = [w \in Workers |-> Idle]
  /\ session' = [s \in Sessions |->
       IF Runs(s) /\ \A g \in Gens : SessionOf(g) = s => ~(IsActive(g) \/ gens[g].pending)
       THEN "stray" ELSE session[s]]
  /\ keys' = {} /\ UNCHANGED failures

End(s) ==
  /\ SessionEnds(s)
  /\ UNCHANGED <<tableVars, poller, queueVars, lock, worker, crashes>>

Init ==
  /\ gens = [g \in Gens |-> [status |-> "new", pending |-> FALSE]] /\ waiting = FALSE
  /\ poller = 0 /\ queue = <<>> /\ scheduled = {} /\ backoff = {}
  /\ lock = NoWorker /\ worker = [w \in Workers |-> Idle] /\ crashes = 0
  /\ SessionsInit

\* _work_forever
Drains(w) ==
  \/ Refill(w) \/ ScheduleRow(w) \/ Take(w) \/ Cancel(w) \/ Kill(w)
  \/ CompleteCleanup(w) \/ Forget(w) \/ BackOff(w)

\* process_next, with the iterator it runs
Processes(w) ==
  \/ Claim(w) \/ Acquire(w) \/ Prepare(w) \/ Start(w) \/ Started(w) \/ Read(w)
  \/ Close(w) \/ Reap(w) \/ Settle(w)

\* pending_generation_cleanups, a claim, complete_generation or fail_generation
\* raises, and nothing catches that: the thread ends, and no other is started.
Dies(w) ==
  /\ worker[w].at \in {"refill", "refill_again", "claim", "settle"} /\ Failure
  /\ worker' = [worker EXCEPT ![w] = [Idle EXCEPT !.at = "dead"]]
  /\ UNCHANGED <<tableVars, poller, queueVars, lock, crashes, session, keys>>

Next ==
  \/ Enqueue \/ PollerSchedules \/ Crash
  \/ \E g \in Gens : BackoffEnds(g)
  \/ \E w \in Workers : Drains(w) \/ Processes(w) \/ Dies(w)
  \/ \E s \in Sessions : End(s)

\* The threads run as long as they live, and time passes. A turn's deadline is among
\* the ends of Read; messages, restarts and ends of sessions are not promised.
Fairness ==
  /\ WF_vars(PollerSchedules)
  /\ \A g \in Gens : WF_vars(BackoffEnds(g))
  /\ \A w \in Workers : WF_vars(Drains(w) \/ Processes(w))

Spec == Init /\ [][Next]_vars /\ Fairness

-----------------------------------------------------------------------------
\* A session that runs has someone to end it: the worker that reads it, a cleanup
\* that is still to be done, or a kill under way. The exceptions are where the code
\* gives up: a kill in the dispatcher's finally clause that failed, one of a
\* cleanup that was done already, and a session the process died around once its
\* cleanup was done. However the cancellation, the second attempt under the same
\* name, the deduplication of deletions and a restart fall together.
SessionsAreAccountedFor ==
  \A g \in Gens : session[SessionOf(g)] = "running" =>
    \/ Dispatched(g) \/ gens[g].pending
    \/ \E w \in Workers : worker[w].g = g /\ At(w, "kill")

\* The refill reads the oldest rows only, and there are as many older ones as it
\* reads whose deletion is refused for ever, since their sessions are gone.
Crowded(g) ==
  Cardinality({h \in Gens : h < g /\ gens[h].pending /\ ~Runs(SessionOf(h))}) >= QueueSize

\* The session of a cancelled turn is ended: past a full queue, failed calls and
\* their backoff, a process that dies before it has scheduled the cancellation, and
\* the rows whose deletion never succeeds. It may go on for ever only behind a whole
\* queue of such rows, or when exceptions of the store have ended every worker.
CancelledSessionsEnd ==
  \/ <>[](\A w \in Workers : At(w, "dead"))
  \/ \A g \in Gens : \/ []<>(~gens[g].pending \/ ~Runs(SessionOf(g)))
                     \/ <>[]Crowded(g)

=============================================================================
