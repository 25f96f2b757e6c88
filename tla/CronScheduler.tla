--------------------------- MODULE CronScheduler ---------------------------
(***************************************************************************)
(* Scheduled jobs: the SQLite ledger of CronStore (cron_store.py) and the  *)
(* lanes of CronSchedulerService (cron_service.py) that execute due runs   *)
(* and send their frames, against the owner's edits through the control    *)
(* API. One lane runs in production; a second one is a duplicate process,  *)
(* which the leases are there for.                                         *)
(*                                                                         *)
(* A store method is one "begin immediate" transaction and one step. The   *)
(* clock drives the schedules. Leases and backoffs are abstract: a lease   *)
(* has expired or not, a row is available or not. A lease token is the     *)
(* lane that claimed the row last: a lane has one claim at a time, so its  *)
(* token is in the row exactly while no other lane has claimed it.         *)
(***************************************************************************)
EXTENDS CronSchedule, FiniteSets

CONSTANTS
  Jobs,                 \* 1..n, in the order of their creation
  Definitions,          \* what an owner may ask for
  Lanes,                \* scheduler lanes
  MaxRunAttempts,       \* fail_run's max_attempts
  MaxDeliveryAttempts,  \* fail_delivery's max_attempts
  MaxTime,              \* bound: the clock
  MaxRuns,              \* bound: rows of cron_runs
  MaxManual,            \* bound: manual runs among them
  MaxFrames,            \* bound: frames of a run, three in the code
  MaxRevision,          \* bound: a job's revision
  MaxDefers,            \* bound: deferrals
  MaxCrashes,           \* bound: deaths of a lane's process
  MaxStalls,            \* bound: leases that expire under a living lane
  MaxUpdates            \* bound: updates of jobs

Runs   == 1..MaxRuns
Frames == 0..(MaxFrames - 1)
NoRun  == 0
NoLane == "nobody"

Definition == [schedule : Schedule, ends : When, max : Nat]  \* max 0: no limit

ASSUME CronAssumption ==
  /\ Jobs \subseteq Nat \ {0} /\ Jobs # {}
  /\ Definitions \subseteq Definition
  /\ NoLane \notin Lanes
  /\ MaxRunAttempts \in Nat \ {0}
  /\ MaxDeliveryAttempts \in Nat \ {0}
  /\ MaxFrames \in Nat \ {0}
  /\ {MaxTime, MaxRuns, MaxManual, MaxRevision, MaxDefers, MaxCrashes, MaxStalls,
      MaxUpdates} \subseteq Nat

VARIABLES
  clock,
  jobs,     \* cron_jobs
  runs,     \* cron_runs
  made,     \* rows of cron_runs so far
  frames,   \* cron_deliveries, by run and sequence
  lanes,    \* what each lane is doing
  counts,   \* the bounded events so far
  shown,    \* history: how often a frame reached the chat
  paid      \* history: occurrences run under a job's present definition

vars == <<clock, jobs, runs, made, frames, lanes, counts, shown, paid>>

-----------------------------------------------------------------------------
(* Rows *)

JobRow == [status    : {"none", "active", "paused", "ended", "cancelled"},
           revision  : Nat,
           def       : Definition,
           successes : Nat,
           lastDue   : When,
           pausedAt  : When,
           anchor    : Time,
           redacted  : BOOLEAN]

OpenRun  == {"pending", "leased", "executing", "retry_wait"}
FinalRun == {"succeeded", "failed", "invalidated"}

RunRow == [status   : {"none"} \cup OpenRun \cup FinalRun,
           job      : Jobs,
           due      : Time,
           trigger  : {"schedule", "catchup", "manual", "lifecycle"},
           revision : Nat,
           attempts : Nat,
           ready    : BOOLEAN,
           expired  : BOOLEAN,
           holder   : Lanes \cup {NoLane}]

OpenFrame  == {"pending", "leased", "retry_wait", "sending"}
FinalFrame == {"delivered", "exhausted", "suppressed", "unknown"}

FrameRow == [status   : {"none"} \cup OpenFrame \cup FinalFrame,
             attempts : Nat,
             ready    : BOOLEAN,
             expired  : BOOLEAN,
             holder   : Lanes \cup {NoLane}]

\* A lane between ticks; about to look for a run before or after looking for a
\* frame, or for a frame; with a run claimed or executing; with a frame
\* claimed, being sent, or taken by Telegram.
Pc == {"idle", "first", "deliver", "last", "claimed", "executing", "admit", "sending", "accepted"}

Lane == [pc : Pc, run : Runs \cup {NoRun}, frame : Frames,
         prefer : BOOLEAN,   \* _prefer_execution
         first  : BOOLEAN,   \* the run was claimed on the preferred path
         lost   : BOOLEAN]   \* lease_lost

Resting(prefer) == [pc |-> "idle", run |-> NoRun, frame |-> 0,
                    prefer |-> prefer, first |-> FALSE, lost |-> FALSE]

NoJobRow   == [status |-> "none", revision |-> 0,
               def |-> [schedule |-> Once(0), ends |-> NoTime, max |-> 0],
               successes |-> 0, lastDue |-> NoTime, pausedAt |-> NoTime, anchor |-> 0,
               redacted |-> FALSE]
NoRunRow   == [status |-> "none", job |-> CHOOSE j \in Jobs : TRUE, due |-> 0,
               trigger |-> "manual", revision |-> 0, attempts |-> 0, ready |-> FALSE,
               expired |-> FALSE, holder |-> NoLane]
NoFrameRow == [status |-> "none", attempts |-> 0, ready |-> FALSE, expired |-> FALSE,
               holder |-> NoLane]
NewFrame   == [NoFrameRow EXCEPT !.status = "pending", !.ready = TRUE]

-----------------------------------------------------------------------------
(* Queries *)

RunsOf(j) == {r \in Runs : runs[r].status # "none" /\ runs[r].job = j}

\* _active_run: a run of the job, or a frame of it, is not settled.
Busy(j) ==
  \E r \in RunsOf(j) : \/ runs[r].status \in OpenRun
                       \/ \E f \in Frames : frames[r][f].status \in OpenFrame

\* The condition every run-row update repeats: the job has not changed since.
RunIsCurrent(r) ==
  LET job == jobs[runs[r].job] IN
  /\ runs[r].revision = job.revision
  /\ \/ job.status = "active"
     \/ job.status = "ended" /\ runs[r].trigger = "lifecycle"

FrameIsCurrent(r) ==
  LET job == jobs[runs[r].job] IN
  runs[r].revision = job.revision /\ job.status \in {"active", "ended"}

\* Mutant: an edit does not wait for a send.
AnySending(j) == TRUE

\* No frame of the job is in the hands of the connector.
NotSending(j) == \A r \in RunsOf(j), f \in Frames : frames[r][f].status # "sending"

\* The guard of complete_run, fail_run, defer_run and renew_run_lease.
HoldsRun(l) ==
  LET r == lanes[l].run IN
  /\ runs[r].status \in {"leased", "executing"}
  /\ runs[r].holder = l
  /\ RunIsCurrent(r)

\* Mutant: the token alone admits an outcome.
HoldsSendToken(l) == frames[lanes[l].run][lanes[l].frame].holder = l

\* The guard of complete_delivery, fail_delivery and mark_delivery_unknown.
HoldsSend(l) ==
  LET frame == frames[lanes[l].run][lanes[l].frame] IN
  frame.status = "sending" /\ frame.holder = l

\* _redact_terminal_if_ready, for a job's status and frames.
Redactable(j, status, fs) ==
  /\ status \in {"ended", "cancelled"}
  /\ \A r \in RunsOf(j), f \in Frames : fs[r][f].status \notin OpenFrame

\* The jobs once job j has been looked at for redaction.
Redacted(j, fs) ==
  [jobs EXCEPT ![j] = [jobs[j] EXCEPT !.redacted = @ \/ Redactable(j, jobs[j].status, fs)]]

-----------------------------------------------------------------------------
Init ==
  /\ clock = 0
  /\ jobs = [j \in Jobs |-> NoJobRow]
  /\ runs = [r \in Runs |-> NoRunRow]
  /\ made = 0
  /\ frames = [r \in Runs |-> [f \in Frames |-> NoFrameRow]]
  /\ lanes = [l \in Lanes |-> Resting(FALSE)]
  /\ counts = [defers |-> 0, crashes |-> 0, stalls |-> 0, updates |-> 0]
  /\ shown = [r \in Runs |-> [f \in Frames |-> 0]]
  /\ paid = [j \in Jobs |-> {}]

Tick ==
  /\ clock < MaxTime
  /\ clock' = clock + 1
  /\ UNCHANGED <<jobs, runs, made, frames, lanes, counts, shown, paid>>

-----------------------------------------------------------------------------
(* The control API *)

Create(j, d) ==
  /\ jobs[j].status = "none"
  /\ \A i \in Jobs : i < j => jobs[i].status # "none"
  /\ jobs' = [jobs EXCEPT ![j] =
                [NoJobRow EXCEPT !.status = "active", !.revision = 1, !.def = d,
                                 !.anchor = Origin(d.schedule, clock)]]
  /\ UNCHANGED <<clock, runs, made, frames, lanes, counts, shown, paid>>

\* Mutant: an edit leaves the frames of earlier runs to be sent.
RunsOnly(j) ==
  /\ runs' = [r \in Runs |-> IF r \in RunsOf(j) /\ runs[r].status \in OpenRun
                             THEN [runs[r] EXCEPT !.status = "invalidated"] ELSE runs[r]]
  /\ UNCHANGED frames

\* _invalidate_stale_work: the edit's revision is new, so all of the job's
\* work is of another one. Nothing is being sent, or there is no edit.
InvalidateStaleWork(j) ==
  /\ runs' = [r \in Runs |-> IF r \in RunsOf(j) /\ runs[r].status \in OpenRun
                             THEN [runs[r] EXCEPT !.status = "invalidated"] ELSE runs[r]]
  /\ frames' = [r \in Runs |-> [f \in Frames |->
                  IF r \in RunsOf(j) /\ frames[r][f].status \in OpenFrame \ {"sending"}
                  THEN [frames[r][f] EXCEPT !.status = "suppressed"] ELSE frames[r][f]]]

\* What every edit has in common: the revision compare-and-set.
Edit(j, from) ==
  /\ jobs[j].status \in from
  /\ jobs[j].revision < MaxRevision
  /\ NotSending(j)
  /\ InvalidateStaleWork(j)
  /\ UNCHANGED <<clock, made, lanes, shown>>

Update(j, d) ==
  /\ Edit(j, {"active", "paused"})
  /\ jobs' = [jobs EXCEPT ![j] =
                [jobs[j] EXCEPT !.revision = @ + 1, !.def = d, !.anchor = clock,
                          !.lastDue = NoTime, !.pausedAt = NoTime]]
  /\ paid' = [paid EXCEPT ![j] = {}]
  /\ counts.updates < MaxUpdates
  /\ counts' = [counts EXCEPT !.updates = @ + 1]

Pause(j) ==
  /\ Edit(j, {"active", "paused"})
  /\ jobs' = [jobs EXCEPT ![j] =
                [jobs[j] EXCEPT !.status = "paused", !.revision = @ + 1, !.pausedAt = clock]]
  /\ UNCHANGED <<counts, paid>>

\* pausedAt stays: the next look at the job catches up from it.
Resume(j) ==
  /\ Edit(j, {"active", "paused"})
  /\ jobs' = [jobs EXCEPT ![j] = [jobs[j] EXCEPT !.status = "active", !.revision = @ + 1]]
  /\ UNCHANGED <<counts, paid>>

Delete(j) ==
  /\ Edit(j, {"active", "paused", "ended", "cancelled"})
  /\ jobs' = [jobs EXCEPT ![j] =
                [jobs[j] EXCEPT !.status = "cancelled", !.revision = @ + 1,
                          !.redacted = @ \/ Redactable(j, "cancelled", frames')]]
  /\ UNCHANGED <<counts, paid>>

\* The row _run inserts.
NewRun(j, due, trigger, revision) ==
  [NoRunRow EXCEPT !.status = "pending", !.job = j, !.due = due, !.trigger = trigger,
                   !.revision = revision, !.ready = TRUE]

RunNow(j) ==
  /\ jobs[j].status = "active"
  /\ ~Busy(j)
  /\ \A r \in RunsOf(j) : runs[r].trigger = "manual" => runs[r].due # clock
  /\ made < MaxRuns
  /\ Cardinality({r \in Runs : runs[r].status # "none" /\ runs[r].trigger = "manual"}) < MaxManual
  /\ made' = made + 1
  /\ runs' = [runs EXCEPT ![made + 1] = NewRun(j, clock, "manual", jobs[j].revision)]
  /\ UNCHANGED <<clock, jobs, frames, lanes, counts, shown, paid>>

-----------------------------------------------------------------------------
(* A lane's tick: recover, then a run or a frame *)

\* Mutant: a frame whose lease ran out is sent again.
RecoveredResend(f) ==
  IF f.expired /\ f.status \in {"leased", "sending"} THEN [f EXCEPT !.status = "pending"] ELSE f

\* What recovery makes of a frame: after admission it may have been shown.
RecoveredFrame(f) ==
  CASE f.expired /\ f.status = "leased"  -> [f EXCEPT !.status = "pending"]
    [] f.expired /\ f.status = "sending" -> [f EXCEPT !.status = "unknown"]
    [] OTHER -> f

\* Mutant: a run that was executing when its lane died stays with it.
RecoveredClaim(row) ==
  IF row.status = "leased" /\ row.expired
  THEN [row EXCEPT !.status = "pending", !.expired = FALSE] ELSE row

\* A run starts again, as if nothing had happened.
RecoveredRun(row) ==
  IF row.status \in {"leased", "executing"} /\ row.expired
  THEN [row EXCEPT !.status = "pending", !.expired = FALSE] ELSE row

\* The frame of a run that its predecessor's settling delays: the first that
\* waits (_pace_next_delivery).
Paced(fs, r) ==
  LET waiting == {f \in Frames : fs[r][f].status \in {"pending", "retry_wait"}} IN
  [f \in Frames |-> IF f = Earliest(waiting) THEN [fs[r][f] EXCEPT !.ready = FALSE] ELSE fs[r][f]]

\* recover_expired_leases
Recover(l) ==
  LET recovered == [r \in Runs |-> [f \in Frames |-> RecoveredFrame(frames[r][f])]]
      uncertain == {r \in Runs : \E f \in Frames : recovered[r][f].status # frames[r][f].status
                                                  /\ recovered[r][f].status = "unknown"}
      paced == [r \in Runs |-> IF r \in uncertain THEN Paced(recovered, r) ELSE recovered[r]]
  IN
  /\ lanes[l].pc = "idle"
  /\ runs' = [r \in Runs |-> RecoveredRun(runs[r])]
  /\ frames' = [r \in Runs |-> [f \in Frames |->
                  [paced[r][f] EXCEPT !.expired = @ /\ paced[r][f].status = frames[r][f].status]]]
  /\ jobs' = [j \in Jobs |->
                IF \E r \in uncertain : runs[r].job = j
                THEN [jobs[j] EXCEPT !.redacted = @ \/ Redactable(j, jobs[j].status, frames')]
                ELSE jobs[j]]
  /\ lanes' = [lanes EXCEPT ![l].pc = IF lanes[l].prefer THEN "first" ELSE "deliver"]
  /\ UNCHANGED <<clock, made, counts, shown, paid>>

-----------------------------------------------------------------------------
(* Claiming a run *)

DueRuns == {r \in Runs : runs[r].status \in {"pending", "retry_wait"} /\ runs[r].ready}

\* Whether the claim's last line, the question if the job ends after the run,
\* raises.
FinalityRaises(r) ==
  LET def == jobs[runs[r].job].def IN
  def.ends # NoTime /\ runs[r].trigger # "lifecycle" /\ NeverFires(def.schedule, runs[r].due)

Expiring(j) == jobs[j].def.ends # NoTime /\ clock >= jobs[j].def.ends

\* Mutant: the end itself counts as a time before the end.
EndCounts(j) == IF Expiring(j) THEN jobs[j].def.ends ELSE clock

\* The time up to which occurrences of a job are owed.
OwedUntil(j) == IF Expiring(j) THEN jobs[j].def.ends - 1 ELSE clock

\* After a pause, and before the end, a job owes what it missed since.
CatchingUp(j) == ~Expiring(j) /\ jobs[j].pausedAt # NoTime

Owed(j) ==
  LET job == jobs[j] IN
  IF CatchingUp(j) THEN CatchUp(job.def.schedule, job.pausedAt, clock)
  ELSE Due(job.def.schedule, job.lastDue, OwedUntil(j), job.anchor)

\* A job that is past its end and owes nothing has its lifecycle run.
TriggerOf(j) ==
  CASE Owed(j) # NoTime -> IF CatchingUp(j) THEN "catchup" ELSE "schedule"
    [] OTHER            -> "lifecycle"

\* Mutant: a job past its end is passed over when it owes nothing.
OwesOnly(j) == Owed(j) # NoTime

Offers(j) == Owed(j) # NoTime \/ Expiring(j)

\* The transaction raises on the job: its schedule does, or the table already
\* has the occurrence.
LookRaises(j) ==
  LET job == jobs[j] IN
  \/ CatchingUp(j) /\ CatchUpRaises(job.def.schedule, job.pausedAt, clock)
  \/ ~CatchingUp(j) /\ DueRaises(job.def.schedule, job.lastDue, OwedUntil(j), job.anchor)
  \/ /\ Owed(j) # NoTime
     /\ \E r \in RunsOf(j) : runs[r].due = Owed(j) /\ runs[r].trigger = TriggerOf(j)

\* The jobs that claim_due_run looks at, and where it stops.
Looked  == {j \in Jobs : jobs[j].status = "active" /\ ~Busy(j)}
StopsAt == Earliest({j \in Looked : LookRaises(j) \/ Offers(j)})

\* What the look leaves of a job that owes nothing: it has caught up.
LookedOver(j) ==
  IF j \in Looked /\ CatchingUp(j) THEN [jobs[j] EXCEPT !.pausedAt = NoTime] ELSE jobs[j]

\* Mutant: a caught-up occurrence is not remembered.
ScheduledOnly(trigger) == trigger = "schedule"

\* The triggers that advance a job's last due time.
Advances(trigger) == trigger \in {"schedule", "catchup"}

Claim(l, r, row) ==
  /\ runs' = [runs EXCEPT ![r] = [row EXCEPT !.status = "leased", !.expired = FALSE, !.holder = l]]
  /\ lanes' = [lanes EXCEPT ![l] = [@ EXCEPT !.pc = "claimed", !.run = r,
                                             !.first = lanes[l].pc = "first"]]

\* Nothing to execute: on the preferred path the lane looks for a frame.
NothingDue(l) ==
  lanes' = [lanes EXCEPT ![l] = IF @.pc = "first" THEN [@ EXCEPT !.pc = "deliver"]
                                ELSE Resting(@.prefer)]

\* The exception ends the tick.
TickFails(l) ==
  /\ lanes' = [lanes EXCEPT ![l] = Resting(@.prefer)]
  /\ UNCHANGED <<jobs, runs, made, paid>>

\* A run that waits is claimed, the oldest first. (That it is current is not
\* by this transaction's check but by the invariant WorkIsCurrent.)
ClaimWaitingRun(l) ==
  \E r \in DueRuns :
    /\ \A q \in DueRuns : r <= q
    /\ \/ RunIsCurrent(r) /\ ~FinalityRaises(r) /\ Claim(l, r, runs[r]) /\ UNCHANGED <<jobs, made, paid>>
       \/ RunIsCurrent(r) /\ FinalityRaises(r) /\ TickFails(l)

\* The run that job j gets: of the revision that ending it makes, if it ends.
MakeRun(l, j, trigger, due) ==
  LET revision == jobs[j].revision + (IF trigger = "lifecycle" THEN 1 ELSE 0) IN
  /\ made' = made + 1
  /\ Claim(l, made + 1, NewRun(j, due, trigger, revision))
  /\ jobs' = [i \in Jobs |->
                IF i = j
                THEN [jobs[i] EXCEPT !.status = IF trigger = "lifecycle" THEN "ended" ELSE @,
                                     !.revision = revision,
                                     !.pausedAt = IF trigger = "catchup" THEN NoTime ELSE @,
                                     !.lastDue = IF Advances(trigger) THEN due ELSE @]
                ELSE IF i < j THEN LookedOver(i) ELSE jobs[i]]
  /\ paid' = [paid EXCEPT ![j] = IF trigger = "lifecycle" THEN @ ELSE @ \cup {due}]

\* The first job that owes something gets a run, claimed at once.
ClaimOccurrence(l) ==
  /\ DueRuns = {}
  /\ made < MaxRuns
  /\ \E j \in Jobs :
       /\ j = StopsAt
       /\ ~LookRaises(j)
       /\ \E trigger \in {TriggerOf(j)} :
            MakeRun(l, j, trigger, IF trigger = "lifecycle" THEN clock ELSE Owed(j))

\* No job owes anything, or the first that does raises.
ClaimNothing(l) ==
  /\ DueRuns = {}
  /\ \/ /\ StopsAt = NoTime
        /\ NothingDue(l)
        /\ jobs' = [j \in Jobs |-> LookedOver(j)]
        /\ UNCHANGED <<runs, made, paid>>
     \/ \E j \in Jobs :
          /\ j = StopsAt
          /\ LookRaises(j)
          /\ TickFails(l)
     \/ \E j \in Jobs :
          /\ j = StopsAt
          /\ ~LookRaises(j)
          /\ made = MaxRuns          \* the model is out of rows
          /\ NothingDue(l)
          /\ UNCHANGED <<jobs, runs, made, paid>>

ClaimDueRun(l) ==
  /\ lanes[l].pc \in {"first", "last"}
  /\ ClaimWaitingRun(l) \/ ClaimOccurrence(l) \/ ClaimNothing(l)
  /\ UNCHANGED <<clock, frames, counts, shown>>

-----------------------------------------------------------------------------
(* Executing a run *)

\* begin_run; without it _process_execution has had nothing to do.
BeginRun(l) ==
  LET r == lanes[l].run
      holds == HoldsRun(l) /\ runs[r].status = "leased"
  IN
  /\ lanes[l].pc = "claimed"
  /\ IF holds
     THEN /\ runs' = [runs EXCEPT ![r] = [@ EXCEPT !.status = "executing", !.expired = FALSE]]
          /\ lanes' = [lanes EXCEPT ![l] = [@ EXCEPT !.pc = "executing"]]
     ELSE /\ lanes' = [lanes EXCEPT ![l] = IF @.first THEN [Resting(@.prefer) EXCEPT !.pc = "deliver"]
                                           ELSE Resting(@.prefer)]
          /\ UNCHANGED runs
  /\ UNCHANGED <<clock, jobs, made, frames, counts, shown, paid>>

\* The heartbeat renews the lease, or finds that the run is not the lane's.
RenewLease(l) ==
  LET r == lanes[l].run IN
  /\ lanes[l].pc = "executing"
  /\ ~lanes[l].lost
  /\ \/ /\ HoldsRun(l)
        /\ runs' = [runs EXCEPT ![r] = [@ EXCEPT !.expired = FALSE]]
        /\ UNCHANGED lanes
     \/ /\ ~HoldsRun(l)
        /\ lanes' = [lanes EXCEPT ![l] = [@ EXCEPT !.lost = TRUE]]
        /\ UNCHANGED runs
  /\ UNCHANGED <<clock, jobs, made, frames, counts, shown, paid>>

\* The store raises in the heartbeat: the lane takes its lease for lost.
HeartbeatFails(l) ==
  /\ lanes[l].pc = "executing"
  /\ ~lanes[l].lost
  /\ counts.stalls < MaxStalls
  /\ counts' = [counts EXCEPT !.stalls = @ + 1]
  /\ lanes' = [lanes EXCEPT ![l] = [@ EXCEPT !.lost = TRUE]]
  /\ UNCHANGED <<clock, jobs, runs, made, frames, shown, paid>>

\* The lane has executed: the tick returned something, so the preference is
\* spent if it was what led here.
Executed(l) == lanes' = [lanes EXCEPT ![l] = Resting(@.prefer /\ ~@.first)]

\* complete_run computes the next occurrence, whether the job has an end or not.
CompletionRaises(r) == NeverFires(jobs[runs[r].job].def.schedule, runs[r].due)

\* A job is over with its run: nothing is left of its schedule before its end.
LastRun(r) ==
  LET def == jobs[runs[r].job].def IN
  def.schedule.kind = "once" \/ LastBefore(def.schedule, runs[r].due, def.ends)

\* complete_run, with n frames and an outcome that counts as a success or not
\* (partial, approval needed).
CompleteRun(l, success, n) ==
  LET r == lanes[l].run
      j == runs[r].job
      successes == jobs[j].successes + (IF success THEN 1 ELSE 0)
      over == LastRun(r) \/ (jobs[j].def.max # 0 /\ successes >= jobs[j].def.max)
  IN
  /\ lanes[l].pc = "executing"
  /\ ~lanes[l].lost
  /\ HoldsRun(l)
  /\ ~CompletionRaises(r)
  /\ runs' = [runs EXCEPT ![r] = [@ EXCEPT !.status = "succeeded"]]
  /\ frames' = [frames EXCEPT ![r] = [f \in Frames |-> IF f < n THEN NewFrame ELSE @[f]]]
  /\ jobs' = [jobs EXCEPT ![j] = [jobs[j] EXCEPT !.successes = successes,
                                           !.status = IF over THEN "ended" ELSE @]]
  /\ Executed(l)
  /\ UNCHANGED <<clock, made, counts, shown, paid>>

\* The lane has a result, but not the run any more.
ResultIsDropped(l) ==
  /\ lanes[l].pc = "executing"
  /\ lanes[l].lost \/ ~HoldsRun(l)
  /\ Executed(l)
  /\ UNCHANGED <<clock, jobs, runs, made, frames, counts, shown, paid>>

\* fail_run's count of attempts is used up.
Exhausted(r) == runs[r].attempts + 1 >= MaxRunAttempts

\* The executor or complete_run raised: fail_run. The notice of the last
\* failure is a frame. A run that is not the lane's is ResultIsDropped.
FailRun(l) ==
  LET r == lanes[l].run
      j == runs[r].job
      over == \/ jobs[j].def.schedule.kind = "once"
              \/ runs[r].trigger \in {"schedule", "catchup"} /\ LastRun(r)
  IN
  /\ lanes[l].pc = "executing"
  /\ HoldsRun(l)
  /\ \/ /\ ~Exhausted(r)
        /\ runs' = [runs EXCEPT ![r] = [runs[r] EXCEPT !.attempts = @ + 1, !.status = "retry_wait",
                                                 !.ready = FALSE]]
        /\ Executed(l)
        /\ UNCHANGED <<jobs, frames>>
     \/ /\ Exhausted(r)
        /\ ~CompletionRaises(r)
        /\ runs' = [runs EXCEPT ![r] = [runs[r] EXCEPT !.attempts = @ + 1, !.status = "failed"]]
        /\ frames' = [frames EXCEPT ![r] = [@ EXCEPT ![0] = NewFrame]]
        /\ jobs' = [jobs EXCEPT ![j] = [jobs[j] EXCEPT !.status = IF over THEN "ended" ELSE @]]
        /\ Executed(l)
     \/ /\ Exhausted(r)
        /\ CompletionRaises(r)   \* rolled back: the run waits for its lease to expire
        /\ lanes' = [lanes EXCEPT ![l] = Resting(@.prefer)]
        /\ UNCHANGED <<jobs, runs, frames>>
  /\ UNCHANGED <<clock, made, counts, shown, paid>>

\* defer_run: the chat is busy, or its user wrote.
DeferRun(l) ==
  LET r == lanes[l].run IN
  /\ lanes[l].pc = "executing"
  /\ HoldsRun(l)
  /\ counts.defers < MaxDefers
  /\ counts' = [counts EXCEPT !.defers = @ + 1]
  /\ runs' = [runs EXCEPT ![r] = [@ EXCEPT !.status = "retry_wait", !.ready = FALSE]]
  /\ Executed(l)
  /\ UNCHANGED <<clock, jobs, made, frames, shown, paid>>

Execute(l) ==
  \/ BeginRun(l)
  \/ RenewLease(l)
  \/ HeartbeatFails(l)
  \/ \E success \in BOOLEAN, n \in 1..MaxFrames : CompleteRun(l, success, n)
  \/ ResultIsDropped(l)
  \/ FailRun(l)
  \/ DeferRun(l)

-----------------------------------------------------------------------------
(* Sending a frame *)

\* Mutant: the frames of a run are claimed in any order.
AnyOrder(r, f) == TRUE

\* The earlier frames of the run are settled.
IsNext(r, f) == \A e \in Frames : e < f => frames[r][e].status \notin OpenFrame

Claimable(r, f) ==
  /\ frames[r][f].status \in {"pending", "retry_wait"}
  /\ frames[r][f].ready
  /\ IsNext(r, f)

\* claim_delivery. (A frame that is not of its job's revision is suppressed by
\* the edit already: WorkIsCurrent.)
ClaimDelivery(l) ==
  /\ lanes[l].pc = "deliver"
  /\ \/ \E r \in Runs, f \in Frames :
          /\ Claimable(r, f)
          /\ frames' = [frames EXCEPT ![r][f] =
                          [frames[r][f] EXCEPT !.status = "leased", !.attempts = @ + 1, !.expired = FALSE,
                                    !.holder = l]]
          /\ lanes' = [lanes EXCEPT ![l] = [Resting(TRUE) EXCEPT !.pc = "admit", !.run = r,
                                                                 !.frame = f]]
     \/ /\ ~\E r \in Runs, f \in Frames : Claimable(r, f)
        /\ lanes' = [lanes EXCEPT ![l] = [Resting(@.prefer) EXCEPT !.pc = "last"]]
        /\ UNCHANGED frames
  /\ UNCHANGED <<clock, jobs, runs, made, counts, shown, paid>>

\* The condition of admit_delivery.
Admits(l) ==
  LET frame == frames[lanes[l].run][lanes[l].frame] IN
  /\ frame.status = "leased"
  /\ frame.holder = l
  /\ FrameIsCurrent(lanes[l].run)

\* admit_delivery; suppress_delivery, after a refusal, finds nothing that is
\* being sent under the lane's token, and changes nothing.
AdmitDelivery(l) ==
  LET r == lanes[l].run IN
  /\ lanes[l].pc = "admit"
  /\ \/ /\ Admits(l)
        /\ frames' = [frames EXCEPT ![r][lanes[l].frame] = [@ EXCEPT !.status = "sending"]]
        /\ lanes' = [lanes EXCEPT ![l] = [@ EXCEPT !.pc = "sending"]]
     \/ /\ ~Admits(l)
        /\ lanes' = [lanes EXCEPT ![l] = Resting(@.prefer)]
        /\ UNCHANGED frames
  /\ UNCHANGED <<clock, jobs, runs, made, counts, shown, paid>>

TelegramTakes(l) ==
  /\ lanes[l].pc = "sending"
  /\ shown' = [shown EXCEPT ![lanes[l].run][lanes[l].frame] = @ + 1]
  /\ lanes' = [lanes EXCEPT ![l] = [@ EXCEPT !.pc = "accepted"]]
  /\ UNCHANGED <<clock, jobs, runs, made, frames, counts, paid>>

\* A frame's terminal status: its successor is paced, its job may be redacted.
\* (When the successor is not waiting, _finish_delivery paces nothing: then
\* none of the run's frames waits.)
Settle(l, status) ==
  LET r == lanes[l].run
      f == lanes[l].frame
      settled == [frames EXCEPT ![r][f] = [@ EXCEPT !.status = status]]
  IN
  /\ frames' = [settled EXCEPT ![r] = Paced(settled, r)]
  /\ jobs' = Redacted(runs[r].job, frames')

\* fail_delivery, _finish_delivery: nothing happens unless the lane's token is
\* on a frame that is being sent.
Finish(l, status) ==
  /\ \/ HoldsSend(l) /\ Settle(l, status)
     \/ ~HoldsSend(l) /\ UNCHANGED <<frames, jobs>>
  /\ lanes' = [lanes EXCEPT ![l] = Resting(@.prefer)]
  /\ UNCHANGED <<clock, runs, made, counts, shown, paid>>

CompleteDelivery(l) == lanes[l].pc = "accepted" /\ Finish(l, "delivered")

\* A timeout, or an answer that cannot be read: Telegram has the frame or not.
SendUncertain(l) == lanes[l].pc \in {"sending", "accepted"} /\ Finish(l, "unknown")

\* A definite rejection: Telegram did not take the frame.
SendRejected(l) ==
  LET r == lanes[l].run
      f == lanes[l].frame
  IN
  /\ lanes[l].pc = "sending"
  /\ \/ /\ HoldsSend(l) /\ frames[r][f].attempts < MaxDeliveryAttempts
        /\ frames' = [frames EXCEPT ![r][f] = [@ EXCEPT !.status = "retry_wait", !.ready = FALSE]]
        /\ lanes' = [lanes EXCEPT ![l] = Resting(@.prefer)]
        /\ UNCHANGED <<clock, jobs, runs, made, counts, shown, paid>>
     \/ /\ HoldsSend(l) => frames[r][f].attempts >= MaxDeliveryAttempts
        /\ Finish(l, "exhausted")

Deliver(l) ==
  \/ ClaimDelivery(l)
  \/ AdmitDelivery(l)
  \/ TelegramTakes(l)
  \/ CompleteDelivery(l)
  \/ SendUncertain(l)
  \/ SendRejected(l)

-----------------------------------------------------------------------------
(* Time and failure *)

\* A backoff, or the pace of a run's frames, elapses.
RunReady(r) ==
  /\ runs[r].status = "retry_wait"
  /\ ~runs[r].ready
  /\ runs' = [runs EXCEPT ![r] = [@ EXCEPT !.ready = TRUE]]
  /\ UNCHANGED <<clock, jobs, made, frames, lanes, counts, shown, paid>>

FrameReady(r, f) ==
  /\ frames[r][f].status \in {"pending", "retry_wait"}
  /\ ~frames[r][f].ready
  /\ frames' = [frames EXCEPT ![r][f] = [@ EXCEPT !.ready = TRUE]]
  /\ UNCHANGED <<clock, jobs, runs, made, lanes, counts, shown, paid>>

\* A lease that a living lane stands behind expires only when that lane, or
\* the call it is in, stalls; one that nobody stands behind does in time.
Stalls(attended) ==
  /\ attended => counts.stalls < MaxStalls
  /\ counts' = [counts EXCEPT !.stalls = @ + (IF attended THEN 1 ELSE 0)]

ExpireRunLease(r) ==
  /\ runs[r].status \in {"leased", "executing"}
  /\ ~runs[r].expired
  /\ Stalls(\E l \in Lanes : /\ lanes[l].pc \in {"claimed", "executing"}
                             /\ lanes[l].run = r /\ runs[r].holder = l /\ ~lanes[l].lost)
  /\ runs' = [runs EXCEPT ![r] = [@ EXCEPT !.expired = TRUE]]
  /\ UNCHANGED <<clock, jobs, made, frames, lanes, shown, paid>>

ExpireFrameLease(r, f) ==
  /\ frames[r][f].status \in {"leased", "sending"}
  /\ ~frames[r][f].expired
  /\ Stalls(\E l \in Lanes : /\ lanes[l].pc \in {"admit", "sending", "accepted"}
                             /\ lanes[l].run = r /\ lanes[l].frame = f /\ frames[r][f].holder = l)
  /\ frames' = [frames EXCEPT ![r][f] = [@ EXCEPT !.expired = TRUE]]
  /\ UNCHANGED <<clock, jobs, runs, made, lanes, shown, paid>>

\* A lane's process dies and is started again.
Crash(l) ==
  /\ lanes[l].pc # "idle"
  /\ counts.crashes < MaxCrashes
  /\ counts' = [counts EXCEPT !.crashes = @ + 1]
  /\ lanes' = [lanes EXCEPT ![l] = Resting(FALSE)]
  /\ UNCHANGED <<clock, jobs, runs, made, frames, shown, paid>>

-----------------------------------------------------------------------------
Owner == \E j \in Jobs :
  \/ \E d \in Definitions : Create(j, d) \/ Update(j, d)
  \/ Pause(j) \/ Resume(j) \/ Delete(j) \/ RunNow(j)

LaneStep(l) == Recover(l) \/ ClaimDueRun(l) \/ Execute(l) \/ Deliver(l)

RowsReady == \E r \in Runs : RunReady(r) \/ \E f \in Frames : FrameReady(r, f)

LeasesExpire == \E r \in Runs : ExpireRunLease(r) \/ \E f \in Frames : ExpireFrameLease(r, f)

Next ==
  \/ Tick
  \/ Owner
  \/ \E l \in Lanes : LaneStep(l) \/ Crash(l)
  \/ RowsReady
  \/ LeasesExpire

Spec == Init /\ [][Next]_vars

\* Time passes, and the thread of a lane keeps running: _run_scheduler catches
\* every exception of a tick, the executor and the connector have timeouts.
\* Nobody is obliged to stall, to crash or to edit.
Fairness ==
  /\ WF_vars(Tick)
  /\ \A r \in Runs : WF_vars(RunReady(r)) /\ WF_vars(ExpireRunLease(r))
  /\ \A r \in Runs, f \in Frames : WF_vars(FrameReady(r, f)) /\ WF_vars(ExpireFrameLease(r, f))
  /\ \A l \in Lanes : WF_vars(LaneStep(l))

FairSpec == Spec /\ Fairness

-----------------------------------------------------------------------------
(* Properties *)

\* Every row and lane has its declared fields.
TypeOK ==
  /\ clock \in Time
  /\ jobs \in [Jobs -> JobRow]
  /\ runs \in [Runs -> RunRow]
  /\ made \in 0..MaxRuns
  /\ frames \in [Runs -> [Frames -> FrameRow]]
  /\ lanes \in [Lanes -> Lane]
  /\ counts \in [defers : Nat, crashes : Nat, stalls : Nat, updates : Nat]
  /\ shown \in [Runs -> [Frames -> Nat]]
  /\ paid \in [Jobs -> SUBSET Time]

\* Whatever is left to do is for the job as it is now: no edit leaves a run to
\* execute or a frame to send that was made for another revision. The claims
\* rely on it, and so does an owner who has just paused a job.
WorkIsCurrent ==
  \A r \in Runs :
    /\ runs[r].status \in OpenRun => RunIsCurrent(r)
    /\ \A f \in Frames : frames[r][f].status \in OpenFrame => FrameIsCurrent(r)

\* A lane that may hand a frame to Telegram sends for the job as it is, or its
\* lease ran out and the frame is already recorded as perhaps sent. An edit
\* that was confirmed to the owner is not followed by a send for the old job.
SendIsFenced ==
  \A l \in Lanes : lanes[l].pc = "sending" =>
    LET r == lanes[l].run
        f == lanes[l].frame
    IN \/ HoldsSend(l) /\ FrameIsCurrent(r)
       \/ frames[r][f].status = "unknown"

\* No frame is shown to the owner twice, whatever expires, dies or is retried.
NoDuplicateFrame == \A r \in Runs, f \in Frames : shown[r][f] <= 1

\* The frames of a run appear in order: one is on its way, or has been shown,
\* only when those before it are settled.
FramesInOrder ==
  \A r \in Runs : \A e, f \in Frames :
    (e < f /\ (frames[r][f].status \in {"leased", "sending", "delivered"} \/ shown[r][f] > 0))
      => frames[r][e].status \in FinalFrame

\* What is settled stays settled: a late result, a late acknowledgement or a
\* recovery cannot reopen a run or a frame, nor turn one outcome into another.
FinalStays ==
  [][\A r \in Runs :
       /\ runs[r].status \in FinalRun => runs'[r].status = runs[r].status
       /\ \A f \in Frames :
            frames[r][f].status \in FinalFrame => frames'[r][f].status = frames[r][f].status]_vars

\* A run that the schedule makes is for a time later than every occurrence
\* that was run under the job's present definition: none is run twice.
OccurrenceRunOnce ==
  [][\A r \in Runs :
       (runs[r].status = "none" /\ runs'[r].trigger \in {"schedule", "catchup"}
         /\ runs'[r].status # "none")
       => \A t \in paid[runs'[r].job] : runs'[r].due > t]_vars

\* Nor is it for a time that has not come, or that the job does not live to.
OccurrenceInTime ==
  [][\A r \in Runs :
       (runs[r].status = "none" /\ runs'[r].trigger \in {"schedule", "catchup"}
         /\ runs'[r].status # "none")
       => LET ends == jobs[runs'[r].job].def.ends
          IN runs'[r].due <= clock /\ (ends = NoTime \/ runs'[r].due < ends)]_vars

\* The claim looks at the job and raises: its interval is not anchored and was run
\* before, its anchor is after its end, or an update has made it owe an occurrence
\* that is in the table. Only the owner can change that. Until then every claim that
\* comes to the job is rolled back, for whichever job it was made, and a lane that
\* prefers runs does not get to its frames.
Wedges(j) == j \in Looked /\ LookRaises(j)

\* Every run comes to an end, and every frame of it, through crashes, stalls,
\* deferrals and retries: none stays open, unless another job wedges the lane for good.
WorkSettles ==
  \A r \in Runs :
    \/ []<>(/\ runs[r].status \notin OpenRun
             /\ \A f \in Frames : frames[r][f].status \notin OpenFrame)
    \/ \E j \in Jobs : <>[](runs[r].job # j /\ Wedges(j))

\* A job with an end gets to it and is forgotten, unless it is paused, or its end
\* is taken from it, or a job wedges the lane for good: of all schedules that match
\* something, that the claim raises at every tick is the one way to outlive an end.
JobsEnd ==
  \/ \E j \in Jobs : <>[]Wedges(j)
  \/ \A j \in Jobs :
       []<>(jobs[j].status = "paused" \/ jobs[j].redacted \/ jobs[j].def.ends = NoTime)

-----------------------------------------------------------------------------
(* The abstract specification, and the state of it that the tables hold *)

Standing == [j \in Jobs |-> jobs[j].status]

NoJob == 0
JobOf == [r \in Runs |-> IF runs[r].status = "none" THEN NoJob ELSE runs[r].job]

Phase(status) ==
  CASE status = "none"                      -> "none"
    [] status \in OpenRun                   -> "open"
    [] status \in {"succeeded", "failed"}   -> "answered"
    [] status = "invalidated"               -> "withdrawn"

Fate(status) ==
  CASE status \in {"pending", "leased", "retry_wait"} -> "waiting"
    [] status = "sending"                             -> "out"
    [] status \in {"exhausted", "suppressed"}         -> "dropped"
    [] status \in {"none", "delivered", "unknown"}    -> status

Phases == [r \in Runs |-> Phase(runs[r].status)]
Fates  == [r \in Runs |-> [f \in Frames |-> Fate(frames[r][f].status)]]

Appeared  == {rf \in Runs \X Frames : shown[rf[1]][rf[2]] > 0}
Forgotten == {j \in Jobs : jobs[j].redacted}

Ledger == INSTANCE CronLedger WITH
  Times     <- 0..MaxTime,
  standing  <- Standing,
  jobOf     <- JobOf,
  phase     <- Phases,
  fate      <- Fates,
  appeared  <- Appeared,
  taken     <- paid,
  forgotten <- Forgotten

\* The tables implement the ledger: whatever two lanes, their leases, retries and
\* deaths do to the rows, a job does one thing at a time, nothing twice, and the
\* row of a frame says what became of it.
LedgerSpec == Ledger!Spec

=============================================================================
