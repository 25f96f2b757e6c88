----------------------------- MODULE CronLedger -----------------------------
(***************************************************************************)
(* What the scheduler promises the owner of a job, without its tables,     *)
(* lanes, leases and attempts. A job does one thing at a time: it takes up *)
(* an occurrence, later than all it took up before, answers it with some   *)
(* frames, and these go out one after the other. Each appears in the chat  *)
(* at most once, and what is recorded of it is what became of it: it has   *)
(* appeared, it never will, or nobody knows. An edit withdraws whatever    *)
(* has not gone out, and comes when nothing is on its way. A job that is   *)
(* over is forgotten, when nothing of it is left to do.                    *)
(***************************************************************************)
EXTENDS Naturals

CONSTANTS
  Jobs,
  Runs,    \* what jobs do, never used twice
  Frames,  \* the frames of a run, from 0
  Times,   \* occurrences
  NoJob    \* of a run that has not begun

VARIABLES
  standing,  \* of a job: "none", "active", "paused", "ended", "cancelled"
  jobOf,     \* of a run
  phase,     \* of a run: "none", "open", "answered", "withdrawn"
  fate,      \* of a frame: "none", "waiting", "out", "delivered", "dropped", "unknown"
  appeared,  \* the frames in the chat
  taken,     \* the occurrences that a job took up under its present definition
  forgotten  \* the jobs whose text is removed

vars == <<standing, jobOf, phase, fate, appeared, taken, forgotten>>

-----------------------------------------------------------------------------
Unsettled == {"waiting", "out"}
Over      == {"ended", "cancelled"}

\* The run is not answered, or not all of its answer has gone out.
AtWork(r) == phase[r] = "open" \/ \E f \in Frames : fate[r][f] \in Unsettled

Busy(j) == \E r \in Runs : jobOf[r] = j /\ AtWork(r)

\* Jobs may be forgotten with the step that settles the last of them.
Forget ==
  /\ forgotten \subseteq forgotten'
  /\ \A j \in forgotten' \ forgotten : standing'[j] \in Over /\ ~Busy(j)'

Init ==
  /\ standing = [j \in Jobs |-> "none"]
  /\ jobOf = [r \in Runs |-> NoJob]
  /\ phase = [r \in Runs |-> "none"]
  /\ fate = [r \in Runs |-> [f \in Frames |-> "none"]]
  /\ appeared = {}
  /\ taken = [j \in Jobs |-> {}]
  /\ forgotten = {}

Create(j) ==
  /\ standing[j] = "none"
  /\ standing' = [standing EXCEPT ![j] = "active"]
  /\ UNCHANGED <<jobOf, phase, fate, appeared, taken, forgotten>>

\* The owner changes the job, perhaps to another definition, pauses it, goes on
\* with it, or deletes it.
Edit(j, to) ==
  /\ \/ standing[j] \in {"active", "paused"} /\ to \in {"active", "paused", "cancelled"}
     \/ standing[j] \in Over /\ to = "cancelled"
  /\ \A r \in Runs, f \in Frames : jobOf[r] = j => fate[r][f] # "out"
  /\ standing' = [standing EXCEPT ![j] = to]
  /\ phase' = [r \in Runs |-> IF jobOf[r] = j /\ phase[r] = "open" THEN "withdrawn" ELSE phase[r]]
  /\ fate' = [r \in Runs |-> [f \in Frames |->
                IF jobOf[r] = j /\ fate[r][f] = "waiting" THEN "dropped" ELSE fate[r][f]]]
  /\ taken' \in {taken, [taken EXCEPT ![j] = {}]}
  /\ Forget
  /\ UNCHANGED <<jobOf, appeared>>

Begin(j, r) ==
  /\ standing[j] = "active"
  /\ ~Busy(j)
  /\ phase[r] = "none"
  /\ phase' = [phase EXCEPT ![r] = "open"]
  /\ jobOf' = [jobOf EXCEPT ![r] = j]
  /\ UNCHANGED <<fate, appeared, forgotten>>

\* An occurrence of the schedule, later than all before.
Take(j, r, t) ==
  /\ Begin(j, r)
  /\ \A u \in taken[j] : t > u
  /\ taken' = [taken EXCEPT ![j] = @ \cup {t}]
  /\ UNCHANGED standing

\* A run that the owner asks for, or the last word of a job that ends.
Extra(j, r, to) ==
  /\ Begin(j, r)
  /\ to \in {"active", "ended"}
  /\ standing' = [standing EXCEPT ![j] = to]
  /\ UNCHANGED taken

\* The frames up to the last one, or the notice of a failure; the job may end.
Answer(r, last, to) ==
  /\ phase[r] = "open"
  /\ standing[jobOf[r]] \in {"active", "ended"}
  /\ to \in {standing[jobOf[r]], "ended"}
  /\ standing' = [standing EXCEPT ![jobOf[r]] = to]
  /\ phase' = [phase EXCEPT ![r] = "answered"]
  /\ fate' = [fate EXCEPT ![r] = [f \in Frames |-> IF f <= last THEN "waiting" ELSE "none"]]
  /\ UNCHANGED <<jobOf, appeared, taken, forgotten>>

\* The frame is handed to Telegram, when those before it are settled.
Send(r, f) ==
  /\ fate[r][f] = "waiting"
  /\ standing[jobOf[r]] \in {"active", "ended"}
  /\ \A e \in Frames : e < f => fate[r][e] \notin Unsettled \cup {"none"}
  /\ fate' = [fate EXCEPT ![r][f] = "out"]
  /\ UNCHANGED <<standing, jobOf, phase, appeared, taken, forgotten>>

\* It appears while it is out, or later if nobody knows what became of it.
Appear(r, f) ==
  /\ fate[r][f] \in {"out", "unknown"}
  /\ <<r, f>> \notin appeared
  /\ appeared' = appeared \cup {<<r, f>>}
  /\ UNCHANGED <<standing, jobOf, phase, fate, taken, forgotten>>

\* Telegram does not take the frame: it may be sent again.
Return(r, f) ==
  /\ fate[r][f] = "out"
  /\ <<r, f>> \notin appeared
  /\ fate' = [fate EXCEPT ![r][f] = "waiting"]
  /\ UNCHANGED <<standing, jobOf, phase, appeared, taken, forgotten>>

Settle(r, f) ==
  /\ fate[r][f] = "out"
  /\ fate' = [fate EXCEPT ![r][f] = IF <<r, f>> \in appeared THEN "delivered" ELSE "dropped"]
  /\ Forget
  /\ UNCHANGED <<standing, jobOf, phase, appeared, taken>>

\* Frames that are out, and of which nobody will know.
LoseTrack(S) ==
  /\ \A r \in Runs, f \in Frames : <<r, f>> \in S => fate[r][f] = "out"
  /\ fate' = [r \in Runs |-> [f \in Frames |-> IF <<r, f>> \in S THEN "unknown" ELSE fate[r][f]]]
  /\ Forget
  /\ UNCHANGED <<standing, jobOf, phase, appeared, taken>>

OfJob(j) ==
  \/ Create(j)
  \/ \E to \in {"active", "paused", "cancelled"} : Edit(j, to)
  \/ \E r \in Runs, t \in Times : Take(j, r, t)
  \/ \E r \in Runs, to \in {"active", "ended"} : Extra(j, r, to)

OfFrame(r, f) == Send(r, f) \/ Appear(r, f) \/ Return(r, f) \/ Settle(r, f)

Next ==
  \/ \E j \in Jobs : OfJob(j)
  \/ \E r \in Runs, last \in Frames, to \in {"active", "ended"} : Answer(r, last, to)
  \/ \E r \in Runs, f \in Frames : OfFrame(r, f)
  \/ \E S \in SUBSET (Runs \X Frames) : LoseTrack(S)

Spec == Init /\ [][Next]_vars

-----------------------------------------------------------------------------
(* It follows that: *)

\* A job does one thing at a time.
OneTask ==
  \A q, r \in Runs : (jobOf[q] = jobOf[r] /\ AtWork(q) /\ AtWork(r)) => q = r

\* A job whose text is removed has nothing left to say, nor ever will.
ForgottenIsDone == \A j \in forgotten : standing[j] \in Over /\ ~Busy(j)

=============================================================================
