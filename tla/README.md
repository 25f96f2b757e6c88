# Tomo: models, checks and proofs

Tomo is a personal assistant that lives in Telegram. One Railway process (the
*host*) polls Telegram, keeps every durable fact in SQLite, and starts one
Daytona sandbox per owner in which the assistant's turn runs. The sandbox never
talks to Telegram: it prints protocol lines, and the host decides what reaches
the phone. Scheduled jobs ("cron") and exchanges between two owners' assistants
("peers") are host-side ledgers over the same turns.

This directory holds TLA+ modules translated from that code
(`src/tomo_core/src/tomo_core/`), TLC configurations that check them on small
instances, and TLAPS proofs. `PROJECT.json` maps every definition to the source
lines it stands for.

## Inventory

| Component (source) | State | Operations | What is hard | What makes it correct |
|---|---|---|---|---|
| Telegram turn pipeline (`onboarding_store`, `telegram_router`, `shared_gateway`, `sandbox_dispatch`) | inbox rows, one turn row per chat, generations with inputs, one delivery row per bubble; worker threads; per-owner lock | poll and enqueue, debounce, claim, reserve / recheck / send / record each bubble, complete, fail with retry, recover after a crash, reserve a chat for automation, bind a chat | a new message supersedes a running turn at any instruction; lost acknowledgements; crashes; stale sandbox revisions; rebinding | the two tables agree on who holds a chat; nobody answers a burst they did not see in full; no bubble twice; at most one late bubble; every message settles |
| Control inbox, install links (same files) | control rows with attempts; hashed one-time tokens | claim in chat order, retry with backoff, consume a token | retry budget, per-chat head of line, expiry | order per chat, a token binds once |
| Cancellation queue (`telegram_router`) | bounded in-memory queue, retry times; durable `cleanup_pending` | schedule, refill, drain | overflow, crash between commit and schedule, backoff windows | every superseded sandbox session is deleted at last |
| Cron (`cron_store`, `cron_service`, `cron_schedule`) | jobs with revision, runs with lease, deliveries with lease | claim due run, begin, renew, complete, fail, defer; claim, admit, finish delivery; pause / resume / update / delete / run now; recover leases | API calls between any two steps of the lane; expired leases; process death while sending; catch-up arithmetic | no send for a job that changed; no occurrence run twice or lost; a job always gets to its end |
| Peer exchange (`peer_store`, `peer_exchange`, `peer_service`, `peer_policy`) | relationships and grants with revisions, requests, leases, confirmations, notices | invite, accept, revoke, submit, claim, answer, confirm, expire | revocation while a request is being answered, deadlines, replays | nothing is disclosed after a revocation or without a confirmation that is still valid |
| Personal data (`sqlite_personal_data`, `runtime`, `memory/extractor`) | the session with its fence, messages, memories, governance and pending deletions; local database, two checkpoint slots | load, save, stage, settle, disable, delete, purge; backup and write a slot | turns that overlap, each with its own copy of the session; a withdrawal between staging and settling; a crash between slot writes | only a completed answer is remembered; what was withdrawn stays so; what was shown is stored; what was reported is durable, what was deleted is gone |
| Sandbox supervision (`daytona_supervisor`, `sandbox_registry`, `daytona_client`) | registry row per owner, remote sandbox, its command sessions | reconcile, replace, create, start, test; open and delete sessions | calls that fail after they took effect, a name that is taken, deployments in between | an owner is served in the end; every session has someone to end it |
| Conversation engine and sandbox protocol (`conversation/`, `tool_execution`, `sandbox_protocol`) | segments, attempt, frames held and sent, budget; the host's parser | stream, judge, repair, run tools, answer, give up; accept or refuse an event | the model's order of frames and calls, deadlines, failures after a frame is visible | the host accepts every stream; what was shown stands; nothing ungrounded is shown; nothing is done twice |
| Hosted authentication (`hosted_auth`, `oauth`) | token file, fingerprint file, process lock | adopt a bootstrap, refresh, save | rotating refresh tokens, death between two files | what is kept is what the service honours |
| Typing lease (`typing_status`) | thread, flags | start, pause, resume, close | races of close with the thread | not modelled |
| HTTP APIs, capabilities, providers, transport, dashboard | none of their own, or formats | parse, sign, call | I/O | not modelled |

The components interact through the stores: the poller, the router's workers
and the cron lane share `telegram_chat_turns` and `telegram_generations`; the
cron lane runs its turns in the same chats (`reserve_automation_generation`)
under the same owner lock; the API writes jobs and relationships while the lane
runs them. A turn runs in the owner's sandbox as a process of its own: what it
writes to its standard output is all the host hears of it, and what the host
knows (which generations were completed) reaches the sandbox with the next
turn only. The owner's database lives in the sandbox, its durable copy on a
volume that outlives it.


## Modules, and how they correspond to the code

A store method of this program is one `begin immediate` SQLite transaction, so
in every module it is one action; the Python code between two store calls is
the `pc` of the thread that runs it, and anything may happen there. An exception
that escapes a transaction is modelled as the roll-back it is. Text, wording and
identities of Telegram messages are left out: a bubble or a frame is its index.

**`TelegramTurns`** is the interactive pipeline. `inbox`, `turn`, `gens` and
`bubble` are the tables `telegram_inbox` (rows of kind `message`),
`telegram_chat_turns`, `telegram_generations` (with its inputs) and
`telegram_delivery_events`; `work` is what each router worker, and the cron
lane's thread, is doing. `EnqueueMessage`, `ClaimNextWork`, `ReserveDelivery`,
`RecordDelivery`, `CompleteGeneration`, `FailGeneration`, `ReserveAutomation` and
`Restart` (`recover_interrupted_generations`) are the store's methods with all
they write; `BeginTurn`, `RecheckDelivery`, `TelegramAccepts`, `StaleEvent`,
`TurnFails`, `EndTurn` are the steps of `SharedTelegramGateway` and
`SandboxDispatch` between them. Time is a flag per chat: its `quiet_until` is in
the future or has passed. The owner's lock of `SandboxDispatch` is the condition
`OwnerLockFree`. `screen` and `late` are history variables: what the phone shows.

**`TurnLedger`** says what that pipeline promises about messages without any of
its tables: who holds a chat, what a turn was started with, what is settled.
`TelegramTurns` maps to it (`Ledger`) and `LedgerSpec` says that every behaviour
of the tables is one of the ledger.

**`CronSchedule`** is the arithmetic of `cron_schedule.py` and `_due` of
`cron_store.py`, over whole ticks. A cron expression is the set of minutes it
matches, so its matching of calendar fields is not modelled; where the code
raises is (`CatchUpRaises`, `NeverFires`).

**`CronScheduler`** is `CronStore` and the lane of `CronSchedulerService`. `jobs`,
`runs` and `frames` are the tables `cron_jobs`, `cron_runs`, `cron_deliveries`. A
*lane* is a process that runs the scheduler: one in production, two when a
deployment overlaps with the one before. A lease token is written down as the
lane that claimed the row last (`holder`): a lane has one claim at a time, so
its token is in the row exactly while no other lane has claimed it. Leases and
backoffs are flags (`expired`, `ready`). A tick of a lane is `Recover`, then
`ClaimDueRun` and `ClaimDelivery` in the order that `_prefer_execution` gives
them, then what was claimed. Rows that are pending for an older revision of
their job would be skipped or suppressed by the claims; `WorkIsCurrent` says
there are none, so the claims have no such disjuncts. `Owner` is the control
API: create, update, pause, resume, delete, run now. `shown` and `paid` are
history: how often a frame reached the chat, which occurrences were run.

**`CronLedger`** says what the scheduler promises the owner of a job, without
tables, lanes, leases and attempts: a job does one thing at a time, takes up each
occurrence after those before, answers it with frames that go out one by one, each
of which appears at most once; what is recorded of a frame (delivered, dropped,
unknown) is what became of it; an edit withdraws what has not gone out, when
nothing is on its way; a job that is over is forgotten when nothing of it is left.
`CronScheduler` maps to it: a frame that is pending, claimed or to be retried is
`waiting`, one that is being sent is `out`, one that was given up or suppressed is
`dropped`. Claims, leases, backoffs, deaths and retried runs are no steps of it.

**`PeerExchange`** is `PeerStore` with the policy, the exchange and the workers
around it. `relationship`, `grants`, `threads`, `requests`, `confirmations`,
`notices`, `responses`, `deleted` and `marks` are the tables `peer_relationships`,
`peer_grants`, `peer_threads`, `peer_requests`, `peer_confirmations`,
`peer_confirmation_notices`, `peer_responses`, `peer_deleted_owners` and
`peer_history_watermarks`. There is one relationship, between two owners, since
two of them share only the workers' attention; it is `blocked` or `revoked` to
the same effect. A *caller* is a thread of the API or of a Telegram command: it
decides and then stores a request, and looks at its generation once more
(`Ask`, `Submit`, `CheckSource`), or answers a confirmation (`Answer`,
`DecideConfirmation`). A *worker* is a thread of `PeerService`: a round looks for a
notice and then for a request, and makes several transactions of each, with
anything in between. `SameAuthority` compares the revisions a claim has seen, as
`_claim_fence` and `finish` do. Lease tokens are again the worker that claimed the
row last (`holder`); deadlines, leases and lifetimes are flags. Of a row that is
over, what no later code looks at is dropped (`Over`, `ConfirmationOver`,
`NoticeOver`). `shown` is history: how often an owner saw a notice.

**`PersonalData`** is the owner's database as the turns of a sandbox use it: the
session row with its fence, messages (by burst), the assistant's rows (by the
number of bubbles), `accepted_generations`, memories, governance, pending
deletions. A *turn* has a `pc` and its copy of the session: it loads once and
saves the whole copy at every step (`SaveInbound`, `Observe`, `PersistFrame`,
`Complete`), each save under the fence of `save_session`, with the settling of
provisional memories that the save does (`Save`, `Settled`). `StageMemory`,
`ExtractMemory`, `DisableByUser`, `RequestDelete`, `ConfirmDelete`, `PurgeWindow`
and `DeleteOwner` are the repository's operations. `barrier` and `fenced` are
history: under which governance a content was last withdrawn, and the turns
that a purge has silenced (under way, saved before, and of a revision that is not
above the session's).

**`Checkpoints`** is the durable side of that database: `slots` are the two files
on the volume, `local` the working copy, and a process commits, takes the lock
and a backup, truncates and writes slots and reports, with a failure or a kill
between any two of these. **`SandboxSupervisor`** is `DaytonaSupervisor.reconcile`
with one action per call of the service. **`OwnerVolume`** composes the two:
what becomes of the sandbox (stopped, gone) becomes of its processes and files.

**`SandboxSessions`** is what `DaytonaClient` does with command sessions, and its
memory of deletions (`keys`, the code's `_deleted_sessions`). **`RouterWork`**
composes it with `TelegramUpdateRouter` at one chat: `poll_once`, the cancellation
queue with its set and its backoffs, the refill from `cleanup_pending`, the
workers' loop, and the dispatch of a turn under the owner's lock, down to the
`finally` clause that ends its session. The refill and the claims take rows in
the order of their ids, up to the queue's size (`Oldest`). What a turn shows is
`TelegramTurns`.

**`EventStream`** is the host's reader of a turn's events: what it accepts after
what it has read (`EventFits`), with the shape and budget of results. **`TurnEngine`**
is the producer: `ConversationEngine.respond_iter` as a loop over segments, with
what the model's stream, the tools, a peer and the clock may do as free choices.
A frame is its segment, its index and its author; a tool is its kind, by what the
engine tells apart. `stream` is what was written, which the invariants give to
`EventStream`'s reader. Since a frame carries its place, the frames that were
read, and those of a result, are sets: the reader refuses a frame that is not
the next of its segment or is of an earlier one (`FrameFits`), so that equal
sets are equal sequences.

**`HostedAuth`** is `HostedSuperGrokTokenBroker`: two files, a process lock, and a
service that honours the last refresh token of a family only. **`ControlUpdates`**
composes it with the updates that are no turns: `/start` with a link, the answer
to a confirmation, and text that is run at once; the order of a chat, the retry
budget, the second attempt after an expired token, the reset after a death.

`MCTelegramTurns`, `MCCronScheduler`, `MCPeerExchange`, `MCPersonalData`,
`MCOwnerVolume`, `MCRouterWork`, `MCTurnEngine` and `MCControlUpdates` only give
constants their values; `MCPeerExchange` also has the constraints of its run, and
`MCCronScheduler` the questions about the arithmetic of schedules.
`TelegramTurnsProofs`, `CronSchedulerProofs`, `PeerExchangeProofs`,
`PersonalDataProofs`, `OwnerVolumeProofs`, `RouterWorkProofs`,
`TurnEngineProofs` and `ControlUpdatesProofs` hold the theorems. Definitions
whose comment begins with *Mutant* are used nowhere: each is a plausible mistake
in one definition, and each property of a passing run is violated when the
definition is replaced by its mutant.

## The runs

| Run | What it asks | Instance, and why it is enough |
|---|---|---|
| `turns_one_chat` | Do the tables stay consistent, are bubbles neither doubled nor late by more than one, do the tables implement the ledger? | One chat, two messages, two workers, three generations of two bubbles, an automation turn, a crash and a rebind at any step. Every conflict is between two threads over one chat; two bubbles give a bubble in flight and one after it; three generations give a retry of a retry or an automation turn between two bursts. |
| `turns_progress` | Is every accepted message answered or given up? | One chat that is rebound between two owners, one worker and the cron lane's thread, which contend for the owner's lock; an automation turn in the same chat, a crash, two attempts; generations enough for every behaviour to end, so that the bound is not what ends one; no bubbles, whose steps are each fair on their own. Two chats share nothing but the worker, which takes the oldest, and that lock. |
| `cron_edits` | Is there never work for a job that changed, never an occurrence twice or out of time? Do `next_occurrence`, `catch_up` and `_due` find the first and the latest occurrence, and is what was run never owed again? | One job and one lane against an owner who may edit between any two of its steps; schedules with an end, a success limit, nothing to match; two runs, one of them by hand, three revisions. Time has a tick before, at and after the end. The arithmetic is asked over every schedule and pair of times below 8 ticks, minutes of two ticks, periods of one to three: both sides of every division and boundary. |
| `cron_leases` | What do expired leases and late answers do? Do the tables implement the ledger? | Two lanes and a stall that expires one lease under its lane, one run of two frames with two attempts each, an update. The ledger was also checked once with two attempts at the run (1.5 million states), with a second run that the owner asks for (0.8 million states), and on the instance of `cron_edits`. |
| `cron_progress` | Does every run and frame settle, and a job with an end get to it, unless a job wedges the lane? | One lane, a crash, a deferral, failures and retries, pauses, resumes and an update, two attempts of each; an expression with an end, a one-shot, and an interval with an end that is not anchored, so that the ticks that raise are reached. Without its exception `JobsEnd` is violated here. Checked once with two jobs, of which one wedges the other (0.4 million states, without edits and retries). |
| `peer_exchange` | Is anything disclosed without a permission that is valid now? Is a notice shown twice, a thread answered out of order, a settled request taken up again? | Two calls of one assistant in one thread, an availability question and an ordinary message, so that the one waits for a confirmation or a grant and the other for the one; one caller; a call is claimed at most twice; three events beyond the ordinary (`MaxEvents`): an exchange needs two grants, the third is another grant, a lapse, a supersession, a purge, a deletion, a worker without an installation, a worker's death or the lapse of the thread (`LapseIsEvent`); a revocation comes on top at any step, and so do lapses of confirmations, deadlines and leases. Two workers while there is one request; one of them rests once there are two (`OneWorkerForTwo`): what two workers do to one another they do over one row. |
| `personal_data` | Is only what a completed answer said remembered, does what was withdrawn stay so, is what was shown stored, is a turn silent once a purge took its session? | Three bursts, of which two processes may overlap (one superseded and not yet killed), one bubble each, two memories (one may replace the other), an upsert and a removal of one content, one change of governance, one deletion that waits, two purges (of the two later bursts) or deletions of the owner, in any order: the second can meet a session that was made anew after the first. The third revision leaves a gap, as a retry's does: a purge adds one. |
| `owner_volume` | Is what was reported durable and what was deleted gone? Is a wanted sandbox served in the end? | Two processes, a fact that is kept and one that is deleted, one write that fails or process that dies; one deployment, one failing call or accident (checked once with two, over 1.4 million states). Two slots and the lock are the code's own numbers; a second failure adds nothing to what the first leaves in the slots but another torn one, which `ReportedIsDurable` excepts. |
| `router_work` | Does every running session have someone to end it, and does every cancelled session end? | Two generations of one chat, two workers, a queue of one (so that it overflows, and one row that is refused for ever fills it), one failing call of the sandbox service or of the store, which may end a worker, one death of the process. Deletions of sessions that are gone fail without bound. Checked once with two failures, so that both workers may end (2.1 million states). |
| `turn_engine` | Does the host accept every stream, does what was shown stand, is nothing ungrounded shown, is nothing done twice, does the turn end? | One turn with every kind of tool; three segments, two rounds of tools, batches of two, two frames a segment and three in all, one repair: each budget can run out before any other. |
| `turn_engine_late_call` | The finding below. | The same instance. |
| `control_updates` | Are a chat's updates taken in order, do credentials stay good, is every update answered or given up as long as the turns let a worker look at it? | Two chats that share a link (`/start` in each, then text and a confirmation in one), two workers, two attempts, one death, two bootstraps, a token that rotates, two failures: one for the call and one for its retry, or two exceptions of the store, which end both workers. The turns are not in it: a worker may at any look find one due. |

Bounds named in the modules (`MaxGenerations`, `MaxRuns`, `MaxTime`,
`MaxRevision`, `MaxDefers`, `MaxCrashes`, `MaxStalls`, `MaxUpdates`, `MaxManual`,
`MaxRestarts`, `MaxAutomations`, `MaxRequests`, `MaxEvents`, `MaxOverlap`,
`MaxBubbles`, `MaxGovernance`, `MaxPending`, `MaxPurges`, `MaxFailures`,
`MaxSnapshot`, `MaxTroubles`, `MaxGens`, `MaxBatch`, `MaxBootstraps`, `MaxIssued`;
`Procs`, `Facts`, `Mem` and `Windows` are bounds too) stand for counters and tables that the program
does not bound. The proofs hold for every value of them. In the runs for
liveness the bounds could hide or fake progress: there the next-state relation
leaves the rows enough for every behaviour to end, and a lane that finds
`MaxRuns` used goes on to its frames as it does when nothing is due.

Worker and lane symmetry are used in safety runs only. Deadlock is checked where
polls are redelivered and lanes tick for ever; `personal_data`, `owner_volume`,
`router_work`, `turn_engine` and `control_updates` really stop when their bounds
are used up or the turn is over, and do not check it.

### Fairness

The workers' loop, `_work_forever`, catches nothing (`telegram_router.py:279-284`):
`process_next` and `drain_cancellations` handle what a turn, an update or a
cancellation raises, but an exception of the store in a claim, a refill or in the
recording of a result ends the thread, and no other is started before the
process is. `RouterWork` and `ControlUpdates` have that as an action (`Dies`) and
assume of a worker only that it goes on while it lives.

`TelegramTurns!Fairness` assumes more: that no exception of the store ends a
worker. Under that, workers loop for ever and take the chat whose
`quiet_until` is the oldest, so no chat is passed over; a sandbox command has a
timeout and an HTTP call returns or raises, so a turn and a send end; a debounce
window passes. Nothing obliges messages, frames, automation or crashes to come.
`EveryMessageSettles` counts a message that is given up as settled.

`CronScheduler!Fairness`: `_run_scheduler` catches every exception of a tick and
sleeps, the executor and the connector have timeouts: a lane's steps are weakly
fair, as are the clock, the end of a backoff and of a lease. Stalls, crashes
and edits are not. A tick that raises is a step too: fairness does not get a job
past it, and the properties except it (`Wedges`).

`OwnerVolume`: a sandbox is reconciled before every turn, so again and again;
accidents and failing calls are bounded, which is what `SandboxIsServed` needs:
nothing serves an owner while the service keeps failing. `RouterWork`: the
steps of a worker that lives and the end of a backoff; messages, sessions that
end by themselves and restarts are not promised. `CancelledSessionsEnd` says what
that does not overcome: every worker ended by an exception, or a queue full of
older rows whose deletion is refused for ever. `TurnEngine`: the engine's own
steps, since streams and tools have timeouts. `ControlUpdates`: the steps of a
worker that lives, once it looks for an update, and the end of a backoff.
`process_next` looks for one only when no turn is due
(`telegram_router.py:172-198`), and turns may always be due: `FindNoTurn` is not
fair, and `ControlsSettle` has as its hypothesis that the turns, and the
cancellations that come before both, leave a worker to the updates again and again.

### Findings

`turn_engine_late_call`: after a segment that acted no tools are offered, so
frames go out as they are read. If the model then calls a tool that acts or goes
to a peer all the same, `segment_frames.clear()` (`engine.py:620-622`) drops frames
that are out already, `TurnRunResult` refuses the result and the sandbox reports
`runtime_failed` after a visible frame; `docs/conversation-architecture.md:86-87`
says that a visible frame makes the turn complete as grounded partial output.
`ShownAnswersStand`, which holds, says that this is the only way.

### Met on the way

What follows was read from the code, or found by an earlier run, and has no run
of its own here.

*Turns.* A crash while a *superseded* generation has a send in flight leaves its
bubble `reserved` for ever (`onboarding_store.py:698`; `docs/daytona-railway.md:76`):
recovery settles only generations that are still active. `HandoverIsRecorded`
says how far this goes. A replacement generation claimed while its predecessor's
last send is in flight is not told of that bubble; `OneBubbleMissing` says it is
never more than that one. Superseded generations count as attempts, so that a
burst that was interrupted often is given up after one failure
(`docs/daytona-railway.md:89-90`).

*Cron.* An interval job without `starts_at` makes `claim_due_run` raise at every
tick after its first run (`cron_store.py:430`), and the claim looks at all jobs in
one transaction, so no other job runs either. Pausing and resuming a one-shot job
while its run executes leaves it active with nothing left to happen
(`cron_store.py:396`). An update of a job whose occurrence is running resets
`last_due` while the row keeps its place in the unique index, so that the claim
raises; so does a job created with an end in the past, whose anchor is after its
end. A valid expression that never matches (30 February) makes the *completion* of
a manual run raise, so that it is executed again at every lease expiry. That a
look at a job raises is the exception `Wedges` of `WorkSettles` and `JobsEnd`:
only the owner can change it, until then every claim that comes to the job is
rolled back, for whichever job it was made, and a lane that prefers runs does not
get to its frames.

*Personal data.* What the extractor is sure of (confidence 0.85 and more) names
the generation where a message id is expected, and `_safe_memory_control`
(`runtime.py:674`) refuses it: such memories are never stored. The extractor stages
under the governance revision read when the answer is finished (`runtime.py:611`),
not the one of the turn's start that
`.hermes/plans/2026-07-12_233656-portable-memory-session-search-reactions.md:552`
asks for. A turn that runs while the owner is deleted recreates session and
messages with its next save; a turn loaded before a purge, with a revision above
the fence, restores what was purged. The two together: the owner is deleted, an
older turn makes the session anew, the window is purged, and a newer turn, which
had saved before all that, still saves, because its revision is above that of the
session the purge found. `ShownIsStored` and `FencedTurnsAreSilent` are stated of
what the fence does cover, the turns that are not past the session they lose. A purge restores what the purged memory had
superseded even when the user has disabled another memory of the same content,
and of a chain of three it restores the first. `delete_session`, import and export,
and `accept_generations` have no caller.

*Volume and sandbox.* A deletion writes over both slots. If it is stopped there
and the sandbox is lost as well, a kept fact can be lost
(`docs/operations/daytona-sqlite-checkpoints.md:11-12`); `cut` in
`ReportedIsDurable` is that exception. After a failed deletion of a sandbox the
row already names the new snapshot, so the next `_create` finds the old sandbox by
its name and records it as ready until a look at it; a sandbox whose start always
fails is never replaced; a failure of `_sandbox_named` inside `_create` is not
caught, and the row stays `provisioning`.

*Router.* The comment at `sandbox_dispatch.py:139` ("a sandbox never has two
session turns racing") can be false: the dispatcher's deletion is deduplicated
while the canceller's is in flight, or its error is swallowed, and the lock is
given back. The session of a failed generation is never tried again. The deletion
of a session that does not exist (404) raises (`daytona_client.py:182-186`) and is
retried for ever (`telegram_router.py:245-255`); as many such rows as the refill
reads, a hundred, keep younger ones out of it (`Crowded`). An exception of the
store ends a worker (`Dies`), and with the last of them cancellations, turns and
control updates stop while the poller goes on to accept messages; one in the
poller itself ends `run_forever`, which is a death of the process here.
`poll_once` names the chat's *current* owner for an interrupted generation: after
a rebind the cleanup looks at the new owner's sandbox.

*Control updates and credentials.* A worker that always finds a turn due never
looks for a control update: with few workers (`telegram_router.py:83` has one, the
hosted configuration four) a steady flow of turns starves `/start`, confirmations
and commands. An update that was in the hands of a worker when an exception of the
store ended it stays `processing`, and every later one of its chat waits until the
process is restarted (`Blocked`). `consume_start_token` reads and then updates
without looking at the link again: two chats that read it together are both bound
by it (`docs/onboarding-telegram.md:21`), and `installation_for_tomo` then finds
none. A retry after the link was consumed is told that it has expired; one after a
peer request was decided, that it is no longer available. When the second bubble
of a `text` update fails, the whole turn is run again. `_refresh` raises on a bad
`expires_in` after the token was rotated and before it is saved. A deployment that
is rolled back would adopt its old bootstrap again; the model's bootstraps only
grow. `OnlyGroundedFrames` and the reader: a reaction that the owner allows only
after the first frame is emitted then, and the host refuses it
(`sandbox_protocol.py:295-296`); `toggled` in `StreamIsAccepted` is that
exception.

## What is proved

Every theorem is about `Spec`, for all values of the constants that satisfy
`ConstantsAssumption` (finitely many attempts, a scheduler that is not a worker,
...), `CronAssumption` and `MinuteAssumption`, `PeerAssumption`,
`PersonalDataAssumption` (generations are numbered in the order they are claimed
in, and their revisions do not fall), `CheckpointsAssumption` (the value that
stands for nothing is neither a process nor a database), `RouterAssumption` (there
is a generation, and a place in the queue), `BudgetAssumption` and
`ToolsAssumption` (limits and bounds are numbers, and a turn's limits are not below
a segment's), or
`ControlAssumption` and `AuthAssumption`. `Chats`, `Updates`, `Workers`, `Lanes`,
`Calls`, `Threads`, `Procs`, `Facts`, `Mem` and `Controls` may be infinite.

*Turns.* `TypeInv` is `TypeOK` with `WorkersHaveGeneration`: a thread that is not
idle names a generation that was made; without that the updates of the tables
are not well typed. `TypeCorrect` follows. `TablesInv` is the inductive
strengthening of `TurnNamesActive`, `NoMessageStranded`, `OwnerSawEverything` and
`RevisionsGrow`: the four need each other (closing a burst strands nobody only
because the closing generation saw the whole burst, which holds only because
the tables agree on who that is) and need facts about rows that are not made
yet, about bursts of distinct chats, and about automation generations.
`TablesAgree`, `NothingStranded`, `FinisherSawEverything`, `RevisionsIncrease`
follow, and with them `ImplementsLedger`: the initial state maps to the ledger's,
and each action maps to one of its steps or to a stutter. `BubblesInv` is about
sends: a generation has one worker, a worker that sends has its bubble reserved
(so a second one cannot reserve it), what was seen has a row. `NeverTwice` and
`AtMostOneLate` follow. `RecordInv` is about what is on record of what was seen: a
generation has one reserved bubble at most, which a thread has in hand while the
generation is active (`OneReserved`, `ReservedIsInHand`); a seen bubble is never
put down as suppressed (`SeenIsKept`); and of an earlier turn of the burst at most
one bubble is exposed, that is seen or being sent and not in the context that the
newest turn was given (`OneExposed`). It is inductive together with the three
before it: a turn that starts copies every recorded bubble of its burst, so that
what it misses is the reserved one, and a turn that lost its chat reserves
nothing further. `RecordsAreHandedOver` (`HandoverIsRecorded`) and
`AtMostOneMissing` (`OneBubbleMissing`) follow.

*Cron.* `TypeInv` is `TypeOK` with `LanesHold`: a lane that executes or sends
names a run that is in the table. `SchedulerTypeCorrect` follows. `DeliveryInv`
adds that rows not made yet are empty and that frames are made by the end of a
run (`RowsInv`), and three facts about senders (`SendInv`): what was shown is
being sent under that lane's token or settled, a lane about to send either
holds the send or finds it already recorded as unknown, and two lanes never
send the same frame. `SchedulerShowsOnce` follows: no frame is shown twice,
whichever leases expire and whichever processes die. `WorkInv` is what the edits
of a job must leave behind: `WorkIsCurrent` itself, one open run of a job, frames
that are made from the first on and taken up one after the other. It is inductive
together with `DeliveryInv`. Each action makes a run, or turns rows forwards only
(`RunTurns`, `FrameTurns`), or withdraws what is open of a job.
`SchedulerWorkIsCurrent`, `SchedulerSendIsFenced`, `SchedulerFramesInOrder` and
`SchedulerFinalStays` follow (`FinalStays` is not asked of TLC: the ledger, which is,
implies it).

The arithmetic is proved for every schedule and all times: `CatchUpFindsLatest` and
`NextFindsFirst` say that the two functions find the latest and the first
occurrence, none passed over, and `DueIsPaidOnce` that what `_due` gave out is not
given out again. With them `PaidInv` is inductive (what was run of a job is not
after `lastDue`, which is not after the clock, nor after a pause that is yet to
be made up for), and `SchedulerRunsOnce` and `SchedulerRunsInTime` follow: no
occurrence is run twice, none before its time or past the job's end.

`SchedulerImplementsLedger` is the refinement. It needs all of the above, and four
facts more, which are inductive together with it (`LedgerInv`): what a lane has seen
Telegram take is in the chat once (`TakenIsShown`), so that `delivered` is recorded
of nothing else; the clock is within its bound; and, of the ledger itself, `OneTask`
and `ForgottenIsDone`. `OneTask` is what redaction rests on: the code looks for
frames that are left and for no open run (`_redact_terminal_if_ready`), which is
enough only because the frame that was just settled was the one thing its job was
doing. That the two are kept is proved of the ledger's steps (`LedgerKeeps`), which
are far fewer than the scheduler's; every action of the scheduler is then one step
of the ledger (`OwnerLedger`, `ClaimDueRunLedger`, `ExecuteLedger`, `RecoverLedger`,
`DeliverLedger`) or none. Read back, they say of the tables
(`SchedulerForgetsTheDone`) that a job whose text is redacted has nothing left to
run or to send.

*Peers.* `TypeInv` is `TypeOK` with `WorkersHold` and `CallersHold`: what a thread
has in hand was made. `PeerTypeCorrect` follows. Every property of the run
`peer_exchange` is proved, along four invariants. `RowsInv` says, of one request
at a time, how its status, its confirmation, its notice and its response go
together, and that rows not made yet are empty; each step either keeps to an
allowed change of each row (`RowStep`) or makes a row, or claims one after
sweeping the lapsed. `EveryWaitHasDecision`, `EveryResponseMatches`,
`EverySettledStays` and `EveryNoticeIsWanted` follow. `OrderInv` adds that a
thread's count is above the places it gave out, and that a request that was put
back is still the first open one of its thread: `ThreadsAnsweredInOrder`.
`FencesInv` says what a lease is worth: while its worker holds it and the
relationship lasts, either some grant is newer than the one the claim has seen, so that
`finish` refuses, or the question is covered as it was at the claim. With it
`EveryDisclosureIsAuthorized`, whatever was edited, lapsed and edited back in
between. `ShownInv` is about notices: a worker that sends is the only one to, and
a notice that was shown cannot be claimed again (`EveryNoticeShownOnce`).

*Control updates and credentials.* `OrderInv` adds to `ControlsInOrder` that what a
worker has in hand is marked as such and in one hand only (`InHand`), and that
updates come in order, so that what has not come was not tried (`Arrived`): the
claim lets an update pass that has not come yet, and only `Arrived` says that no
earlier one of its chat is among them. Each step of a worker with an
update in hand either goes on with it or lets go of it (`HandlingSteps`), but for the
exception that ends the worker and leaves the row as it is (`MovesKeepOrder`). `UpdatesInOrder` follows. `AuthInv` is
about the broker alone, since every step of the updates is one of its steps or
leaves the credentials as they are (`StepsOfTheBroker`): the fingerprint is never
ahead of the file, nor the file of the bootstrap, and of a bootstrap above the
fingerprint nothing was issued yet, which is why adopting it is safe after a
death between the two files. `CredentialsKept` follows.

*Personal data.* `MemoryInv` is about memories: what is not provisional comes from
a completed generation, what a memory gives way to was found and is still there,
a provisional memory that can still come up was staged when what it aims at was
not disabled by the user, and nothing is of a governance to come. Every settling
of a set of memories keeps it (`Settled` looks at the whole set at once). `TurnInv`
is about the copies that turns hold: generations are claimed in order, a copy has
no reply of a later turn and not less of a reply than the user has seen, what it
counts as accepted was completed, and the session is past every turn that a purge
has silenced. `FoundIsCompleted` (`NothingFromUnfinished`), `SeenIsStored`
(`ShownIsStored`), `WithdrawnIsGone` and `PurgeSilences` follow.

*Router.* `RouterInv` says in whose hands a generation is: run by one worker, which
claimed it (`OneDispatcher`), cancelled by one worker or waiting in the queue once
(`OneCanceller`). That is what gives the mark of a deletion in `_deleted_sessions`
its meaning: while the session runs, whoever set it is still at it (`MarkIsKill`),
and after a cancellation the session runs only in the hands of its own turn
(`CancelledIsEnded`). `SessionsAccounted` follows: a session that runs has a worker in
its turn, or a cancellation that is owed or under way; and `OneHandEach`.

*Volume.* `VolumeInv` says who is at the volume (`LockInv`: exactly the holder of
the lock, and only with a working copy), where what is deleted may still be
(`DeletedInv`: in a slot that its deletion has yet to write, nowhere once that is
reported) and what would be restored (`DurableInv`). The last needs the step in the
middle of a checkpoint: the slot that is torn is not the newest whole one
(`TornIsNotRestored`), the slot that is written is newer than the other
(`NewerIsRestored`), so that in between a new sandbox starts from what it would
have before. A process may leave the volume at any point, killed or with its
sandbox, and leaves what was acknowledged unless it was between the two slots of
a deletion (`LeftDurable`). `DeletedStaysGone` and `ReportedStaysDurable` follow. What
the supervisor does is nothing but the three ways of `Follows`.

*Engine.* `ActsInv` says that no stream is offered a tool that acts once one was
attempted, and that what is about to run was offered: `TurnActsOnce`. `StreamInv`
relates the producer to the reader. While the turn lasts, its segments are batches
that show an announcement at most and leave a segment, and its frames, for an
answer (`Ongoing`); what an attempt may hold, call and have sent depends on where
the loop is and what it was offered (`Attempted`); and the frames that are out are
exactly those of the segments and the first of the attempt (`Shown`). The reader
then accepts frames that go on with a segment (`FramesGoOut`), and the result that
`Completed` makes of them (`Concluded`). `HostAcceptsTurn`,
`ShownTurnEndsWithResult` and `ModelSpeaksAfterResults` follow, for any limits that
fit together as `BudgetAssumption` says.

`TurnIsFinite` is what can be said here of `TurnEnds`. `StepsLeft` counts the steps
that a turn can still take: the segments and repairs that can follow, each worth a
whole stream, plus how far the present attempt is from its end, plus what happens
once. It is a number that the budgets bound and that every step lowers, under
`StreamInv` and the bound on a stream's calls (`MaxBatch`, the model's; in the code a
stream is finite because of its provider's timeouts). So only a step that nobody
takes can keep a turn from ending; that fair scheduling takes it is left to TLC.

Checked by TLC only: what is stated as liveness (`EveryMessageSettles`,
`WorkSettles`, `JobsEnd`, `SandboxIsServed`, `CancelledSessionsEnd`, `TurnEnds`,
`ControlsSettle`), which the prover cannot treat. Every safety property that a run
checks is stated by a theorem; what `ArithmeticIsRight` asks of a window of times,
`CatchUpFindsLatest`, `NextFindsFirst` and `DueIsPaidOnce` say of all.

## What is not modelled

Within the modelled components: the delivery of reactions, typing status and
deletion of an owner from the host's tables (turns); idempotency receipts, the
history, migrations and the matching of calendar fields (cron). A cron lane's
turn in `TelegramTurns` and its run in `CronScheduler` are two views of one thing
that are not composed: the executor's outcome is a free choice in
`CronScheduler`, so that a death between `complete_generation` and `complete_run`
is outside of both. `PersonalData` and `TelegramTurns` are not composed either:
there the host is the sequence of its generations and the fact that only the
newest one is shown or completed.

Of the router: the eviction from `_deleted_sessions` at 1024 names; automation and
peer turns, which take the same lock and the same steps; more than one owner. Of
the control updates: the creation and revocation of links, the owner lock of
`deliver_telegram` (it is `RouterWork`'s), `ensure_worker`, which is not called
again after a retry of `/start`. Of the engine: tools that need an approval or are
blocked, controls of the memory in the stream, the reasons for a failure, text. Of
the personal data: search, import, export, migrations.

The typing lease has no module: its thread repeats a pulse that Telegram takes
back by itself. A heartbeat that ends while paused is not started again by resume,
so that one pulse is all that follows; nothing else depends on it.

Of the peer exchange: handles and lookups, the hourly quotas of invitations and
requests, archives, export and import, the audit log, and the pruning of rows
that are over for thirty days. A lifetime is counted from a moment before its row
is written in the code, from the row in the model. That no notice is shown after
a revocation is not promised by the code once sending has begun.

Not modelled: formats, signatures, prompts, HTTP clients, wiring, the dashboard
(pure I/O or text).

## Plan

In the order of how much depends on it:

1. Turn pipeline with its ledger, cron, peer exchange: modelled, checked, and
   their safety proved.
2. Personal data with the two-slot checkpoint and the supervisor; the router's
   cancellation queue with the sandbox's sessions; the conversation engine with
   the host's reader; control updates with the host's credentials: modelled and
   checked, and their safety proved.
3. Composition of cron with the turn pipeline: a death between
   `complete_generation` and `complete_run`.
4. Deletion of an owner from the host's tables, and the reaction rows, in
   `TelegramTurns`.
