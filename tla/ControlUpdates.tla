--------------------------- MODULE ControlUpdates ---------------------------
(* The updates that are no turns: a /start with the token of an installation  *)
(* link, the answer to a peer confirmation, and text that is run at once      *)
(* (deliver_telegram) because the chat was unknown when it came or because it *)
(* is a command. Workers take them one at a time per chat and in order; each  *)
(* is tried a few times, and taken up again after a death of the process. A   *)
(* worker comes to them only when it finds no turn due: the turns themselves  *)
(* are TelegramTurns, and here they may keep a worker for ever.               *)
EXTENDS HostedAuth

CONSTANTS
  Updates,      \* numbered in the order of their arrival
  ChatOf,       \* the chat of each
  KindOf,       \* "start", "confirm" or "text"; all starts carry the same link
  MaxAttempts,  \* max_attempts
  MaxCrashes,   \* bound: deaths of the process
  NoUpdate

ASSUME ControlAssumption ==
  MaxAttempts \in Nat \ {0} /\ Updates \subseteq Nat /\ NoUpdate \notin Updates

VARIABLES
  inbox,      \* telegram_inbox: [status, attempts, due]
  link,       \* the installation token: "open", "consumed" or "expired"
  bound,      \* chats with an installation
  confirmed,  \* the peer request was decided
  worker,     \* [at, update, force]; force: the token is to be refreshed
  crashes

controlVars == <<inbox, link, bound, confirmed, worker, crashes>>
vars == <<controlVars, authVars>>

Workers == Callers
Idle == [at |-> "idle", update |-> NoUpdate, force |-> FALSE]

At(w, at) == worker[w].at = at
Goto(w, at) == worker' = [worker EXCEPT ![w].at = at]
Kind(w) == KindOf[worker[w].update]
Chat(w) == ChatOf[worker[w].update]

Row(status, attempts, due) == [status |-> status, attempts |-> attempts, due |-> due]

-----------------------------------------------------------------------------
\* enqueue_update
Receive(u) ==
  /\ inbox[u].status = "new" /\ \A v \in Updates : v < u => inbox[v].status # "new"
  /\ inbox' = [inbox EXCEPT ![u] = Row("pending", 0, TRUE)]
  /\ UNCHANGED <<link, bound, confirmed, worker, crashes, authVars>>

-----------------------------------------------------------------------------
\* process_next: claim_next_work has nothing for the worker, which may never be so.
FindNoTurn(w) ==
  /\ At(w, "idle") /\ Goto(w, "controls")
  /\ UNCHANGED <<inbox, link, bound, confirmed, crashes, authVars>>

\* Mutant: one at a time per chat, whichever is due.
OneAtATime(u) == \A v \in Updates : ChatOf[v] = ChatOf[u] => inbox[v].status # "processing"

\* An update waits for those of its chat that came before it.
InTurn(u) ==
  /\ \A v \in Updates : ChatOf[v] = ChatOf[u] => inbox[v].status # "processing"
  /\ \A v \in Updates : ChatOf[v] = ChatOf[u] /\ v < u => inbox[v].status \in {"new", "completed"}

Claimable(u) == inbox[u].status = "pending" /\ inbox[u].due /\ InTurn(u)

\* claim_next_update
ClaimUpdate(w, u) ==
  /\ At(w, "controls") /\ Claimable(u)
  /\ inbox' = [inbox EXCEPT ![u] = Row("processing", @.attempts + 1, FALSE)]
  /\ worker' = [worker EXCEPT ![w] = [Idle EXCEPT !.at = "handle", !.update = u]]
  /\ UNCHANGED <<link, bound, confirmed, crashes, authVars>>

FindNoUpdate(w) ==
  /\ At(w, "controls") /\ Goto(w, "idle") /\ \A u \in Updates : ~Claimable(u)
  /\ UNCHANGED <<inbox, link, bound, confirmed, crashes, authVars>>

\* complete_update and retry_update
Done(w) ==
  /\ inbox' = [inbox EXCEPT ![worker[w].update].status = "completed"]
  /\ worker' = [worker EXCEPT ![w] = Idle]

\* _retry_or_complete, after any exception.
RetryOrComplete(w) ==
  /\ worker' = [worker EXCEPT ![w] = Idle]
  /\ LET u == worker[w].update
     IN  inbox' = [inbox EXCEPT ![u] =
           Row(IF @.attempts >= MaxAttempts THEN "completed" ELSE "pending", @.attempts, FALSE)]

\* available_at is reached.
BecomesDue(u) ==
  /\ inbox[u].status = "pending" /\ ~inbox[u].due
  /\ inbox' = [inbox EXCEPT ![u].due = TRUE]
  /\ UNCHANGED <<link, bound, confirmed, worker, crashes, authVars>>

-----------------------------------------------------------------------------
\* A message to the chat, and then the next step, or an exception.
Say(w, done) ==
  /\ UNCHANGED <<bootstrap, file, fingerprint, issued, spoilt, holder, auth>>
  /\ \/ done /\ UNCHANGED failures
     \/ Failure /\ RetryOrComplete(w)

\* process_update: a link is read before it is consumed; whoever has no
\* installation is told so; text is typed for and run.
Handle(w) ==
  /\ At(w, "handle")
  /\ \/ /\ Kind(w) = "start" /\ Goto(w, IF link = "open" THEN "bind" ELSE "answer")
        /\ UNCHANGED <<inbox, confirmed, authVars>>
     \/ /\ Kind(w) # "start" /\ Chat(w) \notin bound /\ Goto(w, "answer")
        /\ UNCHANGED <<inbox, confirmed, authVars>>
     \/ /\ Kind(w) = "confirm" /\ Chat(w) \in bound /\ confirmed' = TRUE /\ Goto(w, "answer")
        /\ UNCHANGED <<inbox, authVars>>
     \/ /\ Kind(w) = "text" /\ Chat(w) \in bound /\ UNCHANGED confirmed
        /\ Say(w, Goto(w, "token") /\ UNCHANGED inbox)
  /\ UNCHANGED <<link, bound, crashes>>

\* The second half of consume_start_token does not look at the link again: two
\* chats that read it together are both bound by it.
Bind(w) ==
  /\ At(w, "bind") /\ link' = "consumed" /\ bound' = bound \cup {Chat(w)} /\ Goto(w, "greet")
  /\ UNCHANGED <<inbox, confirmed, crashes, authVars>>

Greet(w) ==
  /\ At(w, "greet") /\ Say(w, Goto(w, "set up") /\ UNCHANGED inbox)
  /\ UNCHANGED <<link, bound, confirmed, crashes>>

\* ensure_worker: whether it succeeds only changes what is said.
SetUp(w) ==
  /\ At(w, "set up") /\ Goto(w, "answer")
  /\ UNCHANGED <<inbox, link, bound, confirmed, crashes, authVars>>

\* _execute: the access token, a refreshed one after the first was refused.
TakeLock(w) ==
  /\ At(w, "token") /\ LockAuth(w) /\ Goto(w, "locked")
  /\ UNCHANGED <<inbox, link, bound, confirmed, crashes>>

GetToken(w) ==
  /\ At(w, "locked") /\ holder = w
  /\ \/ Adopt /\ UNCHANGED worker
     \/ Refresh /\ (~file.fresh \/ worker[w].force) /\ UNCHANGED worker
     \/ RefreshFails /\ (~file.fresh \/ worker[w].force) /\ Goto(w, "apologise")
     \/ NoRefresh /\ ~worker[w].force /\ Goto(w, "execute")
     \/ Save /\ Goto(w, "execute")
  /\ UNCHANGED <<inbox, link, bound, confirmed, crashes>>

\* deliver_telegram tries once more, with a token that was refreshed.
TryAgain(w) ==
  /\ ~file.fresh /\ ~worker[w].force
  /\ worker' = [worker EXCEPT ![w].at = "token", ![w].force = TRUE]

\* The command in the sandbox: an answer, a token that has expired, or any other
\* failure; the second expired token is a failure too.
Execute(w) ==
  /\ At(w, "execute")
  /\ UNCHANGED <<bootstrap, file, fingerprint, issued, spoilt, holder, auth>>
  /\ \/ Goto(w, "answer") /\ UNCHANGED failures
     \/ TryAgain(w) /\ UNCHANGED failures
     \/ Failure /\ Goto(w, "apologise")
  /\ UNCHANGED <<inbox, link, bound, confirmed, crashes>>

\* The owner is told that there was trouble, and the update is retried.
Apologise(w) ==
  /\ At(w, "apologise") /\ Say(w, RetryOrComplete(w))
  /\ UNCHANGED <<link, bound, confirmed, crashes>>

Answer(w) ==
  /\ At(w, "answer") /\ Say(w, Done(w))
  /\ UNCHANGED <<link, bound, confirmed, crashes>>

\* A claim of a turn or an update, complete_update or retry_update raises, and nothing
\* catches that: the thread ends, no other is started, and what it had in hand stays
\* so till the next start of the process.
Dies(w) ==
  /\ worker[w].at \in {"idle", "controls", "handle", "greet", "apologise", "answer"}
  /\ Failure /\ worker' = [worker EXCEPT ![w].at = "dead", ![w].force = FALSE]
  /\ UNCHANGED <<inbox, link, bound, confirmed, crashes>>
  /\ UNCHANGED <<bootstrap, file, fingerprint, issued, spoilt, holder, auth>>

-----------------------------------------------------------------------------
LinkExpires ==
  /\ link = "open" /\ link' = "expired"
  /\ UNCHANGED <<inbox, bound, confirmed, worker, crashes, authVars>>

\* What was a fresh access token is one no longer.
TokenExpires == Expire /\ UNCHANGED controlVars

\* Mutant: what was in hand stays there.
StaysInHand(row) == row

\* reset_interrupted_updates
Reset(row) == IF row.status = "processing" THEN Row("pending", row.attempts, TRUE) ELSE row

\* The process dies, and what it had in hand is made due.
Crash ==
  /\ crashes < MaxCrashes /\ crashes' = crashes + 1
  /\ inbox' = [u \in Updates |-> Reset(inbox[u])]
  /\ worker' = [w \in Workers |-> Idle]
  /\ AuthCrash /\ UNCHANGED <<link, bound, confirmed>>

Init ==
  /\ inbox = [u \in Updates |-> Row("new", 0, FALSE)] /\ link = "open" /\ bound = {}
  /\ confirmed = FALSE /\ worker = [w \in Workers |-> Idle] /\ crashes = 0
  /\ AuthInit

WorkerStep(w) ==
  \/ (\E u \in Updates : ClaimUpdate(w, u)) \/ FindNoUpdate(w)
  \/ Handle(w) \/ Bind(w) \/ Greet(w) \/ SetUp(w) \/ TakeLock(w) \/ GetToken(w)
  \/ Execute(w) \/ Apologise(w) \/ Answer(w)

Next ==
  \/ \E u \in Updates : Receive(u) \/ BecomesDue(u)
  \/ \E w \in Workers : WorkerStep(w) \/ FindNoTurn(w) \/ Dies(w)
  \/ LinkExpires \/ TokenExpires \/ Crash

\* The workers run as long as they live, and time passes; that they find no turn due
\* is not promised, nor is anything else.
Fairness ==
  /\ \A u \in Updates : WF_vars(BecomesDue(u))
  /\ \A w \in Workers : WF_vars(WorkerStep(w))

Spec == Init /\ [][Next]_vars /\ Fairness

-----------------------------------------------------------------------------
\* An update is started only when all that came before it in its chat are over,
\* whatever is retried, backs off or is taken up again after a death.
ControlsInOrder ==
  \A u, v \in Updates :
    ChatOf[u] = ChatOf[v] /\ u < v /\ inbox[v].attempts > 0 => inbox[u].status = "completed"

\* The host stays in possession of its credentials: what it uses is of the
\* deployment's bootstrap, and what it keeps is what the service honours, unless
\* an answer of the service was lost on the way or with the process.
CredentialsAreKept ==
  /\ auth \in {"ready", "refreshed"} => file.family = bootstrap
  /\ file.family # 0 /\ auth # "refreshed" =>
       file.number = issued[file.family] \/ file.family \in spoilt

\* An update of its chat is in the hands of a worker that is no more.
Blocked(u) ==
  \E w \in Workers : At(w, "dead") /\ worker[w].update # NoUpdate /\ Chat(w) = ChatOf[u]

\* Every update is answered or given up, however often it fails: none that has come
\* waits or is in hand for ever, if the turns leave a worker to the updates again
\* and again, unless an exception of the store ended the worker that had one of the
\* chat in hand and the process was not started again.
ControlsSettle ==
  []<>(\E w \in Workers : worker[w].at \notin {"idle", "dead"})
    => \A u \in Updates : []<>(inbox[u].status \in {"new", "completed"}) \/ <>[]Blocked(u)

=============================================================================
