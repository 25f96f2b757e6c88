---------------------------- MODULE PeerExchange ----------------------------
(***************************************************************************)
(* The exchange between the assistants of two owners: the SQLite tables of *)
(* PeerStore (peer_store.py), the calls of the two assistants and their    *)
(* owners through PeerExchange (peer_exchange.py), the decisions of        *)
(* PeerPolicy (peer_policy.py) and the workers of PeerService              *)
(* (peer_service.py) that announce and answer requests.                    *)
(*                                                                         *)
(* A store method is one "begin immediate" transaction and one step; a     *)
(* caller or a worker that makes several of them has a pc between them.    *)
(* Relationships share nothing but the workers' attention, so there is one *)
(* here. Time is abstract: a thread, a grant, a confirmation or a lease    *)
(* has lapsed or not, a backoff is over ("ready") or not. A lease token is *)
(* the worker that claimed the row last.                                   *)
(***************************************************************************)
EXTENDS Naturals

CONSTANTS
  Owners,             \* the two owners
  Calls,              \* tool calls that ask the other owner's assistant
  SenderOf,           \* the owner whose assistant makes a call
  SourceOf,           \* the Telegram generation that makes it
  KindOf,             \* what the call asks for
  Threads,            \* thread ids
  OffersOf,           \* what each owner may grant
  Callers,            \* threads of the HTTP API and of the Telegram commands
  Workers,            \* threads of PeerService
  MaxAttempts,        \* claims of a request, three in the code
  MaxThreadRequests,  \* MAX_THREAD_REQUESTS
  MaxRequests,        \* bound: rows of peer_requests
  MaxEvents           \* bound: updates and lapses of grants, supersessions, purges, deletions
                      \* of owners, workers that find no installation, deaths of workers

Requests == 1..MaxRequests
Sources  == {SourceOf[k] : k \in Calls}
NoRequest == 0
Nobody    == "nobody"

\* An ordinary message; a question about availability, which a grant can
\* allow; and what always needs a confirmation: sensitive questions and
\* proposals of a commitment.
Kinds == {"ordinary", "availability", "sensitive"}

Offer == [communicate : BOOLEAN, autoReply : BOOLEAN, share : BOOLEAN]

ASSUME PeerAssumption ==
  /\ \E o, p \in Owners : o # p /\ Owners = {o, p}
  /\ SenderOf \in [Calls -> Owners]
  /\ DOMAIN SourceOf = Calls
  /\ KindOf \in [Calls -> Kinds]
  /\ OffersOf \in [Owners -> SUBSET Offer]
  /\ Nobody \notin Workers
  /\ {MaxAttempts, MaxThreadRequests} \subseteq Nat \ {0}
  /\ {MaxRequests, MaxEvents} \subseteq Nat
  /\ Calls # {} /\ Threads # {}

Other(o) == CHOOSE p \in Owners : p # o

VARIABLES
  relationship,   \* the row of peer_relationships
  grants,         \* peer_grants, by grantor
  threads,        \* peer_threads
  requests,       \* peer_requests, in the order of their creation
  made,           \* rows of peer_requests so far
  confirmations,  \* peer_confirmations, by request
  notices,        \* peer_confirmation_notices, by request
  responses,      \* peer_responses, by request
  deleted,        \* peer_deleted_owners
  marks,          \* history watermarks: up to which request an owner has purged
  superseded,     \* generations that a new message has superseded
  callers,        \* what each caller is doing
  workers,        \* what each worker is doing
  events,         \* the bounded events so far
  shown           \* history: how often the notice of a request was shown

tables == <<relationship, grants, threads, requests, made, confirmations, notices, responses, deleted, marks>>
vars   == <<tables, superseded, callers, workers, events, shown>>

-----------------------------------------------------------------------------
(* Rows *)

\* A blocked relationship is one that was revoked by name only. Who invited
\* matters until the other accepts.
RelationshipRow == [status   : {"none", "pending", "active", "revoked"},
                    inviter  : Owners \cup {Nobody},
                    revision : Nat]

\* Revision 0: there is no row.
GrantRow == [revision : Nat, offer : Offer, lapsed : BOOLEAN]

\* Count 0: there is no row.
ThreadRow == [sender : Owners \cup {Nobody}, lapsed : BOOLEAN, count : Nat]

OpenRequest == {"pending", "authorized", "leased", "confirmation_pending"}
OverRequest == {"completed", "failed", "denied"}

\* A row that was purged is "gone".
RequestRow == [status   : {"none", "gone"} \cup OpenRequest \cup OverRequest,
               call     : Calls,
               thread   : Threads,
               sequence : Nat,
               attempts : Nat,
               ready    : BOOLEAN,
               lapsed   : BOOLEAN,
               holder   : Workers \cup {Nobody},
               deadline : {"none", "running", "passed"}]

\* The revisions are those of the relationship and of the grants when the row
\* was made.
ConfirmationRow == [status   : {"none", "pending", "confirmed", "cancelled", "expired"},
                    lapsed   : BOOLEAN,
                    revision : Nat,
                    granted  : [Owners -> Nat]]

NoticeRow == [status : {"none", "pending", "leased", "attempting", "sent", "unknown", "suppressed"},
              ready  : BOOLEAN,
              lapsed : BOOLEAN,
              holder : Workers \cup {Nobody}]

\* A caller between calls; with a decision about a new request, or with a row
\* it made or found; with an answer to a confirmation, or one to cancel.
Caller == [pc      : {"idle", "decided", "stored", "approving", "refusing"},
           call    : Calls,
           thread  : Threads,
           confirm : BOOLEAN,
           request : Requests \cup {NoRequest}]

\* A worker between rounds; with a notice, before, in and after its sending;
\* about to claim a request; with a request claimed, one that the policy does
\* not allow, one to be executed, one that its sandbox answers, and one to be
\* finished, put off or failed.
Worker == [pc       : {"idle", "noticed", "notify", "attempting", "shown", "claim", "claimed",
                       "refused", "checked", "executing", "completing", "failing", "deferring"},
           request  : Requests \cup {NoRequest},
           revision : Nat,
           granted  : [Owners -> Nat]]

AnyCall   == CHOOSE k \in Calls : TRUE
AnyThread == CHOOSE t \in Threads : TRUE

NoRow == [status |-> "none", call |-> AnyCall, thread |-> AnyThread, sequence |-> 0,
          attempts |-> 0, ready |-> FALSE, lapsed |-> FALSE, holder |-> Nobody,
          deadline |-> "none"]
Ungranted      == [o \in Owners |-> 0]
NoConfirmation == [status |-> "none", lapsed |-> FALSE, revision |-> 0, granted |-> Ungranted]
NoNotice       == [status |-> "none", ready |-> FALSE, lapsed |-> FALSE, holder |-> Nobody]
NoGrant        == [revision |-> 0, lapsed |-> FALSE,
                   offer |-> [communicate |-> FALSE, autoReply |-> FALSE, share |-> FALSE]]
IdleCaller     == [pc |-> "idle", call |-> AnyCall, thread |-> AnyThread, confirm |-> FALSE,
                   request |-> NoRequest]
IdleWorker     == [pc |-> "idle", request |-> NoRequest, revision |-> 0, granted |-> Ungranted]

-----------------------------------------------------------------------------
(* Policy *)

Active == relationship.status = "active"

Granted == [o \in Owners |-> grants[o].revision]

\* What a call needs of the grants, whatever it asks for.
Permitted(k) ==
  LET sender == grants[SenderOf[k]]
      target == grants[Other(SenderOf[k])]
  IN /\ Active
     /\ ~sender.lapsed /\ ~target.lapsed
     /\ sender.offer.communicate
     /\ target.offer.autoReply

\* A question that no standing grant of its target covers.
NeedsConfirmation(k) ==
  \/ KindOf[k] = "sensitive"
  \/ KindOf[k] = "availability" /\ ~grants[Other(SenderOf[k])].offer.share

\* PeerPolicy.decide of a row: a confirmed request is authorized, and whoever
\* holds a lease passed this decision when it got it.
Allows(k, status) ==
  Permitted(k) /\ (status \in {"authorized", "leased"} \/ ~NeedsConfirmation(k))

\* One of the bounded events.
Happens == events < MaxEvents /\ events' = events + 1

Superseded(r) == SourceOf[requests[r].call] \in superseded

-----------------------------------------------------------------------------
Init ==
  /\ relationship = [status |-> "none", inviter |-> Nobody, revision |-> 0]
  /\ grants = [o \in Owners |-> NoGrant]
  /\ threads = [t \in Threads |-> [sender |-> Nobody, lapsed |-> FALSE, count |-> 0]]
  /\ requests = [r \in Requests |-> NoRow]
  /\ made = 0
  /\ confirmations = [r \in Requests |-> NoConfirmation]
  /\ notices = [r \in Requests |-> NoNotice]
  /\ responses = [r \in Requests |-> "none"]
  /\ deleted = {}
  /\ marks = [o \in Owners |-> 0]
  /\ superseded = {}
  /\ callers = [c \in Callers |-> IdleCaller]
  /\ workers = [w \in Workers |-> IdleWorker]
  /\ events = 0
  /\ shown = [r \in Requests |-> 0]

-----------------------------------------------------------------------------
(* What the owners do, through the dashboard *)

quiet == <<superseded, callers, workers, shown>>

Invite(o) ==
  /\ relationship.status = "none"
  /\ deleted = {}
  /\ relationship' = [status |-> "pending", inviter |-> o, revision |-> 1]
  /\ UNCHANGED <<grants, threads, requests, made, confirmations, notices, responses, deleted, marks,
                 quiet, events>>

Accept(o) ==
  /\ relationship.status = "pending"
  /\ relationship.inviter # o
  /\ relationship' = [relationship EXCEPT !.status = "active", !.inviter = Nobody,
                                           !.revision = @ + 1]
  /\ UNCHANGED <<grants, threads, requests, made, confirmations, notices, responses, deleted, marks,
                 quiet, events>>

UpdateGrant(o, offer) ==
  /\ Active
  /\ Happens
  /\ grants' = [grants EXCEPT ![o] = [revision |-> grants[o].revision + 1, offer |-> offer,
                                      lapsed |-> FALSE]]
  /\ UNCHANGED <<relationship, threads, requests, made, confirmations, notices, responses, deleted,
                 marks, quiet>>

\* A row that nobody holds a lease of.
Released(row, status) ==
  [row EXCEPT !.status = status, !.holder = Nobody, !.lapsed = FALSE]

\* Of a row that is over nothing but its status is looked at, and of a request
\* the place it has in its thread.
Over(row, status) ==
  [NoRow EXCEPT !.status = status, !.call = row.call, !.thread = row.thread,
                !.sequence = row.sequence]

ConfirmationOver(status) == [NoConfirmation EXCEPT !.status = status]

NoticeOver(status) == [NoNotice EXCEPT !.status = status]

\* What becomes of a request when the relationship ends.
Denied(row) ==
  IF row.status \in OpenRequest THEN Over(row, "denied") ELSE row

Suppressed(row) == NoticeOver("suppressed")

\* Mutant: only notices that no worker has yet are withdrawn.
SuppressedIfPending(row) == IF row.status = "pending" THEN Suppressed(row) ELSE row

\* What becomes of a notice that nobody has begun to send.
Withdrawn(row) == IF row.status \in {"pending", "leased"} THEN Suppressed(row) ELSE row

Ended == [relationship EXCEPT !.status = "revoked", !.inviter = Nobody,
                                   !.revision = @ + 1]

\* revoke, and block. The confirmations keep their status.
Revoke(o) ==
  /\ relationship.status \in {"pending", "active"}
  /\ relationship' = Ended
  /\ requests' = [r \in Requests |-> Denied(requests[r])]
  /\ notices' = [r \in Requests |-> Withdrawn(notices[r])]
  /\ UNCHANGED <<grants, threads, made, confirmations, responses, deleted, marks, quiet, events>>

\* delete_owner withdraws every notice, whatever became of it.
DeleteOwner(o) ==
  /\ o \notin deleted
  /\ Happens
  /\ deleted' = deleted \cup {o}
  /\ IF relationship.status = "none"
     THEN UNCHANGED <<relationship, requests, notices, grants, marks>>
     ELSE /\ relationship' = IF relationship.status = "revoked" THEN relationship ELSE Ended
          /\ requests' = [r \in Requests |-> Denied(requests[r])]
          /\ notices' = [r \in Requests |-> IF notices[r].status = "none" THEN notices[r]
                                            ELSE Suppressed(notices[r])]
          /\ grants' = [p \in Owners |-> NoGrant]
          /\ marks' = [marks EXCEPT ![o] = made]
  /\ UNCHANGED <<threads, made, confirmations, responses, quiet>>

\* purge_history: what both owners have purged is removed, with all that
\* refers to it and whatever its state.
Purge(o) ==
  /\ relationship.status # "none"
  /\ marks[o] < made
  /\ Happens
  /\ marks' = [marks EXCEPT ![o] = made]
  /\ \E cutoff \in {0} \cup Requests :
       /\ cutoff = (IF marks[Other(o)] < made THEN marks[Other(o)] ELSE made)
       /\ LET Keeps(old, new) == [r \in Requests |-> IF r <= cutoff THEN new ELSE old[r]] IN
          /\ requests' = Keeps(requests, [NoRow EXCEPT !.status = "gone"])
          /\ confirmations' = Keeps(confirmations, NoConfirmation)
          /\ notices' = Keeps(notices, NoNotice)
          /\ responses' = Keeps(responses, "none")
  /\ UNCHANGED <<relationship, grants, threads, made, deleted, quiet>>

-----------------------------------------------------------------------------
(* Asking *)

\* PeerExchange.submit, up to the policy's decision, which is of the tables as
\* they are now: a generation that is still good, a call without a row.
Live == {r \in Requests : requests[r].status \notin {"none", "gone"}}

RowOf(k) == {r \in Live : requests[r].call = k}

Ask(c, k, t) ==
  /\ callers[c].pc = "idle"
  /\ SourceOf[k] \notin superseded
  /\ \/ /\ RowOf(k) = {}
        /\ Permitted(k)
        /\ callers' = [callers EXCEPT ![c] = [IdleCaller EXCEPT !.pc = "decided", !.call = k,
                         !.thread = t, !.confirm = NeedsConfirmation(k)]]
     \/ \E r \in RowOf(k) :
          callers' = [callers EXCEPT ![c] = [IdleCaller EXCEPT !.pc = "stored", !.request = r]]
  /\ UNCHANGED <<tables, superseded, workers, events, shown>>

\* PeerStore.submit raises: another owner's thread, one that has lapsed or is
\* full.
ThreadRefuses(t, o) ==
  /\ threads[t].count > 0
  /\ threads[t].sender # o \/ threads[t].lapsed \/ threads[t].count >= MaxThreadRequests

\* The row of a new request, with the confirmation it needs and its notice.
StoreRequest(c) ==
  LET k == callers[c].call
      t == callers[c].thread
      r == made + 1
  IN
  /\ made < MaxRequests
  /\ RowOf(k) = {}
  /\ ~ThreadRefuses(t, SenderOf[k])
  /\ made' = r
  /\ threads' = [threads EXCEPT ![t] = [threads[t] EXCEPT !.sender = SenderOf[k],
                                                          !.count = threads[t].count + 1]]
  /\ requests' = [requests EXCEPT ![r] =
                    [NoRow EXCEPT !.status = IF callers[c].confirm THEN "confirmation_pending"
                                             ELSE "pending",
                                  !.call = k, !.thread = t, !.sequence = threads[t].count + 1,
                                  !.ready = TRUE]]
  /\ IF callers[c].confirm
     THEN /\ confirmations' = [confirmations EXCEPT ![r] =
                                 [status |-> "pending", lapsed |-> FALSE,
                                  revision |-> relationship.revision, granted |-> Granted]]
          /\ notices' = [notices EXCEPT ![r] = [NoNotice EXCEPT !.status = "pending",
                                                                !.ready = TRUE]]
     ELSE UNCHANGED <<confirmations, notices>>
  /\ callers' = [callers EXCEPT ![c] = [IdleCaller EXCEPT !.pc = "stored", !.request = r]]

\* PeerStore.submit looks for the call's row once more, and knows nothing of
\* what the owners have done since the decision.
Submit(c) ==
  /\ callers[c].pc = "decided"
  /\ \/ StoreRequest(c)
     \/ \E r \in RowOf(callers[c].call) :
          /\ callers' = [callers EXCEPT ![c] = [IdleCaller EXCEPT !.pc = "stored", !.request = r]]
          /\ UNCHANGED <<threads, requests, made, confirmations, notices>>
     \/ /\ RowOf(callers[c].call) = {}
        /\ made = MaxRequests \/ ThreadRefuses(callers[c].thread, SenderOf[callers[c].call])
        /\ callers' = [callers EXCEPT ![c] = IdleCaller]
        /\ UNCHANGED <<threads, requests, made, confirmations, notices>>
  /\ UNCHANGED <<relationship, grants, responses, deleted, marks, superseded, workers, events, shown>>

\* A confirmation that is not wanted any more: its notice is withdrawn even
\* while it is being sent.
Retracted(row) ==
  IF row.status \in {"pending", "leased", "attempting"} THEN Suppressed(row) ELSE row

\* The row is made: if the generation has been superseded meanwhile,
\* deny_superseded_request.
CheckSource(c) ==
  LET r == callers[c].request IN
  /\ callers[c].pc = "stored"
  /\ callers' = [callers EXCEPT ![c] = IdleCaller]
  /\ IF r \in Live /\ Superseded(r)
     THEN /\ requests' = [requests EXCEPT ![r] = Denied(requests[r])]
          /\ IF confirmations[r].status = "pending"
             THEN /\ confirmations' = [confirmations EXCEPT ![r] = ConfirmationOver("cancelled")]
                  /\ notices' = [notices EXCEPT ![r] = Retracted(notices[r])]
             ELSE UNCHANGED <<confirmations, notices>>
     ELSE UNCHANGED <<requests, confirmations, notices>>
  /\ UNCHANGED <<relationship, grants, threads, made, responses, deleted, marks, superseded, workers,
                 events, shown>>

-----------------------------------------------------------------------------
(* Confirming *)

\* Mutant: the confirmation is cancelled and its request left waiting.
RequestKept(r) == requests[r]

\* The request of a confirmation that cancel_superseded_confirmation cancels.
Unconfirmed(r) ==
  IF requests[r].status = "confirmation_pending" THEN Over(requests[r], "denied")
  ELSE requests[r]

CancelSuperseded(r) ==
  IF confirmations[r].status = "pending"
  THEN /\ confirmations' = [confirmations EXCEPT ![r] = ConfirmationOver("cancelled")]
       /\ notices' = [notices EXCEPT ![r] = Retracted(notices[r])]
       /\ requests' = [requests EXCEPT ![r] = Unconfirmed(r)]
  ELSE UNCHANGED <<confirmations, notices, requests>>

\* PeerExchange.decide_confirmation looks at the generation that asked; what
\* is superseded is cancelled. (Nothing makes it good again, so the look and
\* the cancelling are one step.)
Answer(c, r, approve) ==
  /\ callers[c].pc = "idle"
  /\ confirmations[r].status # "none"
  /\ IF Superseded(r)
     THEN CancelSuperseded(r) /\ UNCHANGED callers
     ELSE /\ callers' = [callers EXCEPT ![c] =
                           [IdleCaller EXCEPT !.request = r,
                                              !.pc = IF approve THEN "approving" ELSE "refusing"]]
          /\ UNCHANGED <<confirmations, notices, requests>>
  /\ UNCHANGED <<relationship, grants, threads, made, responses, deleted, marks, superseded, workers,
                 events, shown>>

\* Mutant: the confirmation is for whatever the owners have made of it since.
AlwaysValid(r) == TRUE

\* Nothing has changed since the question was put, and the answer allows it.
StillValid(r) ==
  /\ Active
  /\ relationship.revision = confirmations[r].revision
  /\ Granted = confirmations[r].granted
  /\ Allows(requests[r].call, "authorized")

Decided(r, outcome) ==
  /\ confirmations' = [confirmations EXCEPT ![r] = ConfirmationOver(outcome)]
  /\ notices' = [notices EXCEPT ![r] = Withdrawn(notices[r])]
  /\ requests' = [requests EXCEPT ![r] =
                     IF outcome = "confirmed" THEN [requests[r] EXCEPT !.status = "authorized"]
                     ELSE Over(requests[r], "denied")]

\* PeerStore.decide_confirmation.
DecideConfirmation(c) ==
  LET r == callers[c].request IN
  /\ callers[c].pc \in {"approving", "refusing"}
  /\ callers' = [callers EXCEPT ![c] = IdleCaller]
  /\ \/ /\ confirmations[r].status # "pending"
        /\ UNCHANGED <<confirmations, notices, requests>>
     \/ /\ confirmations[r].status = "pending"
        /\ \/ confirmations[r].lapsed /\ Decided(r, "expired")
           \/ /\ ~confirmations[r].lapsed
              /\ callers[c].pc = "approving" /\ StillValid(r)
              /\ Decided(r, "confirmed")
           \/ /\ ~confirmations[r].lapsed
              /\ ~(callers[c].pc = "approving" /\ StillValid(r))
              /\ Decided(r, "cancelled")
  /\ UNCHANGED <<relationship, grants, threads, made, responses, deleted, marks, superseded, workers,
                 events, shown>>

-----------------------------------------------------------------------------
(* Workers: the notices *)

\* Mutant: a notice whose sending was cut short is sent again.
SweptToPending(row) ==
  IF row.status \in {"leased", "attempting"} /\ row.lapsed
  THEN Released(row, "pending") ELSE row

\* What claim_notice makes of leases that have lapsed.
SweptNotice(row) ==
  CASE row.status = "attempting" /\ row.lapsed -> NoticeOver("unknown")
    [] row.status = "leased" /\ row.lapsed     -> Released(row, "pending")
    [] OTHER                                   -> row

\* The question is still open.
Wanted(r) == confirmations[r].status = "pending" /\ ~confirmations[r].lapsed /\ Active

\* claim_notice: the oldest notice that is due and still wanted; those before
\* it that are not are withdrawn.
ClaimNotice(w) ==
  LET swept == [r \in Requests |-> SweptNotice(notices[r])]
      due == {r \in Requests : swept[r].status = "pending" /\ swept[r].ready}
      Passed(r) == IF r \in due THEN Suppressed(swept[r]) ELSE swept[r]
  IN
  /\ workers[w].pc = "idle"
  /\ \/ \E r \in due :
          /\ Wanted(r)
          /\ \A q \in due : Wanted(q) => r <= q
          /\ notices' = [q \in Requests |->
                           IF q = r
                           THEN [swept[r] EXCEPT !.status = "leased", !.lapsed = FALSE, !.holder = w]
                           ELSE IF q < r THEN Passed(q) ELSE swept[q]]
          /\ workers' = [workers EXCEPT ![w] = [IdleWorker EXCEPT !.pc = "noticed", !.request = r]]
     \/ /\ \A r \in due : ~Wanted(r)
        /\ notices' = [q \in Requests |-> Passed(q)]
        /\ workers' = [workers EXCEPT ![w] = [IdleWorker EXCEPT !.pc = "claim"]]
  /\ UNCHANGED <<relationship, grants, threads, requests, made, confirmations, responses, deleted,
                 marks, superseded, callers, events, shown>>

HoldsNotice(w, status) ==
  LET row == notices[workers[w].request] IN
  row.status = status /\ row.holder = w /\ ~row.lapsed

Gone(r) == confirmations[r].status = "none"

\* PeerExchange.claim_notice looks at the generation that asked.
CheckNotice(w) ==
  LET r == workers[w].request IN
  /\ workers[w].pc = "noticed"
  /\ IF Gone(r) \/ Superseded(r)
     THEN /\ CancelSuperseded(r)
          /\ workers' = [workers EXCEPT ![w] = [IdleWorker EXCEPT !.pc = "claim"]]
     ELSE /\ workers' = [workers EXCEPT ![w].pc = "notify"]
          /\ UNCHANGED <<confirmations, notices, requests>>
  /\ UNCHANGED <<relationship, grants, threads, made, responses, deleted, marks, superseded, callers,
                 events, shown>>

\* The owner has no chat: the notice is put off.
NoticeUnaddressed(w) ==
  LET r == workers[w].request IN
  /\ workers[w].pc = "notify"
  /\ Happens
  /\ notices' = IF HoldsNotice(w, "leased")
                THEN [notices EXCEPT ![r] = [Released(notices[r], "pending") EXCEPT !.ready = FALSE]]
                ELSE notices
  /\ workers' = [workers EXCEPT ![w] = IdleWorker]
  /\ UNCHANGED <<relationship, grants, threads, requests, made, confirmations, responses, deleted,
                 marks, superseded, callers, shown>>

\* Under the generation guard, which keeps the generation from being
\* superseded until the worker is done: begin_notice_attempt.
BeginNotice(w) ==
  LET r == workers[w].request IN
  /\ workers[w].pc = "notify"
  /\ \/ /\ Gone(r) \/ Superseded(r)
        /\ CancelSuperseded(r)
        /\ workers' = [workers EXCEPT ![w] = IdleWorker]
     \/ /\ ~Gone(r) /\ ~Superseded(r) /\ HoldsNotice(w, "leased")
        /\ notices' = [notices EXCEPT ![r].status = "attempting"]
        /\ workers' = [workers EXCEPT ![w].pc = "attempting"]
        /\ UNCHANGED <<confirmations, requests>>
     \/ /\ ~Gone(r) /\ ~Superseded(r) /\ ~HoldsNotice(w, "leased")
        /\ workers' = [workers EXCEPT ![w] = IdleWorker]
        /\ UNCHANGED <<confirmations, notices, requests>>
  /\ UNCHANGED <<relationship, grants, threads, made, responses, deleted, marks, superseded, callers,
                 events, shown>>

ShowNotice(w) ==
  /\ workers[w].pc = "attempting"
  /\ shown' = [shown EXCEPT ![workers[w].request] = @ + 1]
  /\ workers' = [workers EXCEPT ![w].pc = "shown"]
  /\ UNCHANGED <<tables, superseded, callers, events>>

\* complete_notice: what was sent, or may have been.
CompleteNotice(w) ==
  LET r == workers[w].request IN
  /\ workers[w].pc \in {"attempting", "shown"}
  /\ \E outcome \in {"sent", "unknown"} :
       /\ outcome = "sent" => workers[w].pc = "shown"
       /\ notices' = IF HoldsNotice(w, "attempting")
                     THEN [notices EXCEPT ![r] = NoticeOver(outcome)]
                     ELSE notices
  /\ workers' = [workers EXCEPT ![w] = IdleWorker]
  /\ UNCHANGED <<relationship, grants, threads, requests, made, confirmations, responses, deleted,
                 marks, superseded, callers, events, shown>>

Notify(w) ==
  \/ ClaimNotice(w) \/ CheckNotice(w) \/ NoticeUnaddressed(w)
  \/ BeginNotice(w) \/ ShowNotice(w) \/ CompleteNotice(w)

-----------------------------------------------------------------------------
(* Workers: the requests *)

\* What a claim fails first: a request that is out of time or of attempts.
OutOfTime(row) ==
  \/ row.status \in {"pending", "authorized", "leased"} /\ row.deadline = "passed"
  \/ row.status = "leased" /\ row.lapsed /\ row.attempts >= MaxAttempts

\* A confirmed request goes back to what it was.
Requeued(r) == IF confirmations[r].status = "confirmed" THEN "authorized" ELSE "pending"

Swept(r) ==
  LET row == requests[r] IN
  CASE OutOfTime(row) -> Over(row, "failed")
    [] ~OutOfTime(row) /\ row.status = "leased" /\ row.lapsed -> Released(row, Requeued(r))
    [] OTHER -> row

SweptResponse(r) == IF OutOfTime(requests[r]) /\ responses[r] = "none" THEN "failed" ELSE responses[r]

\* Mutant: the requests of a thread are answered in any order.
AnyOrder(rows, r) == TRUE

\* The earlier requests of the thread are over.
EarlierAreOver(rows, r) ==
  \A q \in Requests :
    (rows[q].status \in OpenRequest /\ rows[q].thread = rows[r].thread) =>
      rows[q].sequence >= rows[r].sequence

Queued(rows, r) ==
  /\ rows[r].status \in {"pending", "authorized"}
  /\ rows[r].attempts < MaxAttempts
  /\ rows[r].ready
  /\ EarlierAreOver(rows, r)

\* The relationship and the thread let the request be executed.
Executable(row) == Active /\ ~threads[row.thread].lapsed

LeasedTo(w, row) ==
  [row EXCEPT !.status = "leased", !.lapsed = FALSE, !.holder = w, !.attempts = @ + 1,
              !.deadline = IF @ = "none" THEN "running" ELSE @]

\* claim_candidates: the oldest request that can be executed; those before it
\* that cannot are denied. The policy decides on the row as it was queued.
ClaimRequest(w) ==
  LET rows == [r \in Requests |-> Swept(r)]
      queue == {r \in Requests : Queued(rows, r)}
      Passed(r) == IF r \in queue THEN Over(rows[r], "denied") ELSE rows[r]
  IN
  /\ workers[w].pc = "claim"
  /\ responses' = [r \in Requests |-> SweptResponse(r)]
  /\ \/ \E r \in queue :
          /\ Executable(rows[r])
          /\ \A q \in queue : Executable(rows[q]) => r <= q
          /\ requests' = [q \in Requests |-> IF q = r THEN LeasedTo(w, rows[r])
                                             ELSE IF q < r THEN Passed(q) ELSE rows[q]]
          /\ workers' = [workers EXCEPT ![w] =
                           [pc |-> IF Allows(rows[r].call, rows[r].status) THEN "claimed" ELSE "refused",
                            request |-> r, revision |-> relationship.revision, granted |-> Granted]]
     \/ /\ \A r \in queue : ~Executable(rows[r])
        /\ requests' = [q \in Requests |-> Passed(q)]
        /\ workers' = [workers EXCEPT ![w] = IdleWorker]
  /\ UNCHANGED <<relationship, grants, threads, made, confirmations, notices, deleted, marks,
                 superseded, callers, events, shown>>

\* The lease that a worker was given is still its own.
HasToken(w) ==
  LET row == requests[workers[w].request] IN row.status = "leased" /\ row.holder = w

\* deny_claim, of what the policy or the generation forbids; then the next.
DenyClaim(w) ==
  LET r == workers[w].request IN
  /\ \/ workers[w].pc = "refused"
     \/ workers[w].pc = "claimed" /\ Superseded(r)
  /\ requests' = IF HasToken(w) THEN [requests EXCEPT ![r] = Denied(requests[r])] ELSE requests
  /\ workers' = [workers EXCEPT ![w] = [IdleWorker EXCEPT !.pc = "claim"]]
  /\ UNCHANGED <<relationship, grants, threads, made, confirmations, notices, responses, deleted,
                 marks, superseded, callers, events, shown>>

\* Mutant: the relationship is the same, whatever became of the grants.
SameRelationship(w) == relationship.revision = workers[w].revision

\* Nothing has been edited since the claim.
SameAuthority(w) ==
  relationship.revision = workers[w].revision /\ Granted = workers[w].granted

\* _claim_fence, and the conditions of finish.
Fence(w) ==
  LET row == requests[workers[w].request] IN
  /\ HasToken(w)
  /\ ~row.lapsed
  /\ row.deadline = "running"
  /\ Executable(row)
  /\ SameAuthority(w)
  /\ Allows(row.call, row.status)

Becomes(w, pc) == workers' = [workers EXCEPT ![w].pc = pc]

Rests(w) == workers' = [workers EXCEPT ![w] = IdleWorker]

\* What is claimed is allowed, and its generation was good.
CheckClaim(w) ==
  /\ workers[w].pc = "claimed"
  /\ ~Superseded(workers[w].request)
  /\ Becomes(w, "checked")
  /\ UNCHANGED <<tables, superseded, callers, events, shown>>

\* The sandbox is started, once the lease has been renewed. An owner who has
\* purged the request is not shown it, and the worker stumbles over that.
BeginExecution(w) ==
  LET r == workers[w].request IN
  /\ workers[w].pc = "checked"
  /\ IF Fence(w) /\ marks[Other(SenderOf[requests[r].call])] < r
     THEN Becomes(w, "executing") ELSE Rests(w)
  /\ UNCHANGED <<tables, superseded, callers, events, shown>>

\* The owner has no chat: the request is put off.
RequestUnaddressed(w) ==
  /\ workers[w].pc = "checked"
  /\ Happens
  /\ Becomes(w, "deferring")
  /\ UNCHANGED <<tables, superseded, callers, shown>>

\* The sandbox has answered, has given an answer that cannot be used, or has
\* failed; each time the worker looks first if it still holds the request. A
\* heartbeat that finds it does not ends the worker's round as well.
EndExecution(w) ==
  LET live == ~Superseded(workers[w].request) /\ Fence(w) IN
  /\ workers[w].pc = "executing"
  /\ \/ live /\ \E pc \in {"completing", "failing", "deferring"} : Becomes(w, pc)
     \/ ~live /\ Rests(w)
  /\ UNCHANGED <<tables, superseded, callers, events, shown>>

\* finish.
Finish(w) ==
  LET r == workers[w].request
      outcome == IF workers[w].pc = "failing" THEN "failed" ELSE "completed"
  IN
  /\ workers[w].pc \in {"completing", "failing"}
  /\ IF Fence(w)
     THEN /\ requests' = [requests EXCEPT ![r] = Over(requests[r], outcome)]
          /\ responses' = [responses EXCEPT ![r] = outcome]
     ELSE UNCHANGED <<requests, responses>>
  /\ Rests(w)
  /\ UNCHANGED <<relationship, grants, threads, made, confirmations, notices, deleted, marks,
                 superseded, callers, events, shown>>

\* defer; the last attempt fails. (The fail after a refused defer finds
\* nothing: the lease is gone, and so it is for finish.)
Defer(w) ==
  LET r == workers[w].request IN
  /\ workers[w].pc = "deferring"
  /\ IF HasToken(w) /\ ~requests[r].lapsed
     THEN IF requests[r].attempts >= MaxAttempts
          THEN /\ requests' = [requests EXCEPT ![r] = Over(requests[r], "failed")]
               /\ responses' = [responses EXCEPT ![r] = "failed"]
          ELSE /\ requests' = [requests EXCEPT ![r] =
                                  [Released(requests[r], Requeued(r)) EXCEPT !.ready = FALSE]]
               /\ UNCHANGED responses
     ELSE UNCHANGED <<requests, responses>>
  /\ Rests(w)
  /\ UNCHANGED <<relationship, grants, threads, made, confirmations, notices, deleted, marks,
                 superseded, callers, events, shown>>

Execute(w) ==
  \/ ClaimRequest(w) \/ DenyClaim(w) \/ CheckClaim(w) \/ BeginExecution(w) \/ RequestUnaddressed(w)
  \/ EndExecution(w) \/ Finish(w) \/ Defer(w)

\* The process dies; its leases are left to lapse.
Crash(w) ==
  /\ workers[w].pc # "idle"
  /\ Happens
  /\ Rests(w)
  /\ UNCHANGED <<tables, superseded, callers, shown>>

-----------------------------------------------------------------------------
(* Time, and the generations that ask *)

\* A new message of its chat supersedes a generation, unless a notice of it is
\* being sent: the worker holds the guard.
Supersede(g) ==
  /\ g \notin superseded
  /\ Happens
  /\ \A w \in Workers : workers[w].pc \notin {"attempting", "shown"}
  /\ superseded' = superseded \cup {g}
  /\ UNCHANGED <<tables, callers, workers, shown>>

GrantLapses(o) ==
  /\ grants[o].revision > 0 /\ ~grants[o].lapsed
  /\ Happens
  /\ grants' = [grants EXCEPT ![o].lapsed = TRUE]
  /\ UNCHANGED <<relationship, threads, requests, made, confirmations, notices, responses, deleted,
                 marks, quiet>>

\* A thread lives a quarter of an hour, and so does a confirmation: that of the thread's first
\* request lapses with it. No request may be executed past the end of its
\* thread.
ThreadLapses(t) ==
  /\ threads[t].count > 0 /\ ~threads[t].lapsed
  /\ threads' = [threads EXCEPT ![t].lapsed = TRUE]
  /\ requests' = [r \in Requests |->
                    IF requests[r].thread = t /\ requests[r].deadline = "running"
                    THEN [requests[r] EXCEPT !.deadline = "passed"] ELSE requests[r]]
  /\ confirmations' = [r \in Requests |->
                         IF /\ requests[r].thread = t /\ requests[r].sequence = 1
                            /\ confirmations[r].status = "pending"
                         THEN [confirmations[r] EXCEPT !.lapsed = TRUE] ELSE confirmations[r]]
  /\ UNCHANGED <<relationship, grants, made, notices, responses, deleted, marks, quiet, events>>

ConfirmationLapses(r) ==
  /\ confirmations[r].status = "pending" /\ ~confirmations[r].lapsed
  /\ threads[requests[r].thread].lapsed
  /\ confirmations' = [confirmations EXCEPT ![r].lapsed = TRUE]
  /\ UNCHANGED <<relationship, grants, threads, requests, made, notices, responses, deleted, marks,
                 quiet, events>>

NoticeBecomes(r, row) ==
  /\ notices' = [notices EXCEPT ![r] = row]
  /\ UNCHANGED <<relationship, grants, threads, requests, made, confirmations, responses, deleted,
                 marks, quiet, events>>

NoticeLeaseLapses(r) ==
  /\ notices[r].status \in {"leased", "attempting"} /\ ~notices[r].lapsed
  /\ NoticeBecomes(r, [notices[r] EXCEPT !.lapsed = TRUE])

NoticeReady(r) ==
  /\ notices[r].status = "pending" /\ ~notices[r].ready
  /\ NoticeBecomes(r, [notices[r] EXCEPT !.ready = TRUE])

RequestBecomes(r, row) ==
  /\ requests' = [requests EXCEPT ![r] = row]
  /\ UNCHANGED <<relationship, grants, threads, made, confirmations, notices, responses, deleted,
                 marks, quiet, events>>

LeaseLapses(r) ==
  /\ requests[r].status = "leased" /\ ~requests[r].lapsed
  /\ RequestBecomes(r, [requests[r] EXCEPT !.lapsed = TRUE])

\* A minute after the first claim.
DeadlinePasses(r) ==
  /\ requests[r].status \in OpenRequest /\ requests[r].deadline = "running"
  /\ RequestBecomes(r, [requests[r] EXCEPT !.deadline = "passed"])

RequestReady(r) ==
  /\ requests[r].status \in OpenRequest /\ ~requests[r].ready
  /\ RequestBecomes(r, [requests[r] EXCEPT !.ready = TRUE])

-----------------------------------------------------------------------------
OwnerStep(o) ==
  \/ Invite(o) \/ Accept(o) \/ Revoke(o) \/ DeleteOwner(o) \/ Purge(o) \/ GrantLapses(o)
  \/ \E offer \in OffersOf[o] : UpdateGrant(o, offer)

CallerStep(c) ==
  \/ \E k \in Calls, t \in Threads : Ask(c, k, t)
  \/ Submit(c) \/ CheckSource(c)
  \/ \E r \in Requests, approve \in BOOLEAN : Answer(c, r, approve)
  \/ DecideConfirmation(c)

Next ==
  \/ \E o \in Owners : OwnerStep(o)
  \/ \E c \in Callers : CallerStep(c)
  \/ \E w \in Workers : Notify(w) \/ Execute(w) \/ Crash(w)
  \/ \E g \in Sources : Supersede(g)
  \/ \E t \in Threads : ThreadLapses(t)
  \/ \E r \in Requests : \/ LeaseLapses(r) \/ DeadlinePasses(r) \/ RequestReady(r)
                         \/ NoticeLeaseLapses(r) \/ NoticeReady(r) \/ ConfirmationLapses(r)

Spec == Init /\ [][Next]_vars

-----------------------------------------------------------------------------
(* Properties *)

\* The tables, the callers and the workers hold what the code puts there.
TypeOK ==
  /\ relationship \in RelationshipRow
  /\ grants \in [Owners -> GrantRow]
  /\ threads \in [Threads -> ThreadRow]
  /\ requests \in [Requests -> RequestRow]
  /\ made \in 0..MaxRequests
  /\ confirmations \in [Requests -> ConfirmationRow]
  /\ notices \in [Requests -> NoticeRow]
  /\ responses \in [Requests -> {"none", "completed", "failed"}]
  /\ deleted \subseteq Owners
  /\ marks \in [Owners -> 0..MaxRequests]
  /\ superseded \subseteq Sources
  /\ callers \in [Callers -> Caller]
  /\ workers \in [Workers -> Worker]
  /\ events \in 0..MaxEvents
  /\ shown \in [Requests -> Nat]

\* What a request asks for is disclosed only while both owners permit it: the
\* relationship is active, the grants in force let the one ask and the other's
\* assistant answer, and the question is covered by a standing grant or was
\* confirmed. This relates the answer to grants that may have been edited,
\* lapsed and edited again since the request was made, confirmed and claimed.
DisclosureIsAuthorized ==
  [][\A r \in Requests :
       responses'[r] = "completed" /\ responses[r] # "completed" =>
         /\ Permitted(requests[r].call)
         /\ NeedsConfirmation(requests[r].call) => confirmations[r].status = "confirmed"]_vars

\* What is settled stays settled: a denied, failed or answered request is never
\* executed again, nor its answer replaced, by a late confirmation, a worker
\* that has lost its lease or a second one. Only a purge removes it.
SettledStays ==
  [][\A r \in Requests :
       /\ requests[r].status \in OverRequest =>
            requests'[r].status \in {requests[r].status, "gone"}
       /\ responses[r] # "none" /\ requests'[r].status # "gone" => responses'[r] = responses[r]]_vars

\* The affected owner is asked at most once, whatever becomes of the worker
\* that asks.
NoticeShownOnce == \A r \in Requests : shown[r] <= 1

\* The requests of a thread are executed in the order they were made, since the
\* answers to the earlier ones are context for the later.
AnsweredInOrder ==
  \A q, r \in Requests :
    /\ requests[q].status \in OpenRequest
    /\ requests[r].status \in {"leased", "completed", "failed"}
    /\ requests[q].thread = requests[r].thread
    => requests[q].sequence >= requests[r].sequence

\* A request has a response exactly when it is completed or failed, and the one
\* that goes with it.
ResponseMatches ==
  \A r \in Requests :
    responses[r] = IF requests[r].status \in {"completed", "failed"} THEN requests[r].status ELSE "none"

\* A request that waits for a decision has one to wait for: a cancelled or
\* expired confirmation never leaves its request behind, which would hold up
\* the thread for good.
WaitsForDecision ==
  \A r \in Requests :
    requests[r].status = "confirmation_pending" => confirmations[r].status = "pending"

\* A worker begins to send a notice only while the question is open: the
\* relationship active, the confirmation undecided, its generation good.
NoticeIsWanted ==
  [][\A r \in Requests :
       notices'[r].status = "attempting" /\ notices[r].status # "attempting" =>
         Active /\ confirmations[r].status = "pending" /\ ~Superseded(r)]_vars

=============================================================================
