------------------------- MODULE PeerExchangeProofs -------------------------
(***************************************************************************)
(* What the peer exchange promises of requests, notices and answers, for   *)
(* every two owners and any number of calls, callers and workers.          *)
(* Type correctness comes first; the invariant of a row rests on it.       *)
(***************************************************************************)
EXTENDS PeerExchange, TLAPS

\* A worker that is not between rounds has a row.
WorkersHold ==
  \A w \in Workers : workers[w].pc \notin {"idle", "claim"} => workers[w].request \in Requests

\* A caller with a row has one.
CallersHold ==
  \A c \in Callers : callers[c].pc \in {"stored", "approving", "refusing"} =>
                       callers[c].request \in Requests

\* TypeOK is not inductive without them: the rows a worker writes are those it
\* has in hand.
TypeInv == TypeOK /\ WorkersHold /\ CallersHold

-----------------------------------------------------------------------------
(* Rows *)

LEMMA EmptyRowsType ==
  /\ NoRow \in RequestRow
  /\ NoConfirmation \in ConfirmationRow
  /\ NoNotice \in NoticeRow
  /\ NoGrant \in GrantRow
  /\ IdleCaller \in Caller
  /\ IdleWorker \in Worker
<1>1. AnyCall \in Calls /\ AnyThread \in Threads
  BY PeerAssumption DEF AnyCall, AnyThread
<1>2. NoRow \in RequestRow
  BY <1>1 DEF NoRow, RequestRow
<1>3. Ungranted \in [Owners -> Nat]
  BY DEF Ungranted
<1>4. NoConfirmation \in ConfirmationRow
  BY <1>3 DEF NoConfirmation, ConfirmationRow
<1>5. NoNotice \in NoticeRow
  BY DEF NoNotice, NoticeRow
<1>6. NoGrant \in GrantRow
  BY DEF NoGrant, GrantRow, Offer
<1>7. IdleCaller \in Caller
  BY <1>1 DEF IdleCaller, Caller
<1>8. IdleWorker \in Worker
  BY <1>3 DEF IdleWorker, Worker
<1> QED
  BY <1>2, <1>4, <1>5, <1>6, <1>7, <1>8

\* A request that is over.
LEMMA OverType ==
  ASSUME NEW row \in RequestRow, NEW status \in OverRequest \cup {"gone"}
  PROVE  Over(row, status) \in RequestRow
<1>1. NoRow \in RequestRow
  BY EmptyRowsType
<1> QED
  BY <1>1 DEF Over, RequestRow, OverRequest

LEMMA DeniedType ==
  ASSUME NEW row \in RequestRow
  PROVE  Denied(row) \in RequestRow
BY OverType DEF Denied, OverRequest

LEMMA ReleasedRequestType ==
  ASSUME NEW row \in RequestRow, NEW status \in {"pending", "authorized"}
  PROVE  Released(row, status) \in RequestRow
BY DEF Released, RequestRow, OpenRequest

LEMMA ReleasedNoticeType ==
  ASSUME NEW row \in NoticeRow
  PROVE  Released(row, "pending") \in NoticeRow
BY DEF Released, NoticeRow

LEMMA NoticeOverType ==
  ASSUME NEW status \in {"sent", "unknown", "suppressed"}
  PROVE  NoticeOver(status) \in NoticeRow
BY EmptyRowsType DEF NoticeOver, NoticeRow

LEMMA ConfirmationOverType ==
  ASSUME NEW status \in {"confirmed", "cancelled", "expired"}
  PROVE  ConfirmationOver(status) \in ConfirmationRow
BY EmptyRowsType DEF ConfirmationOver, ConfirmationRow

LEMMA NoticeEditsType ==
  ASSUME NEW row \in NoticeRow
  PROVE  /\ Suppressed(row) \in NoticeRow
         /\ Withdrawn(row) \in NoticeRow
         /\ Retracted(row) \in NoticeRow
         /\ SweptNotice(row) \in NoticeRow
<1>1. Suppressed(row) \in NoticeRow
  BY NoticeOverType DEF Suppressed
<1>2. NoticeOver("unknown") \in NoticeRow
  BY NoticeOverType
<1>3. Released(row, "pending") \in NoticeRow
  BY ReleasedNoticeType
<1> QED
  BY <1>1, <1>2, <1>3 DEF Withdrawn, Retracted, SweptNotice

\* The revisions of the grants.
LEMMA GrantedType ==
  ASSUME TypeOK
  PROVE  Granted \in [Owners -> Nat]
BY DEF Granted, TypeOK, GrantRow

\* Rows after a claim's sweep.
LEMMA SweptType ==
  ASSUME TypeOK, NEW r \in Requests
  PROVE  /\ Swept(r) \in RequestRow
         /\ SweptResponse(r) \in {"none", "completed", "failed"}
<1>1. requests[r] \in RequestRow
  BY DEF TypeOK
<1>2. Requeued(r) \in {"pending", "authorized"}
  BY DEF Requeued
<1>3. Over(requests[r], "failed") \in RequestRow
  BY <1>1, OverType DEF OverRequest
<1>4. Released(requests[r], Requeued(r)) \in RequestRow
  BY <1>1, <1>2, ReleasedRequestType
<1>5. Swept(r) \in RequestRow
  BY <1>1, <1>3, <1>4 DEF Swept
<1>6. SweptResponse(r) \in {"none", "completed", "failed"}
  BY SMTT(60) DEF SweptResponse, TypeOK
<1> QED
  BY <1>5, <1>6

LEMMA LeasedToType ==
  ASSUME NEW w \in Workers, NEW row \in RequestRow
  PROVE  LeasedTo(w, row) \in RequestRow
<1>1. row.attempts + 1 \in Nat
  BY DEF RequestRow
<1>2. \A n \in Nat, d \in {"none", "running", "passed"} :
        [row EXCEPT !.status = "leased", !.lapsed = FALSE, !.holder = w, !.attempts = n,
                    !.deadline = d] \in RequestRow
  BY DEF RequestRow, OpenRequest
<1>3. (IF row.deadline = "none" THEN "running" ELSE row.deadline) \in {"none", "running", "passed"}
  BY DEF RequestRow
<1> QED
  BY Zenon, <1>1, <1>2, <1>3 DEF LeasedTo

\* What the steps write into a worker's and a caller's state.
LEMMA WorkerEditsType ==
  ASSUME TypeOK, NEW w \in Workers
  PROVE  /\ workers[w] \in Worker
         /\ \A pc \in {"idle", "noticed", "notify", "attempting", "shown", "claim", "claimed",
                       "refused", "checked", "executing", "completing", "failing", "deferring"} :
              [workers EXCEPT ![w].pc = pc] \in [Workers -> Worker]
         /\ \A row \in Worker : [workers EXCEPT ![w] = row] \in [Workers -> Worker]
         /\ [IdleWorker EXCEPT !.pc = "claim"] \in Worker
         /\ \A r \in Requests : [IdleWorker EXCEPT !.pc = "noticed", !.request = r] \in Worker
<1>1. workers \in [Workers -> Worker]
  BY DEF TypeOK
<1>2. workers[w] \in Worker
  BY <1>1
<1>3. IdleWorker \in Worker
  BY EmptyRowsType
<1>4. ASSUME NEW pc \in {"idle", "noticed", "notify", "attempting", "shown", "claim", "claimed",
                         "refused", "checked", "executing", "completing", "failing", "deferring"}
      PROVE  [workers EXCEPT ![w].pc = pc] \in [Workers -> Worker]
  <2>1. [workers[w] EXCEPT !.pc = pc] \in Worker
    BY <1>2 DEF Worker
  <2> QED
    BY <1>1, <2>1
<1>5. \A row \in Worker : [workers EXCEPT ![w] = row] \in [Workers -> Worker]
  BY <1>1
<1>6. [IdleWorker EXCEPT !.pc = "claim"] \in Worker
  BY <1>3 DEF Worker
<1>7. \A r \in Requests : [IdleWorker EXCEPT !.pc = "noticed", !.request = r] \in Worker
  BY <1>3 DEF Worker
<1> QED
  BY Zenon, <1>2, <1>4, <1>5, <1>6, <1>7

-----------------------------------------------------------------------------
(* Type correctness, action by action *)

LEMMA InitTypeInv == Init => TypeInv
<1> SUFFICES ASSUME Init PROVE TypeInv
  OBVIOUS
<1>1. TypeOK
  <2>1. /\ made \in 0..MaxRequests
        /\ events \in 0..MaxEvents
        /\ marks \in [Owners -> 0..MaxRequests]
    BY PeerAssumption DEF Init
  <2>2. relationship \in RelationshipRow
    BY DEF Init, RelationshipRow
  <2>3. threads \in [Threads -> ThreadRow]
    BY DEF Init, ThreadRow
  <2> QED
    BY <2>1, <2>2, <2>3, EmptyRowsType DEF Init, TypeOK
<1>2. WorkersHold /\ CallersHold
  BY DEF Init, WorkersHold, CallersHold, IdleWorker, IdleCaller
<1> QED
  BY <1>1, <1>2 DEF TypeInv

\* The owners.
LEMMA RelationshipType ==
  ASSUME TypeInv, NEW o \in Owners, Invite(o) \/ Accept(o) \/ Revoke(o)
  PROVE  TypeInv'
<1>1. relationship' \in RelationshipRow
  <2>1. relationship \in RelationshipRow
    BY DEF TypeInv, TypeOK
  <2>2. relationship.revision + 1 \in Nat
    BY <2>1 DEF RelationshipRow
  <2>3. \A status \in {"active", "revoked"}, n \in Nat :
          [relationship EXCEPT !.status = status, !.inviter = Nobody, !.revision = n]
            \in RelationshipRow
    BY <2>1 DEF RelationshipRow
  <2>4. CASE Invite(o)
    BY <2>4 DEF Invite, RelationshipRow
  <2>5. CASE Accept(o)
    BY Zenon, <2>2, <2>3, <2>5 DEF Accept
  <2>6. CASE Revoke(o)
    BY Zenon, <2>2, <2>3, <2>6 DEF Revoke, Ended
  <2> QED
    BY <2>4, <2>5, <2>6
<1>2. requests' \in [Requests -> RequestRow] /\ notices' \in [Requests -> NoticeRow]
  <2>1. requests \in [Requests -> RequestRow] /\ notices \in [Requests -> NoticeRow]
    BY DEF TypeInv, TypeOK
  <2>2. CASE Revoke(o)
    BY <2>1, <2>2, DeniedType, NoticeEditsType DEF Revoke
  <2>3. CASE Invite(o) \/ Accept(o)
    BY <2>1, <2>3 DEF Invite, Accept
  <2> QED
    BY <2>2, <2>3
<1>3. UNCHANGED <<grants, threads, made, confirmations, responses, deleted, marks, quiet, events>>
  BY DEF Invite, Accept, Revoke
<1> QED
  BY <1>1, <1>2, <1>3 DEF TypeInv, TypeOK, WorkersHold, CallersHold, quiet

LEMMA DeleteOwnerType ==
  ASSUME TypeInv, NEW o \in Owners, DeleteOwner(o)
  PROVE  TypeInv'
<1>1. relationship' \in RelationshipRow
  <2>1. relationship \in RelationshipRow
    BY DEF TypeInv, TypeOK
  <2>2. relationship.revision + 1 \in Nat
    BY <2>1 DEF RelationshipRow
  <2>3. Ended \in RelationshipRow
    BY <2>1, <2>2 DEF Ended, RelationshipRow
  <2> QED
    BY <2>1, <2>3 DEF DeleteOwner
<1>2. requests' \in [Requests -> RequestRow] /\ notices' \in [Requests -> NoticeRow]
  <2>1. requests \in [Requests -> RequestRow] /\ notices \in [Requests -> NoticeRow]
    BY DEF TypeInv, TypeOK
  <2> QED
    BY <2>1, DeniedType, NoticeEditsType DEF DeleteOwner
<1>3. grants' \in [Owners -> GrantRow] /\ marks' \in [Owners -> 0..MaxRequests]
  BY EmptyRowsType DEF DeleteOwner, TypeInv, TypeOK
<1>4. deleted' \subseteq Owners /\ events' \in 0..MaxEvents
  BY PeerAssumption DEF DeleteOwner, Happens, TypeInv, TypeOK
<1>5. UNCHANGED <<threads, made, confirmations, responses, quiet>>
  BY DEF DeleteOwner
<1> QED
  BY <1>1, <1>2, <1>3, <1>4, <1>5 DEF TypeInv, TypeOK, WorkersHold, CallersHold, quiet

LEMMA GrantType ==
  ASSUME TypeInv, NEW o \in Owners,
         GrantLapses(o) \/ \E offer \in OffersOf[o] : UpdateGrant(o, offer)
  PROVE  TypeInv'
<1>1. grants \in [Owners -> GrantRow] /\ grants[o] \in GrantRow
  BY DEF TypeInv, TypeOK
<1>2. grants' \in [Owners -> GrantRow]
  <2>1. CASE GrantLapses(o)
    <3>1. [grants[o] EXCEPT !.lapsed = TRUE] \in GrantRow
      BY <1>1 DEF GrantRow
    <3> QED
      BY <1>1, <2>1, <3>1 DEF GrantLapses
  <2>2. ASSUME NEW offer \in OffersOf[o], UpdateGrant(o, offer)
        PROVE  grants' \in [Owners -> GrantRow]
    <3>1. offer \in Offer
      BY PeerAssumption
    <3>2. grants[o].revision + 1 \in Nat
      BY <1>1 DEF GrantRow
    <3>3. [revision |-> grants[o].revision + 1, offer |-> offer, lapsed |-> FALSE] \in GrantRow
      BY <3>1, <3>2 DEF GrantRow
    <3> QED
      BY <1>1, <2>2, <3>3 DEF UpdateGrant
  <2> QED
    BY <2>1, <2>2
<1>3. events' \in 0..MaxEvents
  BY PeerAssumption DEF GrantLapses, UpdateGrant, Happens, TypeInv, TypeOK
<1>4. UNCHANGED <<relationship, threads, requests, made, confirmations, notices, responses,
                  deleted, marks, quiet>>
  BY DEF GrantLapses, UpdateGrant
<1> QED
  BY <1>2, <1>3, <1>4 DEF TypeInv, TypeOK, WorkersHold, CallersHold, quiet

LEMMA PurgeType ==
  ASSUME TypeInv, NEW o \in Owners, Purge(o)
  PROVE  TypeInv'
<1>1. [NoRow EXCEPT !.status = "gone"] \in RequestRow
  BY EmptyRowsType DEF RequestRow
<1>2. PICK cutoff \in {0} \cup Requests :
        /\ requests' = [r \in Requests |-> IF r <= cutoff THEN [NoRow EXCEPT !.status = "gone"]
                                           ELSE requests[r]]
        /\ confirmations' = [r \in Requests |-> IF r <= cutoff THEN NoConfirmation
                                                ELSE confirmations[r]]
        /\ notices' = [r \in Requests |-> IF r <= cutoff THEN NoNotice ELSE notices[r]]
        /\ responses' = [r \in Requests |-> IF r <= cutoff THEN "none" ELSE responses[r]]
  BY DEF Purge
<1>3. requests' \in [Requests -> RequestRow]
  BY <1>1, <1>2 DEF TypeInv, TypeOK
<1>4. confirmations' \in [Requests -> ConfirmationRow] /\ notices' \in [Requests -> NoticeRow]
  BY <1>2, EmptyRowsType DEF TypeInv, TypeOK
<1>5. responses' \in [Requests -> {"none", "completed", "failed"}]
  BY <1>2 DEF TypeInv, TypeOK
<1>6. marks' \in [Owners -> 0..MaxRequests] /\ events' \in 0..MaxEvents
  BY PeerAssumption DEF Purge, Happens, TypeInv, TypeOK
<1>7. UNCHANGED <<relationship, grants, threads, made, deleted, quiet>>
  BY DEF Purge
<1> QED
  BY <1>3, <1>4, <1>5, <1>6, <1>7 DEF TypeInv, TypeOK, WorkersHold, CallersHold, quiet

\* The callers.
LEMMA AskType ==
  ASSUME TypeInv, NEW c \in Callers, NEW k \in Calls, NEW t \in Threads, Ask(c, k, t)
  PROVE  TypeInv'
<1>1. PICK row \in Caller :
        /\ callers' = [callers EXCEPT ![c] = row]
        /\ row.pc \in {"stored", "approving", "refusing"} => row.request \in Requests
  <2>1. IdleCaller \in Caller
    BY EmptyRowsType
  <2>2. \A b \in BOOLEAN :
          [IdleCaller EXCEPT !.pc = "decided", !.call = k, !.thread = t, !.confirm = b] \in Caller
    BY <2>1 DEF Caller
  <2>3. NeedsConfirmation(k) \in BOOLEAN
    BY DEF NeedsConfirmation
  <2>4. \A r \in Requests : [IdleCaller EXCEPT !.pc = "stored", !.request = r] \in Caller
    BY <2>1 DEF Caller
  <2>5. CASE callers' = [callers EXCEPT ![c] = [IdleCaller EXCEPT !.pc = "decided", !.call = k,
                           !.thread = t, !.confirm = NeedsConfirmation(k)]]
    BY Zenon, <2>1, <2>2, <2>3, <2>5 DEF Caller
  <2>6. ASSUME NEW r \in RowOf(k),
               callers' = [callers EXCEPT ![c] = [IdleCaller EXCEPT !.pc = "stored", !.request = r]]
        PROVE  \E row \in Caller :
                 /\ callers' = [callers EXCEPT ![c] = row]
                 /\ row.pc \in {"stored", "approving", "refusing"} => row.request \in Requests
    <3>1. r \in Requests
      BY DEF RowOf, Live
    <3> QED
      BY Zenon, <2>1, <2>4, <2>6, <3>1 DEF Caller
  <2> QED
    BY Zenon, <2>5, <2>6 DEF Ask
<1>2. UNCHANGED <<tables, superseded, workers, events, shown>>
  BY Zenon DEF Ask
<1> QED
  BY <1>1, <1>2 DEF TypeInv, TypeOK, WorkersHold, CallersHold, tables

LEMMA StoreRequestType ==
  ASSUME TypeInv, NEW c \in Callers, StoreRequest(c), Submit(c)
  PROVE  TypeInv'
<1> DEFINE k == callers[c].call
           t == callers[c].thread
           r == made + 1
<1>1. k \in Calls /\ t \in Threads /\ callers[c].confirm \in BOOLEAN
  BY DEF TypeInv, TypeOK, Caller
<1>2. r \in Requests /\ made' = r
  BY PeerAssumption DEF StoreRequest, TypeInv, TypeOK, Requests
<1>3. threads[t] \in ThreadRow /\ threads[t].count + 1 \in Nat
  BY <1>1 DEF TypeInv, TypeOK, ThreadRow
<1>4. threads' \in [Threads -> ThreadRow]
  <2>1. SenderOf[k] \in Owners
    BY <1>1, PeerAssumption
  <2>2. \A o \in Owners, n \in Nat :
          [threads[t] EXCEPT !.sender = o, !.count = n] \in ThreadRow
    BY <1>3 DEF ThreadRow
  <2>3. [threads[t] EXCEPT !.sender = SenderOf[k], !.count = threads[t].count + 1] \in ThreadRow
    BY Zenon, <1>3, <2>1, <2>2
  <2> QED
    BY <1>1, <2>3 DEF StoreRequest, TypeInv, TypeOK
<1>5. requests' \in [Requests -> RequestRow]
  <2>1. NoRow \in RequestRow
    BY EmptyRowsType
  <2>2. \A status \in {"confirmation_pending", "pending"}, n \in Nat, j \in Calls, u \in Threads :
          [NoRow EXCEPT !.status = status, !.call = j, !.thread = u, !.sequence = n,
                        !.ready = TRUE] \in RequestRow
    BY <2>1 DEF RequestRow, OpenRequest
  <2>3. (IF callers[c].confirm THEN "confirmation_pending" ELSE "pending")
          \in {"confirmation_pending", "pending"}
    OBVIOUS
  <2>4. [NoRow EXCEPT !.status = IF callers[c].confirm THEN "confirmation_pending" ELSE "pending",
                      !.call = k, !.thread = t, !.sequence = threads[t].count + 1,
                      !.ready = TRUE] \in RequestRow
    BY Zenon, <1>1, <1>3, <2>2, <2>3
  <2> QED
    BY <2>4 DEF StoreRequest, TypeInv, TypeOK
<1>6. confirmations' \in [Requests -> ConfirmationRow] /\ notices' \in [Requests -> NoticeRow]
  <2>1. relationship.revision \in Nat /\ Granted \in [Owners -> Nat]
    BY GrantedType DEF TypeInv, TypeOK, RelationshipRow
  <2>2. [status |-> "pending", lapsed |-> FALSE, revision |-> relationship.revision,
         granted |-> Granted] \in ConfirmationRow
    BY <2>1 DEF ConfirmationRow
  <2>3. NoNotice \in NoticeRow
    BY EmptyRowsType
  <2>4. [NoNotice EXCEPT !.status = "pending", !.ready = TRUE] \in NoticeRow
    BY <2>3 DEF NoticeRow
  <2> QED
    BY <2>2, <2>4 DEF StoreRequest, TypeInv, TypeOK
<1>7. callers' \in [Callers -> Caller] /\ CallersHold'
  <2>1. IdleCaller \in Caller
    BY EmptyRowsType
  <2>2. [IdleCaller EXCEPT !.pc = "stored", !.request = r] \in Caller
    BY <1>2, <2>1 DEF Caller
  <2>3. callers' = [callers EXCEPT ![c] = [IdleCaller EXCEPT !.pc = "stored", !.request = r]]
    BY DEF StoreRequest
  <2> HIDE DEF r
  <2>4. [IdleCaller EXCEPT !.pc = "stored", !.request = r].request = r
    BY <2>1 DEF Caller
  <2> QED
    BY <1>2, <2>2, <2>3, <2>4 DEF TypeInv, TypeOK, CallersHold
<1>8. made' \in 0..MaxRequests
  BY <1>2, PeerAssumption DEF Requests
<1>9. UNCHANGED <<relationship, grants, responses, deleted, marks, superseded, workers, events, shown>>
  BY DEF Submit
<1> QED
  BY <1>4, <1>5, <1>6, <1>7, <1>8, <1>9 DEF TypeInv, TypeOK, WorkersHold

LEMMA SubmitType ==
  ASSUME TypeInv, NEW c \in Callers, Submit(c)
  PROVE  TypeInv'
<1>1. CASE StoreRequest(c)
  BY <1>1, StoreRequestType
<1>2. CASE ~StoreRequest(c)
  <2>1. PICK row \in Caller :
          /\ callers' = [callers EXCEPT ![c] = row]
          /\ row.pc \in {"stored", "approving", "refusing"} => row.request \in Requests
    <3>1. IdleCaller \in Caller /\ IdleCaller.pc = "idle"
      BY EmptyRowsType DEF IdleCaller
    <3>2. \A r \in Requests : /\ [IdleCaller EXCEPT !.pc = "stored", !.request = r] \in Caller
                              /\ [IdleCaller EXCEPT !.pc = "stored", !.request = r].request = r
      BY <3>1 DEF Caller
    <3>3. \A r \in RowOf(callers[c].call) : r \in Requests
      BY DEF RowOf, Live
    <3>4. CASE callers' = [callers EXCEPT ![c] = IdleCaller]
      BY <3>1, <3>4
    <3>5. CASE \E r \in RowOf(callers[c].call) :
                 callers' = [callers EXCEPT ![c] = [IdleCaller EXCEPT !.pc = "stored", !.request = r]]
      <4>1. PICK r \in RowOf(callers[c].call) :
                 callers' = [callers EXCEPT ![c] = [IdleCaller EXCEPT !.pc = "stored", !.request = r]]
        BY Zenon, <3>5
      <4>2. r \in Requests
        BY <3>3
      <4> QED
        BY Zenon, <3>2, <4>1, <4>2
    <3> QED
      BY Zenon, <1>2, <3>4, <3>5 DEF Submit
  <2>2. UNCHANGED <<threads, requests, made, confirmations, notices>>
    BY Zenon, <1>2 DEF Submit
  <2>3. UNCHANGED <<relationship, grants, responses, deleted, marks, superseded, workers, events, shown>>
    BY Zenon DEF Submit
  <2> QED
    BY <2>1, <2>2, <2>3 DEF TypeInv, TypeOK, WorkersHold, CallersHold
<1> QED
  BY <1>1, <1>2

\* A caller is done.
LEMMA CallerRestsType ==
  ASSUME TypeInv, NEW c \in Callers, callers' = [callers EXCEPT ![c] = IdleCaller]
  PROVE  callers' \in [Callers -> Caller] /\ CallersHold'
<1>1. IdleCaller \in Caller /\ IdleCaller.pc = "idle"
  BY EmptyRowsType DEF IdleCaller
<1> QED
  BY <1>1 DEF TypeInv, TypeOK, CallersHold

LEMMA CheckSourceType ==
  ASSUME TypeInv, NEW c \in Callers, CheckSource(c)
  PROVE  TypeInv'
<1>1. callers[c].request \in Requests
  BY DEF CheckSource, TypeInv, CallersHold
<1>2. callers' \in [Callers -> Caller] /\ CallersHold'
  BY CallerRestsType DEF CheckSource
<1>3. requests' \in [Requests -> RequestRow]
  BY <1>1, DeniedType DEF CheckSource, TypeInv, TypeOK
<1>4. confirmations' \in [Requests -> ConfirmationRow] /\ notices' \in [Requests -> NoticeRow]
  BY <1>1, ConfirmationOverType, NoticeEditsType DEF CheckSource, TypeInv, TypeOK
<1>5. UNCHANGED <<relationship, grants, threads, made, responses, deleted, marks, superseded, workers,
                  events, shown>>
  BY DEF CheckSource
<1> QED
  BY <1>2, <1>3, <1>4, <1>5 DEF TypeInv, TypeOK, WorkersHold

LEMMA CancelSupersededType ==
  ASSUME TypeOK, NEW r \in Requests, CancelSuperseded(r)
  PROVE  /\ requests' \in [Requests -> RequestRow]
         /\ confirmations' \in [Requests -> ConfirmationRow]
         /\ notices' \in [Requests -> NoticeRow]
<1>1. requests[r] \in RequestRow /\ notices[r] \in NoticeRow
  BY DEF TypeOK
<1>2. Unconfirmed(r) \in RequestRow
  BY <1>1, OverType DEF Unconfirmed, OverRequest
<1>3. Retracted(notices[r]) \in NoticeRow
  BY <1>1, NoticeEditsType
<1>4. ConfirmationOver("cancelled") \in ConfirmationRow
  BY ConfirmationOverType
<1> QED
  BY <1>2, <1>3, <1>4 DEF CancelSuperseded, TypeOK

LEMMA AnswerType ==
  ASSUME TypeInv, NEW c \in Callers, NEW r \in Requests, NEW approve \in BOOLEAN,
         Answer(c, r, approve)
  PROVE  TypeInv'
<1>1. callers' \in [Callers -> Caller] /\ CallersHold'
  <2>1. IdleCaller \in Caller
    BY EmptyRowsType
  <2>2. \A pc \in {"approving", "refusing"} :
          /\ [IdleCaller EXCEPT !.request = r, !.pc = pc] \in Caller
          /\ [IdleCaller EXCEPT !.request = r, !.pc = pc].request = r
    BY <2>1 DEF Caller
  <2>3. CASE UNCHANGED callers
    BY <2>3 DEF TypeInv, TypeOK, CallersHold
  <2>4. CASE callers' = [callers EXCEPT ![c] =
                 [IdleCaller EXCEPT !.request = r,
                                    !.pc = IF approve THEN "approving" ELSE "refusing"]]
    <3>1. PICK row \in Caller : callers' = [callers EXCEPT ![c] = row] /\ row.request = r
      BY <2>2, <2>4
    <3> QED
      BY <3>1 DEF TypeInv, TypeOK, CallersHold
  <2> QED
    BY <2>3, <2>4 DEF Answer
<1>2. /\ requests' \in [Requests -> RequestRow]
      /\ confirmations' \in [Requests -> ConfirmationRow]
      /\ notices' \in [Requests -> NoticeRow]
  <2>1. CASE CancelSuperseded(r)
    BY <2>1, CancelSupersededType DEF TypeInv
  <2>2. CASE UNCHANGED <<confirmations, notices, requests>>
    BY <2>2 DEF TypeInv, TypeOK
  <2> QED
    BY <2>1, <2>2 DEF Answer
<1>3. UNCHANGED <<relationship, grants, threads, made, responses, deleted, marks, superseded, workers,
                  events, shown>>
  BY DEF Answer
<1> QED
  BY <1>1, <1>2, <1>3 DEF TypeInv, TypeOK, WorkersHold

LEMMA DecideConfirmationType ==
  ASSUME TypeInv, NEW c \in Callers, DecideConfirmation(c)
  PROVE  TypeInv'
<1> DEFINE r == callers[c].request
<1>1. r \in Requests
  BY DEF DecideConfirmation, TypeInv, CallersHold
<1>2. callers' \in [Callers -> Caller] /\ CallersHold'
  BY CallerRestsType DEF DecideConfirmation
<1>3. /\ requests' \in [Requests -> RequestRow]
      /\ confirmations' \in [Requests -> ConfirmationRow]
      /\ notices' \in [Requests -> NoticeRow]
  <2>1. ASSUME NEW outcome \in {"expired", "confirmed", "cancelled"}, Decided(r, outcome)
        PROVE  /\ requests' \in [Requests -> RequestRow]
               /\ confirmations' \in [Requests -> ConfirmationRow]
               /\ notices' \in [Requests -> NoticeRow]
    <3>1. requests[r] \in RequestRow /\ notices[r] \in NoticeRow
      BY <1>1 DEF TypeInv, TypeOK
    <3>2. [requests[r] EXCEPT !.status = "authorized"] \in RequestRow
      BY <3>1 DEF RequestRow, OpenRequest
    <3>3. Over(requests[r], "denied") \in RequestRow
      BY <3>1, OverType DEF OverRequest
    <3>4. ConfirmationOver(outcome) \in ConfirmationRow
      BY ConfirmationOverType
    <3>5. Withdrawn(notices[r]) \in NoticeRow
      BY <3>1, NoticeEditsType
    <3> HIDE DEF r
    <3> QED
      BY <1>1, <2>1, <3>2, <3>3, <3>4, <3>5 DEF Decided, TypeInv, TypeOK
  <2>2. CASE UNCHANGED <<confirmations, notices, requests>>
    BY <2>2 DEF TypeInv, TypeOK
  <2> QED
    BY <2>1, <2>2 DEF DecideConfirmation
<1>4. UNCHANGED <<relationship, grants, threads, made, responses, deleted, marks, superseded, workers,
                  events, shown>>
  BY DEF DecideConfirmation
<1> QED
  BY <1>2, <1>3, <1>4 DEF TypeInv, TypeOK, WorkersHold

\* What a worker goes on with.
LEMMA WorkerStepType ==
  ASSUME TypeInv, NEW w \in Workers, NEW row \in Worker,
         row.pc \notin {"idle", "claim"} => row.request \in Requests,
         workers' = [workers EXCEPT ![w] = row]
  PROVE  workers' \in [Workers -> Worker] /\ WorkersHold'
BY DEF TypeInv, TypeOK, WorkersHold

LEMMA RestsType ==
  ASSUME TypeInv, NEW w \in Workers,
         \/ workers' = [workers EXCEPT ![w] = IdleWorker]
         \/ workers' = [workers EXCEPT ![w] = [IdleWorker EXCEPT !.pc = "claim"]]
  PROVE  workers' \in [Workers -> Worker] /\ WorkersHold'
<1>1. IdleWorker \in Worker /\ [IdleWorker EXCEPT !.pc = "claim"] \in Worker
  BY Zenon, EmptyRowsType, WorkerEditsType DEF TypeInv
<1>2. IdleWorker.pc = "idle" /\ [IdleWorker EXCEPT !.pc = "claim"].pc = "claim"
  BY <1>1 DEF IdleWorker
<1> QED
  BY <1>1, <1>2, WorkerStepType

LEMMA GoesOnType ==
  ASSUME TypeInv, NEW w \in Workers, workers[w].pc \notin {"idle", "claim"},
         NEW pc \in {"notify", "attempting", "shown", "checked", "executing", "completing",
                     "failing", "deferring"},
         workers' = [workers EXCEPT ![w].pc = pc]
  PROVE  workers' \in [Workers -> Worker] /\ WorkersHold'
<1>1. workers' \in [Workers -> Worker]
  BY Zenon, WorkerEditsType DEF TypeInv
<1>2. \A v \in Workers : workers'[v].pc \notin {"idle", "claim"} => workers[v].pc \notin {"idle", "claim"}
  BY DEF TypeInv, TypeOK, Worker
<1>3. \A v \in Workers : workers'[v].request = workers[v].request
  BY DEF TypeInv, TypeOK, Worker
<1> QED
  BY <1>1, <1>2, <1>3 DEF TypeInv, WorkersHold

\* The notices.
LEMMA ClaimNoticeType ==
  ASSUME TypeInv, NEW w \in Workers, ClaimNotice(w)
  PROVE  TypeInv'
<1> DEFINE swept == [r \in Requests |-> SweptNotice(notices[r])]
           due == {r \in Requests : swept[r].status = "pending" /\ swept[r].ready}
           Passed(r) == IF r \in due THEN Suppressed(swept[r]) ELSE swept[r]
<1>1. \A r \in Requests : swept[r] \in NoticeRow
  BY NoticeEditsType DEF TypeInv, TypeOK
<1>2. \A r \in Requests : Passed(r) \in NoticeRow
  BY <1>1, NoticeEditsType
<1>3. \A row \in NoticeRow :
        [row EXCEPT !.status = "leased", !.lapsed = FALSE, !.holder = w] \in NoticeRow
  BY ZenonT(60) DEF NoticeRow
<1>4. \/ \E r \in Requests :
           /\ notices' = [q \in Requests |->
                           IF q = r
                           THEN [swept[r] EXCEPT !.status = "leased", !.lapsed = FALSE, !.holder = w]
                           ELSE IF q < r THEN Passed(q) ELSE swept[q]]
           /\ workers' = [workers EXCEPT ![w] = [IdleWorker EXCEPT !.pc = "noticed", !.request = r]]
      \/ /\ notices' = [q \in Requests |-> Passed(q)]
         /\ workers' = [workers EXCEPT ![w] = [IdleWorker EXCEPT !.pc = "claim"]]
  BY Zenon DEF ClaimNotice
<1> HIDE DEF swept, Passed
<1>5. notices' \in [Requests -> NoticeRow]
  BY ZenonT(60), <1>1, <1>2, <1>3, <1>4
<1>6. workers' \in [Workers -> Worker] /\ WorkersHold'
  <2>1. ASSUME NEW r \in Requests,
               workers' = [workers EXCEPT ![w] = [IdleWorker EXCEPT !.pc = "noticed", !.request = r]]
        PROVE  workers' \in [Workers -> Worker] /\ WorkersHold'
    <3>1. [IdleWorker EXCEPT !.pc = "noticed", !.request = r] \in Worker
      BY Zenon, WorkerEditsType DEF TypeInv
    <3>2. [IdleWorker EXCEPT !.pc = "noticed", !.request = r].request = r
      BY DEF IdleWorker
    <3> QED
      BY Zenon, <2>1, <3>1, <3>2, WorkerStepType
  <2> QED
    BY Zenon, <1>4, <2>1, RestsType
<1>7. UNCHANGED <<relationship, grants, threads, requests, made, confirmations, responses, deleted,
                  marks, superseded, callers, events, shown>>
  BY Zenon DEF ClaimNotice
<1> QED
  BY <1>5, <1>6, <1>7 DEF TypeInv, TypeOK, CallersHold

LEMMA NoticeStepType ==
  ASSUME TypeInv, NEW w \in Workers,
         CheckNotice(w) \/ NoticeUnaddressed(w) \/ BeginNotice(w) \/ ShowNotice(w) \/ CompleteNotice(w)
  PROVE  TypeInv'
<1> DEFINE r == workers[w].request
<1>0. workers[w].pc \notin {"idle", "claim"}
  BY DEF CheckNotice, NoticeUnaddressed, BeginNotice, ShowNotice, CompleteNotice
<1>1. r \in Requests /\ requests[r] \in RequestRow /\ notices[r] \in NoticeRow
  BY <1>0 DEF TypeInv, TypeOK, WorkersHold
<1>2. workers' \in [Workers -> Worker] /\ WorkersHold'
  <2>1. \/ workers' = [workers EXCEPT ![w] = IdleWorker]
        \/ workers' = [workers EXCEPT ![w] = [IdleWorker EXCEPT !.pc = "claim"]]
        \/ workers' = [workers EXCEPT ![w].pc = "notify"]
        \/ workers' = [workers EXCEPT ![w].pc = "attempting"]
        \/ workers' = [workers EXCEPT ![w].pc = "shown"]
    BY DEF CheckNotice, NoticeUnaddressed, BeginNotice, ShowNotice, CompleteNotice
  <2> QED
    BY <1>0, <2>1, RestsType, GoesOnType
<1>3. /\ requests' \in [Requests -> RequestRow]
      /\ confirmations' \in [Requests -> ConfirmationRow]
      /\ notices' \in [Requests -> NoticeRow]
  <2> HIDE DEF r
  <2>1. CASE CancelSuperseded(r)
    BY <1>1, <2>1, CancelSupersededType DEF TypeInv
  <2>2. CASE UNCHANGED <<confirmations, notices, requests>>
    BY <2>2 DEF TypeInv, TypeOK
  <2>3. ASSUME NEW row \in NoticeRow, notices' = [notices EXCEPT ![r] = row],
               UNCHANGED <<confirmations, requests>>
        PROVE  /\ requests' \in [Requests -> RequestRow]
               /\ confirmations' \in [Requests -> ConfirmationRow]
               /\ notices' \in [Requests -> NoticeRow]
    BY <2>3 DEF TypeInv, TypeOK
  <2>4. \A row \in NoticeRow : [row EXCEPT !.status = "attempting"] \in NoticeRow
    BY DEF NoticeRow
  <2>5. \A row \in NoticeRow : [row EXCEPT !.ready = FALSE] \in NoticeRow
    BY DEF NoticeRow
  <2>6. Released(notices[r], "pending") \in NoticeRow
    BY <1>1, ReleasedNoticeType
  <2>7. NoticeOver("sent") \in NoticeRow /\ NoticeOver("unknown") \in NoticeRow
    BY NoticeOverType
  <2>8. CASE CheckNotice(w) \/ ShowNotice(w)
    BY <2>1, <2>2, <2>8 DEF CheckNotice, ShowNotice, tables, r
  <2>9. CASE NoticeUnaddressed(w)
    BY <1>1, <2>2, <2>3, <2>5, <2>6, <2>9 DEF NoticeUnaddressed, r
  <2>10. CASE BeginNotice(w)
    <3>1. [notices[r] EXCEPT !.status = "attempting"] \in NoticeRow
      BY <1>1, <2>4
    <3>2. \/ CancelSuperseded(r)
          \/ /\ notices' = [notices EXCEPT ![r] = [notices[r] EXCEPT !.status = "attempting"]]
             /\ UNCHANGED <<confirmations, requests>>
          \/ UNCHANGED <<confirmations, notices, requests>>
      BY <2>10 DEF BeginNotice, r
    <3> QED
      BY <2>1, <2>2, <2>3, <3>1, <3>2
  <2>11. CASE CompleteNotice(w)
    BY <2>2, <2>3, <2>7, <2>11 DEF CompleteNotice, r
  <2> QED
    BY <2>8, <2>9, <2>10, <2>11
<1>4. shown' \in [Requests -> Nat] /\ events' \in 0..MaxEvents
  <2>1. shown' = shown \/ shown' = [shown EXCEPT ![r] = shown[r] + 1]
    BY DEF CheckNotice, NoticeUnaddressed, BeginNotice, ShowNotice, CompleteNotice
  <2>2. shown[r] + 1 \in Nat
    BY <1>1 DEF TypeInv, TypeOK
  <2>3. shown' \in [Requests -> Nat]
    BY <1>1, <2>1, <2>2 DEF TypeInv, TypeOK
  <2>4. events' \in 0..MaxEvents
    BY PeerAssumption DEF CheckNotice, NoticeUnaddressed, BeginNotice, ShowNotice, CompleteNotice,
                          Happens, TypeInv, TypeOK
  <2> QED
    BY <2>3, <2>4
<1>5. UNCHANGED <<relationship, grants, threads, made, responses, deleted, marks, superseded, callers>>
  BY DEF CheckNotice, NoticeUnaddressed, BeginNotice, ShowNotice, CompleteNotice, tables
<1> QED
  BY <1>2, <1>3, <1>4, <1>5 DEF TypeInv, TypeOK, CallersHold

\* The requests.
LEMMA ClaimRequestType ==
  ASSUME TypeInv, NEW w \in Workers, ClaimRequest(w)
  PROVE  TypeInv'
<1> DEFINE rows == [r \in Requests |-> Swept(r)]
           queue == {r \in Requests : Queued(rows, r)}
           Passed(r) == IF r \in queue THEN Over(rows[r], "denied") ELSE rows[r]
<1>1. \A r \in Requests : rows[r] \in RequestRow
  BY SweptType DEF TypeInv
<1>2. \A r \in Requests : Passed(r) \in RequestRow
  BY <1>1, OverType DEF OverRequest
<1>3. \A r \in Requests : LeasedTo(w, rows[r]) \in RequestRow
  BY <1>1, LeasedToType
<1>4. responses' \in [Requests -> {"none", "completed", "failed"}]
  BY SweptType DEF ClaimRequest, TypeInv
<1>5. \/ \E r \in Requests :
           /\ requests' = [q \in Requests |-> IF q = r THEN LeasedTo(w, rows[r])
                                              ELSE IF q < r THEN Passed(q) ELSE rows[q]]
           /\ workers' = [workers EXCEPT ![w] =
                            [pc |-> IF Allows(rows[r].call, rows[r].status) THEN "claimed" ELSE "refused",
                             request |-> r, revision |-> relationship.revision, granted |-> Granted]]
      \/ /\ requests' = [q \in Requests |-> Passed(q)]
         /\ workers' = [workers EXCEPT ![w] = IdleWorker]
  BY DEF ClaimRequest
<1> HIDE DEF rows, Passed
<1>6. requests' \in [Requests -> RequestRow]
  BY <1>1, <1>2, <1>3, <1>5
<1>7. workers' \in [Workers -> Worker] /\ WorkersHold'
  <2>1. ASSUME NEW r \in Requests, NEW pc \in {"claimed", "refused"},
               workers' = [workers EXCEPT ![w] = [pc |-> pc, request |-> r,
                             revision |-> relationship.revision, granted |-> Granted]]
        PROVE  workers' \in [Workers -> Worker] /\ WorkersHold'
    <3>1. relationship.revision \in Nat /\ Granted \in [Owners -> Nat]
      BY GrantedType DEF TypeInv, TypeOK, RelationshipRow
    <3>2. [pc |-> pc, request |-> r, revision |-> relationship.revision, granted |-> Granted] \in Worker
      BY <3>1 DEF Worker
    <3> QED
      BY <2>1, <3>2, WorkerStepType
  <2> QED
    BY <1>5, <2>1, RestsType
<1>8. UNCHANGED <<relationship, grants, threads, made, confirmations, notices, deleted, marks,
                  superseded, callers, events, shown>>
  BY DEF ClaimRequest
<1> QED
  BY <1>4, <1>6, <1>7, <1>8 DEF TypeInv, TypeOK, CallersHold

LEMMA RequestStepType ==
  ASSUME TypeInv, NEW w \in Workers,
         \/ DenyClaim(w) \/ CheckClaim(w) \/ BeginExecution(w) \/ RequestUnaddressed(w)
         \/ EndExecution(w) \/ Finish(w) \/ Defer(w)
  PROVE  TypeInv'
<1> DEFINE r == workers[w].request
<1> USE DEF Becomes, Rests
<1>0. workers[w].pc \notin {"idle", "claim"}
  BY DEF DenyClaim, CheckClaim, BeginExecution, RequestUnaddressed, EndExecution, Finish, Defer
<1>1. r \in Requests /\ requests[r] \in RequestRow
  BY <1>0 DEF TypeInv, TypeOK, WorkersHold
<1>2. workers' \in [Workers -> Worker] /\ WorkersHold'
  <2>1. \/ workers' = [workers EXCEPT ![w] = IdleWorker]
        \/ workers' = [workers EXCEPT ![w] = [IdleWorker EXCEPT !.pc = "claim"]]
        \/ workers' = [workers EXCEPT ![w].pc = "checked"]
        \/ workers' = [workers EXCEPT ![w].pc = "executing"]
        \/ workers' = [workers EXCEPT ![w].pc = "completing"]
        \/ workers' = [workers EXCEPT ![w].pc = "failing"]
        \/ workers' = [workers EXCEPT ![w].pc = "deferring"]
    BY DEF DenyClaim, CheckClaim, BeginExecution, RequestUnaddressed, EndExecution, Finish, Defer
  <2> QED
    BY <1>0, <2>1, RestsType, GoesOnType
<1>3. requests' \in [Requests -> RequestRow]
  <2>1. Denied(requests[r]) \in RequestRow
    BY <1>1, DeniedType
  <2>2. \A status \in OverRequest : Over(requests[r], status) \in RequestRow
    BY <1>1, OverType
  <2>3. Requeued(r) \in {"pending", "authorized"}
    BY DEF Requeued
  <2>4. Released(requests[r], Requeued(r)) \in RequestRow
    BY <1>1, <2>3, ReleasedRequestType
  <2>5. [Released(requests[r], Requeued(r)) EXCEPT !.ready = FALSE] \in RequestRow
    BY <2>4 DEF RequestRow
  <2> HIDE DEF r
  <2>6. \/ requests' = requests
        \/ requests' = [requests EXCEPT ![r] = Denied(requests[r])]
        \/ \E status \in OverRequest : requests' = [requests EXCEPT ![r] = Over(requests[r], status)]
        \/ requests' = [requests EXCEPT ![r] = [Released(requests[r], Requeued(r)) EXCEPT !.ready = FALSE]]
    <3>1. CASE DenyClaim(w)
      BY <3>1 DEF DenyClaim, r
    <3>2. CASE CheckClaim(w) \/ BeginExecution(w) \/ RequestUnaddressed(w) \/ EndExecution(w)
      BY <3>2 DEF CheckClaim, BeginExecution, RequestUnaddressed, EndExecution, tables
    <3>3. CASE Finish(w)
      BY <3>3 DEF Finish, OverRequest, r
    <3>4. CASE Defer(w)
      BY <3>4 DEF Defer, OverRequest, r
    <3> QED
      BY <3>1, <3>2, <3>3, <3>4
  <2> QED
    BY <1>1, <2>1, <2>2, <2>5, <2>6 DEF TypeInv, TypeOK
<1>4. responses' \in [Requests -> {"none", "completed", "failed"}]
  <2>1. \/ responses' = responses
        \/ responses' = [responses EXCEPT ![r] = "completed"]
        \/ responses' = [responses EXCEPT ![r] = "failed"]
    BY DEF DenyClaim, CheckClaim, BeginExecution, RequestUnaddressed, EndExecution, Finish, Defer,
           tables
  <2> QED
    BY <2>1 DEF TypeInv, TypeOK
<1>5. events' \in 0..MaxEvents
  BY PeerAssumption DEF DenyClaim, CheckClaim, BeginExecution, RequestUnaddressed, EndExecution,
                        Finish, Defer, Happens, TypeInv, TypeOK
<1>6. UNCHANGED <<relationship, grants, threads, made, confirmations, notices, deleted, marks,
                  superseded, callers, shown>>
  BY DEF DenyClaim, CheckClaim, BeginExecution, RequestUnaddressed, EndExecution, Finish, Defer,
         tables
<1> QED
  BY <1>2, <1>3, <1>4, <1>5, <1>6 DEF TypeInv, TypeOK, CallersHold

LEMMA CrashType ==
  ASSUME TypeInv, NEW w \in Workers, Crash(w)
  PROVE  TypeInv'
<1>1. workers' \in [Workers -> Worker] /\ WorkersHold'
  BY RestsType DEF Crash, Rests
<1>2. events' \in 0..MaxEvents
  BY PeerAssumption DEF Crash, Happens, TypeInv, TypeOK
<1>3. UNCHANGED <<tables, superseded, callers, shown>>
  BY DEF Crash
<1> QED
  BY <1>1, <1>2, <1>3 DEF TypeInv, TypeOK, CallersHold, tables

\* Time.
LEMMA SupersedeType ==
  ASSUME TypeInv, NEW g \in Sources, Supersede(g)
  PROVE  TypeInv'
<1>1. superseded' \subseteq Sources /\ events' \in 0..MaxEvents
  BY PeerAssumption DEF Supersede, Happens, TypeInv, TypeOK
<1>2. UNCHANGED <<tables, callers, workers, shown>>
  BY DEF Supersede
<1> QED
  BY <1>1, <1>2 DEF TypeInv, TypeOK, WorkersHold, CallersHold, tables

LEMMA LapseType ==
  ASSUME TypeInv,
         \/ \E t \in Threads : ThreadLapses(t)
         \/ \E r \in Requests : \/ LeaseLapses(r) \/ DeadlinePasses(r) \/ RequestReady(r)
                                \/ NoticeLeaseLapses(r) \/ NoticeReady(r) \/ ConfirmationLapses(r)
  PROVE  TypeInv'
<1> USE DEF NoticeBecomes, RequestBecomes
<1>1. \A row \in RequestRow : /\ [row EXCEPT !.deadline = "passed"] \in RequestRow
                              /\ [row EXCEPT !.lapsed = TRUE] \in RequestRow
                              /\ [row EXCEPT !.ready = TRUE] \in RequestRow
  BY DEF RequestRow
<1>2. \A row \in NoticeRow : /\ [row EXCEPT !.lapsed = TRUE] \in NoticeRow
                             /\ [row EXCEPT !.ready = TRUE] \in NoticeRow
  BY DEF NoticeRow
<1>3. \A row \in ConfirmationRow : [row EXCEPT !.lapsed = TRUE] \in ConfirmationRow
  BY DEF ConfirmationRow
<1>4. \A row \in ThreadRow : [row EXCEPT !.lapsed = TRUE] \in ThreadRow
  BY DEF ThreadRow
<1>5. ASSUME NEW t \in Threads, ThreadLapses(t) PROVE TypeInv'
  <2>1. threads' \in [Threads -> ThreadRow]
    BY <1>4, <1>5 DEF ThreadLapses, TypeInv, TypeOK
  <2>2. requests' \in [Requests -> RequestRow]
    BY <1>1, <1>5 DEF ThreadLapses, TypeInv, TypeOK
  <2>3. confirmations' \in [Requests -> ConfirmationRow]
    BY <1>3, <1>5 DEF ThreadLapses, TypeInv, TypeOK
  <2>4. UNCHANGED <<relationship, grants, made, notices, responses, deleted, marks, quiet, events>>
    BY <1>5 DEF ThreadLapses
  <2> QED
    BY <2>1, <2>2, <2>3, <2>4 DEF TypeInv, TypeOK, WorkersHold, CallersHold, quiet
<1>6. ASSUME NEW r \in Requests, LeaseLapses(r) \/ DeadlinePasses(r) \/ RequestReady(r)
      PROVE  TypeInv'
  <2>1. requests' \in [Requests -> RequestRow]
    <3>1. requests[r] \in RequestRow
      BY DEF TypeInv, TypeOK
    <3>2. PICK row \in RequestRow : requests' = [requests EXCEPT ![r] = row]
      BY <1>1, <1>6, <3>1 DEF LeaseLapses, DeadlinePasses, RequestReady
    <3> QED
      BY <3>2 DEF TypeInv, TypeOK
  <2>2. UNCHANGED <<relationship, grants, threads, made, confirmations, notices, responses, deleted,
                    marks, quiet, events>>
    BY <1>6 DEF LeaseLapses, DeadlinePasses, RequestReady
  <2> QED
    BY <2>1, <2>2 DEF TypeInv, TypeOK, WorkersHold, CallersHold, quiet
<1>7. ASSUME NEW r \in Requests, NoticeLeaseLapses(r) \/ NoticeReady(r)
      PROVE  TypeInv'
  <2>1. notices' \in [Requests -> NoticeRow]
    <3>1. notices[r] \in NoticeRow
      BY DEF TypeInv, TypeOK
    <3>2. PICK row \in NoticeRow : notices' = [notices EXCEPT ![r] = row]
      BY <1>2, <1>7, <3>1 DEF NoticeLeaseLapses, NoticeReady
    <3> QED
      BY <3>2 DEF TypeInv, TypeOK
  <2>2. UNCHANGED <<relationship, grants, threads, requests, made, confirmations, responses, deleted,
                    marks, quiet, events>>
    BY <1>7 DEF NoticeLeaseLapses, NoticeReady
  <2> QED
    BY <2>1, <2>2 DEF TypeInv, TypeOK, WorkersHold, CallersHold, quiet
<1>8. ASSUME NEW r \in Requests, ConfirmationLapses(r)
      PROVE  TypeInv'
  <2>1. confirmations' \in [Requests -> ConfirmationRow]
    <3>1. [confirmations[r] EXCEPT !.lapsed = TRUE] \in ConfirmationRow
      BY <1>3 DEF TypeInv, TypeOK
    <3> QED
      BY <3>1, <1>8 DEF ConfirmationLapses, TypeInv, TypeOK
  <2>2. UNCHANGED <<relationship, grants, threads, requests, made, notices, responses, deleted, marks,
                    quiet, events>>
    BY <1>8 DEF ConfirmationLapses
  <2> QED
    BY <2>1, <2>2 DEF TypeInv, TypeOK, WorkersHold, CallersHold, quiet
<1> QED
  BY <1>5, <1>6, <1>7, <1>8

LEMMA StepTypeInv == TypeInv /\ [Next]_vars => TypeInv'
<1> SUFFICES ASSUME TypeInv, [Next]_vars PROVE TypeInv'
  OBVIOUS
<1>1. ASSUME NEW o \in Owners, OwnerStep(o) PROVE TypeInv'
  BY <1>1, RelationshipType, DeleteOwnerType, PurgeType, GrantType DEF OwnerStep
<1>2. ASSUME NEW c \in Callers, CallerStep(c) PROVE TypeInv'
  BY <1>2, AskType, SubmitType, CheckSourceType, AnswerType, DecideConfirmationType DEF CallerStep
<1>3. ASSUME NEW w \in Workers, Notify(w) \/ Execute(w) \/ Crash(w) PROVE TypeInv'
  BY <1>3, ClaimNoticeType, NoticeStepType, ClaimRequestType, RequestStepType, CrashType
  DEF Notify, Execute
<1>4. CASE UNCHANGED vars
  BY <1>4 DEF vars, tables, TypeInv, TypeOK, WorkersHold, CallersHold
<1> QED
  BY <1>1, <1>2, <1>3, <1>4, SupersedeType, LapseType DEF Next

LEMMA TypeInvHolds == Spec => []TypeInv
BY InitTypeInv, StepTypeInv, PTL DEF Spec

\* Whatever the owners, callers and workers do, and in any order, the tables
\* hold the rows that the code writes.
THEOREM PeerTypeCorrect == Spec => []TypeOK
<1>1. TypeInv => TypeOK
  BY DEF TypeInv
<1> QED
  BY <1>1, TypeInvHolds, PTL

-----------------------------------------------------------------------------
(* The invariant of a row *)

\* What the tables say of one request, at any time.
RowInv(r) ==
  /\ requests[r].status = "authorized" => confirmations[r].status = "confirmed"
  /\ requests[r].status = "confirmation_pending" => confirmations[r].status = "pending"
  /\ confirmations[r].status = "pending" =>
       \/ requests[r].status = "confirmation_pending"
       \/ requests[r].status = "denied" /\ relationship.status = "revoked"
  /\ responses[r] = IF requests[r].status \in {"completed", "failed"} THEN requests[r].status ELSE "none"
  /\ r > made => requests[r].status = "none" /\ notices[r].status = "none"
  /\ notices[r].status = "leased" => Active /\ confirmations[r].status = "pending"

\* What a step other than the making or the claiming of a request does to one.
RowKept(r) ==
  /\ requests'[r].status # "gone" =>
       /\ requests'[r].call = requests[r].call
       /\ requests'[r].thread = requests[r].thread
       /\ requests'[r].sequence = requests[r].sequence
       /\ requests'[r].status = "none" <=> requests[r].status = "none"
       /\ requests[r].status # "gone"
  /\ requests'[r].status \in OpenRequest =>
       /\ requests[r].status \in OpenRequest
       /\ requests'[r].deadline = "none" <=> requests[r].deadline = "none"
  /\ requests'[r].status = "leased" =>
       /\ requests[r].status = "leased"
       /\ requests'[r].holder = requests[r].holder
       /\ confirmations[r].status = "confirmed" => confirmations'[r].status = "confirmed"
  /\ requests'[r].status \in {"completed", "failed"} =>
       requests[r].status \in {"completed", "failed", "leased"}

\* What every step keeps of what is settled.
Settled(r) ==
  /\ requests[r].status \in OverRequest => requests'[r].status \in {requests[r].status, "gone"}
  /\ responses[r] # "none" /\ requests'[r].status # "gone" => responses'[r] = responses[r]

\* How a request comes to be answered, if a step answers it.
AnsweredBy(r) ==
  responses'[r] = "completed" /\ responses[r] # "completed" =>
    \E w \in Workers : /\ Finish(w) /\ Fence(w)
                       /\ workers[w].pc = "completing" /\ workers[w].request = r

\* When a notice may begin to be sent.
NoticeBegins(r) ==
  notices'[r].status = "attempting" /\ notices[r].status # "attempting" =>
    Active /\ confirmations[r].status = "pending" /\ ~Superseded(r)

RowStep(r) ==
  RowInv(r)' /\ RowKept(r) /\ Settled(r) /\ AnsweredBy(r) /\ NoticeBegins(r)

-----------------------------------------------------------------------------
(* What the edits of rows do *)

LEMMA RequestEdits ==
  ASSUME NEW row \in RequestRow, NEW status
  PROVE  /\ Over(row, status).status = status
         /\ Over(row, status).call = row.call
         /\ Over(row, status).thread = row.thread
         /\ Over(row, status).sequence = row.sequence
         /\ Released(row, status).status = status
         /\ Released(row, status).call = row.call
         /\ Released(row, status).thread = row.thread
         /\ Released(row, status).sequence = row.sequence
         /\ Released(row, status).deadline = row.deadline
<1>1. /\ Over(row, status).status = status
      /\ Over(row, status).call = row.call
      /\ Over(row, status).thread = row.thread
      /\ Over(row, status).sequence = row.sequence
  BY DEF Over, NoRow
<1>2. /\ Released(row, status).status = status
      /\ Released(row, status).call = row.call
      /\ Released(row, status).thread = row.thread
      /\ Released(row, status).sequence = row.sequence
      /\ Released(row, status).deadline = row.deadline
  BY DEF Released, RequestRow
<1> QED
  BY <1>1, <1>2

LEMMA NoticeEdits ==
  ASSUME NEW row \in NoticeRow
  PROVE  /\ Suppressed(row).status = "suppressed"
         /\ Withdrawn(row) = row \/ Withdrawn(row).status = "suppressed"
         /\ Withdrawn(row).status \notin {"pending", "leased"}
         /\ row.status = "none" => Withdrawn(row) = row /\ Retracted(row) = row /\ SweptNotice(row) = row
         /\ Retracted(row) = row \/ Retracted(row).status = "suppressed"
         /\ Retracted(row).status \notin {"pending", "leased", "attempting"}
         /\ SweptNotice(row) = row \/ SweptNotice(row).status = "unknown"
              \/ (row.status = "leased" /\ SweptNotice(row).status = "pending")
         /\ Released(row, "pending").status = "pending"
<1>1. \A status : NoticeOver(status).status = status
  BY DEF NoticeOver, NoNotice
<1>2. Suppressed(row).status = "suppressed"
  BY <1>1 DEF Suppressed
<1>3. Released(row, "pending").status = "pending"
  BY DEF Released, NoticeRow
<1>4. /\ Withdrawn(row) = row \/ Withdrawn(row).status = "suppressed"
      /\ Withdrawn(row).status \notin {"pending", "leased"}
      /\ row.status = "none" => Withdrawn(row) = row
  BY <1>2 DEF Withdrawn
<1>5. /\ Retracted(row) = row \/ Retracted(row).status = "suppressed"
      /\ Retracted(row).status \notin {"pending", "leased", "attempting"}
      /\ row.status = "none" => Retracted(row) = row
  BY <1>2 DEF Retracted
<1>6. /\ row.status = "none" => SweptNotice(row) = row
      /\ SweptNotice(row) = row \/ SweptNotice(row).status = "unknown"
           \/ (row.status = "leased" /\ SweptNotice(row).status = "pending")
  <2>1. CASE row.status = "attempting" /\ row.lapsed
    BY <1>1, <2>1 DEF SweptNotice
  <2>2. CASE row.status = "leased" /\ row.lapsed
    BY <1>3, <2>2 DEF SweptNotice
  <2>3. CASE ~(row.status = "attempting" /\ row.lapsed) /\ ~(row.status = "leased" /\ row.lapsed)
    BY <2>3 DEF SweptNotice
  <2> QED
    BY <2>1, <2>2, <2>3
<1> QED
  BY <1>2, <1>3, <1>4, <1>5, <1>6

LEMMA ConfirmationEdits == \A status : ConfirmationOver(status).status = status
BY DEF ConfirmationOver, NoConfirmation

\* The statuses of typed rows.
LEMMA RowsTyped ==
  ASSUME TypeInv, NEW r \in Requests
  PROVE  /\ requests[r] \in RequestRow
         /\ notices[r] \in NoticeRow
         /\ confirmations[r] \in ConfirmationRow
         /\ responses[r] \in {"none", "completed", "failed"}
         /\ r \in Nat /\ made \in Nat
BY SMTT(60) DEF TypeInv, TypeOK, Requests

-----------------------------------------------------------------------------
(* The steps that touch no row *)

LEMMA RowsUntouched ==
  ASSUME TypeInv, NEW r \in Requests, RowInv(r),
         UNCHANGED <<requests, confirmations, notices, responses, made>>,
         \/ relationship'.status = relationship.status
         \/ ~Active /\ relationship.status # "revoked"
  PROVE  RowStep(r)
<1>1. RowInv(r)'
  BY DEF RowInv, Active
<1>2. RowKept(r)
  BY RowsTyped DEF RowKept, OpenRequest, RequestRow, OverRequest
<1> QED
  BY <1>1, <1>2 DEF RowStep, Settled, AnsweredBy, NoticeBegins

\* A request that is denied, or that was not open.
LEMMA DeniedEdits ==
  ASSUME NEW row \in RequestRow
  PROVE  /\ row.status \in OpenRequest => Denied(row).status = "denied"
         /\ row.status \notin OpenRequest => Denied(row) = row
         /\ Denied(row).call = row.call
         /\ Denied(row).thread = row.thread
         /\ Denied(row).sequence = row.sequence
         /\ Denied(row).status \notin OpenRequest
<1>1. "denied" \notin OpenRequest
  BY DEF OpenRequest
<1> QED
  BY <1>1, RequestEdits DEF Denied

\* Nothing is answered, and no notice is begun.
LEMMA QuietRow ==
  ASSUME TypeInv, NEW r \in Requests, RowInv(r), RowInv(r)', RowKept(r),
         requests[r].status \in OverRequest => requests'[r].status \in {requests[r].status, "gone"},
         responses'[r] = responses[r] \/ (responses'[r] = "none" /\ requests'[r].status = "gone"),
         notices'[r].status = "attempting" => notices[r].status = "attempting"
  PROVE  RowStep(r)
BY DEF RowStep, Settled, AnsweredBy, NoticeBegins

-----------------------------------------------------------------------------
(* The owners *)

LEMMA RowOfEnding ==
  ASSUME TypeInv, NEW r \in Requests, RowInv(r),
         relationship'.status = "revoked",
         requests'[r] = Denied(requests[r]),
         notices'[r].status \notin {"pending", "leased"},
         notices'[r] = notices[r] \/ notices'[r].status = "suppressed",
         notices[r].status = "none" => notices'[r] = notices[r],
         UNCHANGED <<confirmations, responses, made>>
  PROVE  RowStep(r)
<1>1. requests[r] \in RequestRow
  BY RowsTyped
<1>2. RowInv(r)'
  BY <1>1, DeniedEdits DEF RowInv, OpenRequest, RequestRow, OverRequest
<1>3. RowKept(r)
  BY <1>1, DeniedEdits DEF RowKept, OpenRequest, RequestRow, OverRequest
<1>4. requests[r].status \in OverRequest => requests'[r].status \in {requests[r].status, "gone"}
  BY <1>1, DeniedEdits DEF OpenRequest, OverRequest
<1> QED
  BY <1>2, <1>3, <1>4, QuietRow

LEMMA EndedIsRevoked == ASSUME TypeInv PROVE Ended.status = "revoked"
<1>1. relationship \in RelationshipRow
  BY DEF TypeInv, TypeOK
<1>2. \A n : [relationship EXCEPT !.status = "revoked", !.inviter = Nobody, !.revision = n].status
              = "revoked"
  BY <1>1 DEF RelationshipRow
<1> QED
  BY <1>2 DEF Ended

LEMMA RevokeRow ==
  ASSUME TypeInv, NEW r \in Requests, RowInv(r), NEW o \in Owners, Revoke(o)
  PROVE  RowStep(r)
<1>1. notices[r] \in NoticeRow
  BY RowsTyped
<1>2. requests'[r] = Denied(requests[r]) /\ notices'[r] = Withdrawn(notices[r])
  BY DEF Revoke
<1>3. relationship'.status = "revoked"
  BY EndedIsRevoked DEF Revoke
<1>4. UNCHANGED <<confirmations, responses, made>>
  BY DEF Revoke
<1> QED
  BY <1>1, <1>2, <1>3, <1>4, NoticeEdits, RowOfEnding

LEMMA DeleteOwnerRow ==
  ASSUME TypeInv, NEW r \in Requests, RowInv(r), NEW o \in Owners, DeleteOwner(o)
  PROVE  RowStep(r)
<1>0. UNCHANGED <<confirmations, responses, made>>
  BY DEF DeleteOwner
<1>1. CASE relationship.status = "none"
  BY <1>0, <1>1, RowsUntouched DEF DeleteOwner
<1>2. CASE relationship.status # "none"
  <2>1. notices[r] \in NoticeRow
    BY RowsTyped
  <2>2. requests'[r] = Denied(requests[r])
    BY <1>2 DEF DeleteOwner
  <2>3. notices'[r] = IF notices[r].status = "none" THEN notices[r] ELSE Suppressed(notices[r])
    BY <1>2 DEF DeleteOwner
  <2>4. relationship'.status = "revoked"
    BY <1>2, EndedIsRevoked DEF DeleteOwner
  <2> QED
    BY <1>0, <2>1, <2>2, <2>3, <2>4, NoticeEdits, RowOfEnding
<1> QED
  BY <1>1, <1>2

LEMMA PurgeRow ==
  ASSUME TypeInv, NEW r \in Requests, RowInv(r), NEW o \in Owners, Purge(o)
  PROVE  RowStep(r)
<1>1. PICK cutoff \in {0} \cup Requests :
        /\ cutoff = (IF marks[Other(o)] < made THEN marks[Other(o)] ELSE made)
        /\ requests' = [q \in Requests |-> IF q <= cutoff THEN [NoRow EXCEPT !.status = "gone"]
                                           ELSE requests[q]]
        /\ confirmations' = [q \in Requests |-> IF q <= cutoff THEN NoConfirmation
                                                ELSE confirmations[q]]
        /\ notices' = [q \in Requests |-> IF q <= cutoff THEN NoNotice ELSE notices[q]]
        /\ responses' = [q \in Requests |-> IF q <= cutoff THEN "none" ELSE responses[q]]
  BY DEF Purge
<1>2. UNCHANGED <<relationship, made>>
  BY DEF Purge
<1>3. CASE r <= cutoff
  <2>1. requests'[r].status = "gone"
    BY <1>1, <1>3 DEF NoRow
  <2>2. confirmations'[r].status = "none" /\ notices'[r].status = "none" /\ responses'[r] = "none"
    BY <1>1, <1>3 DEF NoConfirmation, NoNotice
  <2>3. r <= made
    <3>1. Other(o) \in Owners
      BY PeerAssumption DEF Other
    <3>2. cutoff \in Nat /\ made \in Nat /\ marks[Other(o)] \in Nat /\ r \in Nat
      BY <1>1, <3>1 DEF TypeInv, TypeOK, Requests
    <3> QED
      BY <1>1, <1>3, <3>2
  <2>4. RowInv(r)'
    BY <1>2, <2>1, <2>2, <2>3, RowsTyped DEF RowInv
  <2>5. RowKept(r)
    BY <2>1 DEF RowKept, OpenRequest
  <2> QED
    BY <2>1, <2>2, <2>4, <2>5, QuietRow
<1>4. CASE ~(r <= cutoff)
  <2>1. /\ requests'[r] = requests[r] /\ confirmations'[r] = confirmations[r]
        /\ notices'[r] = notices[r] /\ responses'[r] = responses[r]
    BY <1>1, <1>4
  <2>2. RowInv(r)'
    BY <1>2, <2>1 DEF RowInv, Active
  <2>3. RowKept(r)
    BY <2>1, RowsTyped DEF RowKept, OpenRequest, RequestRow, OverRequest
  <2> QED
    BY <2>1, <2>2, <2>3, QuietRow
<1> QED
  BY <1>3, <1>4

-----------------------------------------------------------------------------
(* Confirmations *)

\* The rows of another request.
LEMMA RowSame ==
  ASSUME TypeInv, NEW r \in Requests, RowInv(r),
         requests'[r] = requests[r], confirmations'[r] = confirmations[r],
         notices'[r] = notices[r], responses'[r] = responses[r],
         relationship' = relationship, made' = made
  PROVE  RowStep(r)
<1>1. RowInv(r)'
  BY DEF RowInv, Active
<1>2. RowKept(r)
  BY RowsTyped DEF RowKept, OpenRequest, RequestRow, OverRequest
<1> QED
  BY <1>1, <1>2, QuietRow

\* A pending confirmation is decided.
LEMMA RowOfDecision ==
  ASSUME TypeInv, NEW r \in Requests, RowInv(r),
         confirmations[r].status = "pending", confirmations'[r].status # "pending",
         \/ requests'[r] = Over(requests[r], "denied")
         \/ requests'[r] = Denied(requests[r])
         \/ /\ requests'[r] = [requests[r] EXCEPT !.status = "authorized"]
            /\ confirmations'[r].status = "confirmed" /\ Active,
         notices'[r].status \notin {"pending", "leased"},
         notices'[r] = notices[r] \/ notices'[r].status = "suppressed",
         notices[r].status = "none" => notices'[r] = notices[r],
         UNCHANGED <<relationship, responses, made>>
  PROVE  RowStep(r)
<1>1. requests[r] \in RequestRow
  BY RowsTyped
<1>2. requests[r].status = "confirmation_pending" \/ requests[r].status = "denied"
  BY DEF RowInv
<1>3. CASE requests'[r].status = "denied" /\ requests'[r].call = requests[r].call
           /\ requests'[r].thread = requests[r].thread /\ requests'[r].sequence = requests[r].sequence
  <2>1. RowInv(r)'
    BY <1>2, <1>3 DEF RowInv, Active
  <2>2. RowKept(r)
    BY <1>2, <1>3 DEF RowKept, OpenRequest
  <2>3. requests[r].status \in OverRequest => requests'[r].status \in {requests[r].status, "gone"}
    BY <1>2, <1>3 DEF OverRequest
  <2> QED
    BY <2>1, <2>2, <2>3, QuietRow
<1>4. CASE /\ requests'[r] = [requests[r] EXCEPT !.status = "authorized"]
           /\ confirmations'[r].status = "confirmed" /\ Active
  <2>1. /\ requests'[r].status = "authorized" /\ requests'[r].call = requests[r].call
        /\ requests'[r].thread = requests[r].thread /\ requests'[r].sequence = requests[r].sequence
        /\ requests'[r].deadline = requests[r].deadline
    BY <1>1, <1>4 DEF RequestRow
  <2>2. requests[r].status = "confirmation_pending"
    BY <1>2, <1>4 DEF RowInv, Active
  <2>3. RowInv(r)'
    BY <1>4, <2>1, <2>2 DEF RowInv, Active
  <2>4. RowKept(r)
    BY <2>1, <2>2 DEF RowKept, OpenRequest
  <2> QED
    BY <2>2, <2>3, <2>4, QuietRow DEF OverRequest
<1>5. Denied(requests[r]).status = "denied"
  BY <1>1, <1>2, DeniedEdits DEF OpenRequest
<1> QED
  BY <1>1, <1>3, <1>4, <1>5, RequestEdits, DeniedEdits

LEMMA CancelSupersededRow ==
  ASSUME TypeInv, NEW r \in Requests, RowInv(r), NEW q \in Requests, CancelSuperseded(q),
         UNCHANGED <<relationship, responses, made>>
  PROVE  RowStep(r)
<1>1. CASE confirmations[q].status = "pending" /\ q = r
  <2>1. requests[r] \in RequestRow /\ notices[r] \in NoticeRow
    BY RowsTyped
  <2>2. confirmations'[r].status = "cancelled"
    BY <1>1, ConfirmationEdits DEF CancelSuperseded, TypeInv, TypeOK
  <2>3. notices'[r] = Retracted(notices[r]) /\ requests'[r] = Unconfirmed(r)
    BY <1>1 DEF CancelSuperseded, TypeInv, TypeOK
  <2>4. requests'[r] = Denied(requests[r]) \/ requests'[r] = Over(requests[r], "denied")
    BY <1>1, <2>1, <2>3, DeniedEdits DEF Unconfirmed, RowInv, OpenRequest
  <2>5. /\ notices'[r].status \notin {"pending", "leased"}
        /\ notices'[r] = notices[r] \/ notices'[r].status = "suppressed"
        /\ notices[r].status = "none" => notices'[r] = notices[r]
    BY <2>1, <2>3, NoticeEdits
  <2>6. confirmations'[r].status # "pending"
    BY <2>2
  <2>7. confirmations[r].status = "pending"
    BY <1>1
  <2> QED
    BY <2>4, <2>5, <2>6, <2>7, RowOfDecision
<1>2. CASE ~(confirmations[q].status = "pending" /\ q = r)
  <2>1. /\ requests'[r] = requests[r] /\ confirmations'[r] = confirmations[r]
        /\ notices'[r] = notices[r]
    BY <1>2 DEF CancelSuperseded, TypeInv, TypeOK
  <2> QED
    BY <2>1, RowSame
<1> QED
  BY <1>1, <1>2

LEMMA CheckSourceRow ==
  ASSUME TypeInv, NEW r \in Requests, RowInv(r), NEW c \in Callers, CheckSource(c)
  PROVE  RowStep(r)
<1> DEFINE q == callers[c].request
<1>0. UNCHANGED <<relationship, responses, made>> /\ q \in Requests
  BY DEF CheckSource, TypeInv, CallersHold
<1>1. requests[r] \in RequestRow /\ notices[r] \in NoticeRow
  BY RowsTyped
<1>2. CASE q = r /\ r \in Live /\ Superseded(r) /\ confirmations[r].status = "pending"
  <2>1. confirmations'[r].status = "cancelled"
    BY <1>2, ConfirmationEdits DEF CheckSource, TypeInv, TypeOK
  <2>2. notices'[r] = Retracted(notices[r]) /\ requests'[r] = Denied(requests[r])
    BY <1>2 DEF CheckSource, TypeInv, TypeOK
  <2>3. /\ notices'[r].status \notin {"pending", "leased"}
        /\ notices'[r] = notices[r] \/ notices'[r].status = "suppressed"
        /\ notices[r].status = "none" => notices'[r] = notices[r]
    BY <1>1, <2>2, NoticeEdits
  <2>4. confirmations'[r].status # "pending" /\ confirmations[r].status = "pending"
    BY <1>2, <2>1
  <2> QED
    BY <1>0, <2>2, <2>3, <2>4, RowOfDecision
<1>3. CASE q = r /\ r \in Live /\ Superseded(r) /\ confirmations[r].status # "pending"
  <2>1. requests'[r] = Denied(requests[r]) /\ UNCHANGED <<confirmations, notices>>
    BY <1>3 DEF CheckSource, TypeInv, TypeOK
  <2>2. RowInv(r)'
    BY <1>0, <1>1, <1>3, <2>1, DeniedEdits DEF RowInv, OpenRequest, RequestRow, OverRequest, Active
  <2>3. RowKept(r)
    BY <1>1, <2>1, DeniedEdits DEF RowKept, OpenRequest, RequestRow, OverRequest
  <2>4. requests[r].status \in OverRequest => requests'[r].status \in {requests[r].status, "gone"}
    BY <1>1, <2>1, DeniedEdits DEF OpenRequest, OverRequest
  <2> QED
    BY <1>0, <2>1, <2>2, <2>3, <2>4, QuietRow
<1>4. CASE ~(q = r /\ r \in Live /\ Superseded(r))
  <2>1. /\ requests'[r] = requests[r] /\ confirmations'[r] = confirmations[r]
        /\ notices'[r] = notices[r]
    BY <1>0, <1>4 DEF CheckSource, TypeInv, TypeOK
  <2> QED
    BY <1>0, <2>1, RowSame
<1> QED
  BY <1>2, <1>3, <1>4

LEMMA AnswerRow ==
  ASSUME TypeInv, NEW r \in Requests, RowInv(r),
         NEW c \in Callers, NEW q \in Requests, NEW approve \in BOOLEAN, Answer(c, q, approve)
  PROVE  RowStep(r)
<1>1. UNCHANGED <<relationship, responses, made>>
  BY DEF Answer
<1>2. CancelSuperseded(q) \/ UNCHANGED <<confirmations, notices, requests>>
  BY DEF Answer
<1> QED
  BY <1>1, <1>2, CancelSupersededRow, RowSame

LEMMA DecideConfirmationRow ==
  ASSUME TypeInv, NEW r \in Requests, RowInv(r), NEW c \in Callers, DecideConfirmation(c)
  PROVE  RowStep(r)
<1> DEFINE q == callers[c].request
<1>0. UNCHANGED <<relationship, responses, made>> /\ q \in Requests
  BY DEF DecideConfirmation, TypeInv, CallersHold
<1>1. requests[r] \in RequestRow /\ notices[r] \in NoticeRow
  BY RowsTyped
<1>2. \/ UNCHANGED <<confirmations, notices, requests>>
      \/ confirmations[q].status = "pending" /\ Decided(q, "expired")
      \/ confirmations[q].status = "pending" /\ Decided(q, "cancelled")
      \/ confirmations[q].status = "pending" /\ Active /\ Decided(q, "confirmed")
  BY DEF DecideConfirmation, StillValid
<1>3. ASSUME NEW outcome \in {"expired", "cancelled", "confirmed"},
             confirmations[q].status = "pending", Decided(q, outcome),
             outcome = "confirmed" => Active
      PROVE  RowStep(r)
  <2> HIDE DEF q
  <2>1. CASE q = r
    <3>1. confirmations'[r].status = outcome /\ notices'[r] = Withdrawn(notices[r])
      BY <1>3, <2>1, ConfirmationEdits DEF Decided, TypeInv, TypeOK
    <3>2. requests'[r] = IF outcome = "confirmed" THEN [requests[r] EXCEPT !.status = "authorized"]
                         ELSE Over(requests[r], "denied")
      BY <1>3, <2>1 DEF Decided, TypeInv, TypeOK
    <3> QED
      BY <1>0, <1>1, <1>3, <2>1, <3>1, <3>2, NoticeEdits, RowOfDecision
  <2>2. CASE q # r
    <3>1. /\ requests'[r] = requests[r] /\ confirmations'[r] = confirmations[r]
          /\ notices'[r] = notices[r]
      BY <1>3, <2>2 DEF Decided, TypeInv, TypeOK
    <3> QED
      BY <1>0, <3>1, RowSame
  <2> QED
    BY <2>1, <2>2
<1> QED
  BY <1>0, <1>2, <1>3, RowSame

-----------------------------------------------------------------------------
(* Notices *)

\* Only the notice changes.
LEMMA RowOfNotice ==
  ASSUME TypeInv, NEW r \in Requests, RowInv(r),
         UNCHANGED <<relationship, requests, confirmations, responses, made>>,
         notices[r].status = "none" => notices'[r].status = "none",
         notices'[r].status = "leased" => Active /\ confirmations[r].status = "pending",
         NoticeBegins(r)
  PROVE  RowStep(r)
<1>1. RowInv(r)'
  BY DEF RowInv, Active
<1>2. RowKept(r)
  BY RowsTyped DEF RowKept, OpenRequest, RequestRow, OverRequest
<1> QED
  BY <1>1, <1>2 DEF RowStep, Settled, AnsweredBy

LEMMA ClaimNoticeRow ==
  ASSUME TypeInv, NEW r \in Requests, RowInv(r), NEW w \in Workers, ClaimNotice(w)
  PROVE  RowStep(r)
<1> DEFINE swept == [q \in Requests |-> SweptNotice(notices[q])]
           due == {q \in Requests : swept[q].status = "pending" /\ swept[q].ready}
           Passed(q) == IF q \in due THEN Suppressed(swept[q]) ELSE swept[q]
<1>1. notices[r] \in NoticeRow /\ swept[r] \in NoticeRow
  BY RowsTyped, NoticeEditsType
<1>2. /\ notices[r].status = "none" => swept[r].status = "none"
      /\ swept[r].status = "leased" => notices[r].status = "leased"
      /\ swept[r].status = "attempting" => notices[r].status = "attempting"
  BY <1>1, NoticeEdits
<1>3. \/ notices'[r] = [swept[r] EXCEPT !.status = "leased", !.lapsed = FALSE, !.holder = w]
         /\ r \in due /\ Wanted(r)
      \/ notices'[r] = Passed(r) \/ notices'[r] = swept[r]
  <2>1. CASE \A q \in due : ~Wanted(q)
    <3>1. notices' = [q \in Requests |-> Passed(q)]
      BY Zenon, <2>1 DEF ClaimNotice
    <3> QED
      BY SMTT(60), <3>1
  <2>2. CASE ~(\A q \in due : ~Wanted(q))
    <3>1. PICK n \in due :
            /\ Wanted(n)
            /\ notices' = [q \in Requests |->
                 IF q = n
                 THEN [swept[n] EXCEPT !.status = "leased", !.lapsed = FALSE, !.holder = w]
                 ELSE IF q < n THEN Passed(q) ELSE swept[q]]
      BY Zenon, <2>2 DEF ClaimNotice
    <3> HIDE DEF swept, due, Passed
    <3> QED
      BY <3>1
  <2> QED
    BY <2>1, <2>2
<1>4. /\ Passed(r).status = "suppressed" \/ Passed(r) = swept[r]
      /\ notices[r].status = "none" => r \notin due
  BY SMTT(60), <1>1, <1>2, NoticeEdits
<1>5. UNCHANGED <<relationship, requests, confirmations, responses, made>>
  BY Zenon DEF ClaimNotice
<1> HIDE DEF swept, due, Passed
<1>6. [swept[r] EXCEPT !.status = "leased", !.lapsed = FALSE, !.holder = w].status = "leased"
  BY <1>1 DEF NoticeRow
<1>7. notices[r].status = "none" => notices'[r].status = "none"
  <2>1. SUFFICES ASSUME notices[r].status = "none" PROVE notices'[r].status = "none"
    OBVIOUS
  <2>2. r \notin due /\ Passed(r) = swept[r] /\ swept[r].status = "none"
    <3>1. r \notin due => Passed(r) = swept[r]
      BY DEF Passed
    <3> QED
      BY <1>2, <1>4, <2>1, <3>1
  <2> QED
    BY <1>3, <2>2
<1>8. notices'[r].status = "leased" => Active /\ confirmations[r].status = "pending"
  BY <1>2, <1>3, <1>4 DEF Wanted, RowInv
<1>9. NoticeBegins(r)
  BY <1>2, <1>3, <1>4, <1>6 DEF NoticeBegins
<1> QED
  BY <1>5, <1>7, <1>8, <1>9, RowOfNotice

LEMMA NoticeStepRow ==
  ASSUME TypeInv, NEW r \in Requests, RowInv(r), NEW w \in Workers,
         CheckNotice(w) \/ NoticeUnaddressed(w) \/ BeginNotice(w) \/ ShowNotice(w) \/ CompleteNotice(w)
  PROVE  RowStep(r)
<1> DEFINE q == workers[w].request
<1>0. UNCHANGED <<relationship, responses, made>> /\ q \in Requests
  BY DEF CheckNotice, NoticeUnaddressed, BeginNotice, ShowNotice, CompleteNotice, tables,
         TypeInv, WorkersHold
<1>1. notices[r] \in NoticeRow
  BY RowsTyped
<1>2. CASE CancelSuperseded(q)
  BY <1>0, <1>2, CancelSupersededRow
<1>3. CASE UNCHANGED <<requests, confirmations, notices>>
  BY <1>0, <1>3, RowSame
<1>4. ASSUME UNCHANGED <<requests, confirmations>>, NEW row, notices' = [notices EXCEPT ![q] = row],
             row.status \in {"pending", "sent", "unknown"},
             notices[q].status \in {"leased", "attempting"}
      PROVE  RowStep(r)
  <2>1. CASE q = r
    <3>1. notices'[r].status \in {"pending", "sent", "unknown"} /\ notices[r].status # "none"
      BY <1>4, <2>1 DEF TypeInv, TypeOK
    <3>2. NoticeBegins(r)
      BY <3>1 DEF NoticeBegins
    <3> QED
      BY <1>0, <1>4, <3>1, <3>2, RowOfNotice
  <2>2. CASE q # r
    <3>1. notices'[r] = notices[r]
      BY <1>4, <2>2 DEF TypeInv, TypeOK
    <3> QED
      BY <1>0, <1>4, <3>1, RowSame
  <2> QED
    BY <2>1, <2>2
<1>5. CASE CheckNotice(w) \/ ShowNotice(w)
  BY <1>2, <1>3, <1>5 DEF CheckNotice, ShowNotice, tables
<1>6. CASE NoticeUnaddressed(w)
  <2>1. [Released(notices[q], "pending") EXCEPT !.ready = FALSE].status = "pending"
    <3>1. Released(notices[q], "pending") \in NoticeRow
      BY <1>0, ReleasedNoticeType, RowsTyped
    <3>2. Released(notices[q], "pending").status = "pending"
      BY <1>0, NoticeEdits, RowsTyped
    <3> QED
      BY <3>1, <3>2 DEF NoticeRow
  <2>2. CASE HoldsNotice(w, "leased")
    BY <1>4, <1>6, <2>1, <2>2 DEF NoticeUnaddressed, HoldsNotice
  <2>3. CASE ~HoldsNotice(w, "leased")
    BY <1>3, <1>6, <2>3 DEF NoticeUnaddressed
  <2> QED
    BY <2>2, <2>3
<1>7. CASE CompleteNotice(w)
  <2>1. NoticeOver("sent").status = "sent" /\ NoticeOver("unknown").status = "unknown"
    BY DEF NoticeOver, NoNotice
  <2>2. CASE HoldsNotice(w, "attempting")
    BY <1>4, <1>7, <2>1, <2>2 DEF CompleteNotice, HoldsNotice
  <2>3. CASE ~HoldsNotice(w, "attempting")
    BY <1>3, <1>7, <2>3 DEF CompleteNotice
  <2> QED
    BY <2>2, <2>3
<1>8. CASE BeginNotice(w)
  <2>1. CASE /\ ~Gone(q) /\ ~Superseded(q) /\ HoldsNotice(w, "leased")
             /\ notices' = [notices EXCEPT ![q].status = "attempting"]
             /\ UNCHANGED <<confirmations, requests>>
    <3>1. CASE q = r
      <4>1. notices'[r].status = "attempting"
        BY <1>1, <2>1, <3>1 DEF NoticeRow, TypeInv, TypeOK
      <4>2. notices[r].status = "leased"
        BY <2>1, <3>1 DEF HoldsNotice
      <4>3. Active /\ confirmations[r].status = "pending"
        BY <4>2 DEF RowInv
      <4>4. NoticeBegins(r)
        BY <2>1, <3>1, <4>3 DEF NoticeBegins
      <4> QED
        BY <1>0, <2>1, <4>1, <4>2, <4>4, RowOfNotice
    <3>2. CASE q # r
      <4>1. notices'[r] = notices[r]
        BY <2>1, <3>2 DEF TypeInv, TypeOK
      <4> QED
        BY <1>0, <2>1, <4>1, RowSame
    <3> QED
      BY <3>1, <3>2
  <2> QED
    BY <1>2, <1>3, <1>8, <2>1 DEF BeginNotice
<1> QED
  BY <1>5, <1>6, <1>7, <1>8

-----------------------------------------------------------------------------
(* Workers with a request *)

LEMMA LeasedRowInv ==
  ASSUME NEW r \in Requests, RowInv(r), requests[r].status = "leased"
  PROVE  confirmations[r].status # "pending" /\ responses[r] = "none" /\ ~(r > made)
BY DEF RowInv

LEMMA DenyClaimRow ==
  ASSUME TypeInv, NEW r \in Requests, RowInv(r), NEW w \in Workers, DenyClaim(w)
  PROVE  RowStep(r)
<1> DEFINE q == workers[w].request
<1>0. UNCHANGED <<relationship, confirmations, notices, responses, made>> /\ q \in Requests
  BY DEF DenyClaim, TypeInv, WorkersHold
<1>1. CASE HasToken(w) /\ q = r
  <2>1. requests'[r] = Denied(requests[r]) /\ requests[r].status = "leased"
    BY <1>1 DEF DenyClaim, HasToken, TypeInv, TypeOK
  <2>2. /\ requests'[r].status = "denied" /\ requests'[r].call = requests[r].call
        /\ requests'[r].thread = requests[r].thread /\ requests'[r].sequence = requests[r].sequence
    BY <2>1, DeniedEdits, RowsTyped DEF OpenRequest
  <2>3. RowInv(r)'
    BY <1>0, <2>1, <2>2, LeasedRowInv DEF RowInv, Active
  <2>4. RowKept(r)
    BY <2>1, <2>2 DEF RowKept, OpenRequest
  <2> QED
    BY <1>0, <2>1, <2>3, <2>4, QuietRow DEF OverRequest
<1>2. CASE ~(HasToken(w) /\ q = r)
  <2>1. requests'[r] = requests[r]
    BY <1>2 DEF DenyClaim, TypeInv, TypeOK
  <2> QED
    BY <1>0, <2>1, RowSame
<1> QED
  BY <1>1, <1>2

\* A lease ends with an answer.
LEMMA RowOfResponse ==
  ASSUME TypeInv, NEW r \in Requests, RowInv(r), requests[r].status = "leased",
         UNCHANGED <<relationship, confirmations, notices, made>>,
         NEW outcome \in {"completed", "failed"},
         requests'[r] = Over(requests[r], outcome), responses'[r] = outcome, AnsweredBy(r)
  PROVE  RowStep(r)
<1>1. /\ requests'[r].status = outcome /\ requests'[r].call = requests[r].call
      /\ requests'[r].thread = requests[r].thread /\ requests'[r].sequence = requests[r].sequence
  BY RequestEdits, RowsTyped
<1>2. RowInv(r)'
  BY <1>1, LeasedRowInv DEF RowInv, Active
<1>3. RowKept(r)
  BY <1>1 DEF RowKept, OpenRequest
<1> QED
  BY <1>1, <1>2, <1>3, LeasedRowInv DEF RowStep, Settled, NoticeBegins, OverRequest

LEMMA FinishRow ==
  ASSUME TypeInv, NEW r \in Requests, RowInv(r), NEW w \in Workers, Finish(w)
  PROVE  RowStep(r)
<1> DEFINE q == workers[w].request
           outcome == IF workers[w].pc = "failing" THEN "failed" ELSE "completed"
<1>0. UNCHANGED <<relationship, confirmations, notices, made>> /\ q \in Requests
  BY DEF Finish, TypeInv, WorkersHold
<1>1. CASE Fence(w) /\ q = r
  <2>1. requests'[r] = Over(requests[r], outcome) /\ responses'[r] = outcome
    BY <1>1 DEF Finish, TypeInv, TypeOK
  <2>2. requests[r].status = "leased"
    BY <1>1 DEF Fence, HasToken
  <2>3. AnsweredBy(r)
    BY <1>1, <2>1 DEF AnsweredBy, Finish
  <2> QED
    BY <1>0, <2>1, <2>2, <2>3, RowOfResponse
<1>2. CASE ~(Fence(w) /\ q = r)
  <2>1. requests'[r] = requests[r] /\ responses'[r] = responses[r]
    BY <1>2 DEF Finish, TypeInv, TypeOK
  <2> QED
    BY <1>0, <2>1, RowSame
<1> QED
  BY <1>1, <1>2

LEMMA RequeuedStatus ==
  ASSUME NEW r \in Requests
  PROVE  /\ Requeued(r) \in {"pending", "authorized"}
         /\ Requeued(r) = "authorized" => confirmations[r].status = "confirmed"
BY DEF Requeued

LEMMA DeferRow ==
  ASSUME TypeInv, NEW r \in Requests, RowInv(r), NEW w \in Workers, Defer(w)
  PROVE  RowStep(r)
<1> DEFINE q == workers[w].request
<1>0. UNCHANGED <<relationship, confirmations, notices, made>> /\ q \in Requests
  BY DEF Defer, TypeInv, WorkersHold
<1>1. CASE /\ q = r /\ HasToken(w) /\ requests'[r] = Over(requests[r], "failed")
           /\ responses'[r] = "failed"
  BY <1>0, <1>1, RowOfResponse DEF HasToken, AnsweredBy
<1>2. CASE /\ q = r /\ HasToken(w) /\ responses'[r] = responses[r]
           /\ requests'[r] = [Released(requests[r], Requeued(r)) EXCEPT !.ready = FALSE]
  <2>0. requests[r].status = "leased" /\ requests[r] \in RequestRow
    BY <1>2, RowsTyped DEF HasToken
  <2>1. Released(requests[r], Requeued(r)) \in RequestRow
    BY <2>0, RequeuedStatus, ReleasedRequestType
  <2>2. /\ requests'[r].status = Requeued(r) /\ requests'[r].call = requests[r].call
        /\ requests'[r].thread = requests[r].thread /\ requests'[r].sequence = requests[r].sequence
        /\ requests'[r].deadline = requests[r].deadline
    <3>1. \A row \in RequestRow : LET new == [row EXCEPT !.ready = FALSE] IN
            /\ new.status = row.status /\ new.call = row.call /\ new.thread = row.thread
            /\ new.sequence = row.sequence /\ new.deadline = row.deadline
      BY DEF RequestRow
    <3> QED
      BY <1>2, <2>0, <2>1, <3>1, RequestEdits
  <2>3. RowInv(r)'
    BY <1>0, <1>2, <2>0, <2>2, RequeuedStatus, LeasedRowInv DEF RowInv, Active
  <2>4. RowKept(r)
    BY <2>0, <2>2, RequeuedStatus DEF RowKept, OpenRequest
  <2> QED
    BY <1>0, <1>2, <2>0, <2>3, <2>4, QuietRow DEF OverRequest
<1>3. CASE requests'[r] = requests[r] /\ responses'[r] = responses[r]
  BY <1>0, <1>3, RowSame
<1>4. CASE q = r
  BY <1>1, <1>2, <1>3, <1>4 DEF Defer, TypeInv, TypeOK
<1>5. CASE q # r
  <2>1. requests'[r] = requests[r] /\ responses'[r] = responses[r]
    BY <1>5 DEF Defer, TypeInv, TypeOK
  <2> QED
    BY <1>3, <2>1
<1> QED
  BY <1>4, <1>5

\* Time.
LEMMA LapseRow ==
  ASSUME TypeInv, NEW r \in Requests, RowInv(r),
         \/ \E t \in Threads : ThreadLapses(t)
         \/ \E q \in Requests : \/ LeaseLapses(q) \/ DeadlinePasses(q) \/ RequestReady(q)
                                \/ NoticeLeaseLapses(q) \/ NoticeReady(q) \/ ConfirmationLapses(q)
  PROVE  RowStep(r)
<1> USE DEF NoticeBecomes, RequestBecomes
<1>0. UNCHANGED <<relationship, responses, made>>
  BY DEF ThreadLapses, LeaseLapses, DeadlinePasses, RequestReady, NoticeLeaseLapses, NoticeReady,
         ConfirmationLapses
<1>1. \/ requests'[r] = requests[r]
      \/ /\ requests[r].deadline = "running"
         /\ requests'[r] = [requests[r] EXCEPT !.deadline = "passed"]
      \/ requests'[r] = [requests[r] EXCEPT !.lapsed = TRUE]
      \/ requests'[r] = [requests[r] EXCEPT !.ready = TRUE]
  BY ZenonT(60) DEF ThreadLapses, LeaseLapses, DeadlinePasses, RequestReady, NoticeLeaseLapses, NoticeReady,
         ConfirmationLapses, TypeInv, TypeOK
<1>2. \/ notices'[r] = notices[r]
      \/ notices'[r] = [notices[r] EXCEPT !.lapsed = TRUE]
      \/ notices'[r] = [notices[r] EXCEPT !.ready = TRUE]
  BY ZenonT(60) DEF ThreadLapses, LeaseLapses, DeadlinePasses, RequestReady, NoticeLeaseLapses, NoticeReady,
         ConfirmationLapses, TypeInv, TypeOK
<1>3. \/ confirmations'[r] = confirmations[r]
      \/ confirmations'[r] = [confirmations[r] EXCEPT !.lapsed = TRUE]
  BY ZenonT(60) DEF ThreadLapses, LeaseLapses, DeadlinePasses, RequestReady, NoticeLeaseLapses, NoticeReady,
         ConfirmationLapses, TypeInv, TypeOK
<1>4. /\ requests'[r].status = requests[r].status /\ requests'[r].call = requests[r].call
      /\ requests'[r].thread = requests[r].thread /\ requests'[r].sequence = requests[r].sequence
      /\ requests'[r].holder = requests[r].holder
      /\ requests'[r].deadline = "none" <=> requests[r].deadline = "none"
  BY <1>1, RowsTyped DEF RequestRow
<1>5. notices'[r].status = notices[r].status
  BY <1>2, RowsTyped DEF NoticeRow
<1>6. confirmations'[r].status = confirmations[r].status
  BY <1>3, RowsTyped DEF ConfirmationRow
<1>7. RowInv(r)'
  BY <1>0, <1>4, <1>5, <1>6 DEF RowInv, Active
<1>8. RowKept(r)
  BY <1>4, <1>6, RowsTyped DEF RowKept, OpenRequest, OverRequest, RequestRow
<1> QED
  BY <1>0, <1>4, <1>5, <1>7, <1>8, QuietRow

-----------------------------------------------------------------------------
(* The making and the claiming of a request *)

\* What every step does to a row.
RowSafe(r) == RowInv(r)' /\ Settled(r) /\ AnsweredBy(r) /\ NoticeBegins(r)

LEMMA StoreRequestRow ==
  ASSUME TypeInv, NEW r \in Requests, RowInv(r), NEW c \in Callers, StoreRequest(c), Submit(c)
  PROVE  /\ RowSafe(r)
         /\ r # made + 1 => requests'[r] = requests[r] /\ confirmations'[r] = confirmations[r]
         /\ r = made + 1 => /\ requests'[r].status \in {"pending", "confirmation_pending"}
                            /\ requests'[r].deadline = "none"
                            /\ requests'[r].thread = callers[c].thread
                            /\ requests'[r].sequence = threads[callers[c].thread].count + 1
<1>0. /\ UNCHANGED <<relationship, responses>>
      /\ made' = made + 1 /\ made + 1 \in Requests /\ made \in Nat /\ r \in Nat
  BY RowsTyped, PeerAssumption DEF StoreRequest, Submit, TypeInv, TypeOK, Requests
<1>1. CASE r = made + 1
  <2>1. requests[r].status = "none" /\ notices[r].status = "none" /\ responses[r] = "none"
    BY <1>0, <1>1 DEF RowInv
  <2>2. /\ requests'[r].status = IF callers[c].confirm THEN "confirmation_pending" ELSE "pending"
        /\ requests'[r].deadline = "none"
        /\ requests'[r].thread = callers[c].thread
        /\ requests'[r].sequence = threads[callers[c].thread].count + 1
    BY <1>0, <1>1 DEF StoreRequest, NoRow, TypeInv, TypeOK
  <2>3. CASE callers[c].confirm
    <3>1. confirmations'[r].status = "pending" /\ notices'[r].status = "pending"
      <4>1. [NoNotice EXCEPT !.status = "pending", !.ready = TRUE].status = "pending"
        BY DEF NoNotice
      <4>2. notices'[r] = [NoNotice EXCEPT !.status = "pending", !.ready = TRUE]
        BY <1>1, <2>3 DEF StoreRequest, TypeInv, TypeOK
      <4>3. confirmations'[r] = [status |-> "pending", lapsed |-> FALSE,
                                 revision |-> relationship.revision, granted |-> Granted]
        BY <1>1, <2>3 DEF StoreRequest, TypeInv, TypeOK
      <4> QED
        BY <4>1, <4>2, <4>3
    <3>2. RowInv(r)'
      BY <1>0, <1>1, <2>1, <2>2, <2>3, <3>1 DEF RowInv
    <3> QED
      BY <1>0, <1>1, <2>1, <2>2, <3>1, <3>2 DEF RowSafe, Settled, AnsweredBy, NoticeBegins, OverRequest
  <2>4. CASE ~callers[c].confirm
    <3>1. confirmations'[r] = confirmations[r] /\ notices'[r] = notices[r]
      BY <2>4 DEF StoreRequest
    <3>2. RowInv(r)'
      BY <1>0, <1>1, <2>1, <2>2, <2>4, <3>1 DEF RowInv
    <3> QED
      BY <1>0, <1>1, <2>1, <2>2, <3>1, <3>2 DEF RowSafe, Settled, AnsweredBy, NoticeBegins, OverRequest
  <2> QED
    BY <2>3, <2>4
<1>2. CASE r # made + 1
  <2>1. /\ requests'[r] = requests[r] /\ confirmations'[r] = confirmations[r]
        /\ notices'[r] = notices[r]
    BY <1>2 DEF StoreRequest, TypeInv, TypeOK
  <2>2. RowInv(r)'
    BY <1>0, <2>1 DEF RowInv, Active
  <2> QED
    BY <1>0, <1>2, <2>1, <2>2 DEF RowSafe, Settled, AnsweredBy, NoticeBegins
<1> QED
  BY <1>1, <1>2

\* A claim fails what is out of time and takes back what has lapsed.
LEMMA SweptFacts ==
  ASSUME TypeInv, NEW r \in Requests, RowInv(r)
  PROVE  /\ Swept(r).call = requests[r].call
         /\ Swept(r).thread = requests[r].thread
         /\ Swept(r).sequence = requests[r].sequence
         /\ \/ /\ Swept(r) = requests[r]
               /\ SweptResponse(r) = responses[r]
            \/ /\ Swept(r).status = "failed"
               /\ SweptResponse(r) = "failed" /\ responses[r] = "none"
               /\ requests[r].status \in {"pending", "authorized", "leased"}
               /\ requests[r].status = "leased" \/ requests[r].deadline # "none"
            \/ /\ Swept(r).status = Requeued(r)
               /\ Swept(r).deadline = requests[r].deadline
               /\ requests[r].status = "leased"
               /\ SweptResponse(r) = responses[r]
<1>1. requests[r] \in RequestRow
  BY RowsTyped
<1>2. CASE OutOfTime(requests[r])
  <2>1. Swept(r) = Over(requests[r], "failed")
    BY <1>2 DEF Swept
  <2>2. /\ requests[r].status \in {"pending", "authorized", "leased"}
        /\ requests[r].status = "leased" \/ requests[r].deadline # "none"
    BY <1>2 DEF OutOfTime
  <2>3. responses[r] = "none"
    BY <2>2 DEF RowInv
  <2>4. SweptResponse(r) = "failed"
    BY <1>2, <2>3 DEF SweptResponse
  <2> QED
    BY <1>1, <2>1, <2>2, <2>3, <2>4, RequestEdits
<1>3. CASE ~OutOfTime(requests[r])
  <2>1. SweptResponse(r) = responses[r]
    BY <1>3 DEF SweptResponse
  <2>2. CASE requests[r].status = "leased" /\ requests[r].lapsed
    <3>1. Swept(r) = Released(requests[r], Requeued(r))
      BY <1>3, <2>2 DEF Swept
    <3> QED
      BY <1>1, <2>1, <2>2, <3>1, RequestEdits
  <2>3. CASE ~(requests[r].status = "leased" /\ requests[r].lapsed)
    <3>1. Swept(r) = requests[r]
      BY <1>3, <2>3 DEF Swept
    <3> QED
      BY <2>1, <3>1
  <2> QED
    BY <2>2, <2>3
<1> QED
  BY <1>2, <1>3

\* A claim: the request that is claimed, those that are denied, and the rest.
LEMMA ClaimCases ==
  ASSUME TypeInv, NEW r \in Requests, NEW w \in Workers, ClaimRequest(w)
  PROVE  /\ responses'[r] = SweptResponse(r)
         /\ \/ requests'[r] = Swept(r)
            \/ /\ Swept(r).status \in {"pending", "authorized"}
               /\ requests'[r] = Over(Swept(r), "denied")
            \/ /\ Swept(r).status \in {"pending", "authorized"}
               /\ EarlierAreOver([q \in Requests |-> Swept(q)], r)
               /\ requests'[r] = LeasedTo(w, Swept(r))
               /\ workers' = [workers EXCEPT ![w] =
                    [pc |-> IF Allows(Swept(r).call, Swept(r).status) THEN "claimed" ELSE "refused",
                     request |-> r, revision |-> relationship.revision, granted |-> Granted]]
         /\ \/ workers' = [workers EXCEPT ![w] = IdleWorker]
            \/ \E n \in Requests :
                 /\ workers' = [workers EXCEPT ![w] =
                      [pc |-> IF Allows(Swept(n).call, Swept(n).status) THEN "claimed" ELSE "refused",
                       request |-> n, revision |-> relationship.revision, granted |-> Granted]]
                 /\ requests'[n] = LeasedTo(w, Swept(n))
                 /\ Swept(n).status \in {"pending", "authorized"}
<1> DEFINE rows == [q \in Requests |-> Swept(q)]
           queue == {q \in Requests : Queued(rows, q)}
           Passed(q) == IF q \in queue THEN Over(rows[q], "denied") ELSE rows[q]
<1>1. responses'[r] = SweptResponse(r)
  BY DEF ClaimRequest
<1>2. \A q \in queue : /\ q \in Requests /\ rows[q].status \in {"pending", "authorized"}
                       /\ EarlierAreOver(rows, q)
  BY DEF Queued
<1>3. \A q \in Requests : rows[q] = Swept(q)
  OBVIOUS
<1>4. \/ \E n \in queue :
           /\ requests' = [q \in Requests |-> IF q = n THEN LeasedTo(w, rows[n])
                                              ELSE IF q < n THEN Passed(q) ELSE rows[q]]
           /\ workers' = [workers EXCEPT ![w] =
                [pc |-> IF Allows(rows[n].call, rows[n].status) THEN "claimed" ELSE "refused",
                 request |-> n, revision |-> relationship.revision, granted |-> Granted]]
      \/ /\ requests' = [q \in Requests |-> Passed(q)]
         /\ workers' = [workers EXCEPT ![w] = IdleWorker]
  BY DEF ClaimRequest
<1>5. Passed(r) = rows[r] \/ (r \in queue /\ Passed(r) = Over(rows[r], "denied"))
  OBVIOUS
<1>6. CASE requests' = [q \in Requests |-> Passed(q)] /\ workers' = [workers EXCEPT ![w] = IdleWorker]
  <2>1. requests'[r] = Passed(r)
    BY <1>6
  <2> HIDE DEF rows, queue, Passed
  <2> QED
    BY <1>1, <1>2, <1>3, <1>5, <1>6, <2>1
<1>7. ASSUME NEW n \in queue,
             requests' = [q \in Requests |-> IF q = n THEN LeasedTo(w, rows[n])
                                             ELSE IF q < n THEN Passed(q) ELSE rows[q]],
             workers' = [workers EXCEPT ![w] =
                [pc |-> IF Allows(rows[n].call, rows[n].status) THEN "claimed" ELSE "refused",
                 request |-> n, revision |-> relationship.revision, granted |-> Granted]]
      PROVE  /\ \/ requests'[r] = Swept(r)
                \/ /\ Swept(r).status \in {"pending", "authorized"}
                   /\ requests'[r] = Over(Swept(r), "denied")
                \/ /\ Swept(r).status \in {"pending", "authorized"}
                   /\ EarlierAreOver(rows, r)
                   /\ requests'[r] = LeasedTo(w, Swept(r))
                   /\ n = r
             /\ requests'[n] = LeasedTo(w, Swept(n))
             /\ Swept(n).status \in {"pending", "authorized"}
             /\ n \in Requests
  <2>1. n \in Requests /\ rows[n] = Swept(n) /\ rows[r] = Swept(r)
    BY <1>2, <1>3
  <2> HIDE DEF rows, queue, Passed
  <2>2. requests'[n] = LeasedTo(w, Swept(n)) /\ Swept(n).status \in {"pending", "authorized"}
    BY <1>2, <1>7, <2>1
  <2>3. CASE n = r
    BY <1>2, <2>1, <2>2, <2>3
  <2>4. CASE n # r
    <3>1. requests'[r] = Passed(r) \/ requests'[r] = rows[r]
      BY <1>7, <2>4
    <3> QED
      BY <1>2, <1>5, <2>1, <2>2, <3>1
  <2> QED
    BY <2>3, <2>4
<1>8. CASE \E n \in queue :
           /\ requests' = [q \in Requests |-> IF q = n THEN LeasedTo(w, rows[n])
                                              ELSE IF q < n THEN Passed(q) ELSE rows[q]]
           /\ workers' = [workers EXCEPT ![w] =
                [pc |-> IF Allows(rows[n].call, rows[n].status) THEN "claimed" ELSE "refused",
                 request |-> n, revision |-> relationship.revision, granted |-> Granted]]
  <2>1. PICK n \in queue :
           /\ requests' = [q \in Requests |-> IF q = n THEN LeasedTo(w, rows[n])
                                              ELSE IF q < n THEN Passed(q) ELSE rows[q]]
           /\ workers' = [workers EXCEPT ![w] =
                [pc |-> IF Allows(rows[n].call, rows[n].status) THEN "claimed" ELSE "refused",
                 request |-> n, revision |-> relationship.revision, granted |-> Granted]]
    BY <1>8
  <2>2. n \in Requests /\ rows[n] = Swept(n)
    BY <1>2, <1>3
  <2>3. workers' = [workers EXCEPT ![w] =
          [pc |-> IF Allows(Swept(n).call, Swept(n).status) THEN "claimed" ELSE "refused",
           request |-> n, revision |-> relationship.revision, granted |-> Granted]]
    BY <2>1, <2>2
  <2>4. /\ \/ requests'[r] = Swept(r)
           \/ /\ Swept(r).status \in {"pending", "authorized"}
              /\ requests'[r] = Over(Swept(r), "denied")
           \/ /\ Swept(r).status \in {"pending", "authorized"}
              /\ EarlierAreOver(rows, r)
              /\ requests'[r] = LeasedTo(w, Swept(r))
              /\ n = r
        /\ requests'[n] = LeasedTo(w, Swept(n))
        /\ Swept(n).status \in {"pending", "authorized"}
    BY <1>7, <2>1
  <2> QED
    BY <1>1, <2>2, <2>3, <2>4
<1> QED
  BY <1>4, <1>6, <1>8

LEMMA ClaimRequestRow ==
  ASSUME TypeInv, NEW r \in Requests, RowInv(r), NEW w \in Workers, ClaimRequest(w)
  PROVE  RowSafe(r)
<1>0. UNCHANGED <<relationship, confirmations, notices, made>>
  BY DEF ClaimRequest
<1>1. Swept(r) \in RequestRow
  BY SweptType DEF TypeInv
<1>2. Over(Swept(r), "denied").status = "denied"
  BY <1>1, RequestEdits
<1>3. LeasedTo(w, Swept(r)).status = "leased"
  BY <1>1 DEF LeasedTo, RequestRow
<1>4. /\ responses'[r] = SweptResponse(r)
      /\ \/ requests'[r] = Swept(r)
         \/ /\ Swept(r).status \in {"pending", "authorized"}
            /\ requests'[r].status \in {"denied", "leased"}
  BY <1>2, <1>3, ClaimCases
<1>5. RowInv(r)'
  BY <1>0, <1>4, SweptFacts, RequeuedStatus DEF RowInv, Active
<1>6. Settled(r)
  BY <1>4, SweptFacts, RequeuedStatus DEF Settled, OverRequest, RowInv
<1>7. AnsweredBy(r)
  BY <1>4, SweptFacts DEF AnsweredBy
<1> QED
  BY <1>0, <1>5, <1>6, <1>7 DEF RowSafe, NoticeBegins

-----------------------------------------------------------------------------
(* Every step *)

RowsInv == \A r \in Requests : RowInv(r)

LEMMA StepCases ==
  ASSUME TypeInv, RowsInv, [Next]_vars
  PROVE  \/ \A r \in Requests : RowStep(r)
         \/ \E c \in Callers : StoreRequest(c) /\ Submit(c)
         \/ \E w \in Workers : ClaimRequest(w)
<1>0. \A r \in Requests : RowInv(r)
  BY DEF RowsInv
<1>1. ASSUME NEW o \in Owners, OwnerStep(o) PROVE \A r \in Requests : RowStep(r)
  <2>1. TAKE r \in Requests
  <2>2. CASE Revoke(o) \/ DeleteOwner(o) \/ Purge(o)
    BY <1>0, <2>2, RevokeRow, DeleteOwnerRow, PurgeRow
  <2>3. CASE Invite(o) \/ Accept(o)
    <3>1. UNCHANGED <<requests, confirmations, notices, responses, made>>
          /\ ~Active /\ relationship.status # "revoked"
      BY <2>3 DEF Invite, Accept, Active
    <3> QED
      BY <1>0, <3>1, RowsUntouched
  <2>4. CASE GrantLapses(o) \/ \E offer \in OffersOf[o] : UpdateGrant(o, offer)
    <3>1. UNCHANGED <<relationship, requests, confirmations, notices, responses, made>>
      BY <2>4 DEF GrantLapses, UpdateGrant
    <3> QED
      BY <1>0, <3>1, RowSame
  <2> QED
    BY <1>1, <2>2, <2>3, <2>4 DEF OwnerStep
<1>2. ASSUME NEW c \in Callers, CallerStep(c), ~(StoreRequest(c) /\ Submit(c))
      PROVE  \A r \in Requests : RowStep(r)
  <2>1. TAKE r \in Requests
  <2>2. CASE CheckSource(c) \/ DecideConfirmation(c)
             \/ \E q \in Requests, approve \in BOOLEAN : Answer(c, q, approve)
    BY SMTT(60), <1>0, <2>2, CheckSourceRow, DecideConfirmationRow, AnswerRow
  <2>3. CASE Submit(c) \/ \E k \in Calls, t \in Threads : Ask(c, k, t)
    <3>1. UNCHANGED <<relationship, requests, confirmations, notices, responses, made>>
      BY Zenon, <1>2, <2>3 DEF Submit, Ask, tables
    <3> QED
      BY <1>0, <3>1, RowSame
  <2> QED
    BY <1>2, <2>2, <2>3 DEF CallerStep
<1>3. ASSUME NEW w \in Workers, Notify(w) \/ Execute(w) \/ Crash(w), ~ClaimRequest(w)
      PROVE  \A r \in Requests : RowStep(r)
  <2>1. TAKE r \in Requests
  <2>2. CASE Notify(w)
    BY <1>0, <2>2, ClaimNoticeRow, NoticeStepRow DEF Notify
  <2>3. CASE DenyClaim(w) \/ Finish(w) \/ Defer(w)
    BY <1>0, <2>3, DenyClaimRow, FinishRow, DeferRow
  <2>4. CASE CheckClaim(w) \/ BeginExecution(w) \/ RequestUnaddressed(w) \/ EndExecution(w) \/ Crash(w)
    <3>1. UNCHANGED tables
      BY <2>4 DEF CheckClaim, BeginExecution, RequestUnaddressed, EndExecution, Crash
    <3> QED
      BY <1>0, <3>1, RowSame DEF tables
  <2> QED
    BY <1>3, <2>2, <2>3, <2>4 DEF Execute
<1>4. ASSUME UNCHANGED vars \/ \E g \in Sources : Supersede(g)
      PROVE  \A r \in Requests : RowStep(r)
  <2>1. UNCHANGED tables
    BY <1>4 DEF Supersede, vars
  <2> QED
    BY <1>0, <2>1, RowSame DEF tables
<1>5. ASSUME \/ \E t \in Threads : ThreadLapses(t)
             \/ \E q \in Requests : \/ LeaseLapses(q) \/ DeadlinePasses(q) \/ RequestReady(q)
                                    \/ NoticeLeaseLapses(q) \/ NoticeReady(q) \/ ConfirmationLapses(q)
      PROVE  \A r \in Requests : RowStep(r)
  BY <1>0, <1>5, LapseRow
<1> QED
  BY <1>1, <1>2, <1>3, <1>4, <1>5 DEF Next

LEMMA EveryRowSafe ==
  ASSUME TypeInv, RowsInv, [Next]_vars
  PROVE  \A r \in Requests : RowSafe(r)
<1> TAKE r \in Requests
<1>1. RowStep(r) => RowSafe(r)
  BY DEF RowStep, RowSafe
<1> QED
  BY <1>1, StepCases, StoreRequestRow, ClaimRequestRow DEF RowsInv

LEMMA InitRowsInv == Init => RowsInv
<1> SUFFICES ASSUME Init, NEW r \in Requests PROVE RowInv(r)
  BY DEF RowsInv
<1> QED
  BY DEF Init, RowInv, NoRow, NoConfirmation, NoNotice

LEMMA RowsInvHolds == Spec => [](TypeInv /\ RowsInv)
<1>1. TypeInv /\ RowsInv /\ [Next]_vars => RowsInv'
  <2> SUFFICES ASSUME TypeInv, RowsInv, [Next]_vars PROVE \A r \in Requests : RowInv(r)'
    BY DEF RowsInv
  <2> QED
    BY EveryRowSafe DEF RowSafe
<1> QED
  BY <1>1, InitTypeInv, StepTypeInv, InitRowsInv, PTL DEF Spec

\* A request that waits for a decision has one to wait for, however the
\* owners, the superseding of generations and the lapse of time interleave.
THEOREM EveryWaitHasDecision == Spec => []WaitsForDecision
<1>1. RowsInv => WaitsForDecision
  BY DEF RowsInv, RowInv, WaitsForDecision
<1> QED
  BY <1>1, RowsInvHolds, PTL

\* The response of a request and its status always agree.
THEOREM EveryResponseMatches == Spec => []ResponseMatches
<1>1. RowsInv => ResponseMatches
  BY DEF RowsInv, RowInv, ResponseMatches
<1> QED
  BY <1>1, RowsInvHolds, PTL

\* Nothing that is settled is taken up again, by any number of workers and with
\* answers as late as may be.
THEOREM EverySettledStays == Spec => SettledStays
<1>1. TypeInv /\ RowsInv /\ [Next]_vars =>
        [\A r \in Requests :
           /\ requests[r].status \in OverRequest =>
                requests'[r].status \in {requests[r].status, "gone"}
           /\ responses[r] # "none" /\ requests'[r].status # "gone" => responses'[r] = responses[r]]_vars
  BY EveryRowSafe DEF RowSafe, Settled
<1> QED
  BY <1>1, RowsInvHolds, PTL DEF Spec, SettledStays

\* No notice is begun for a question that is not open.
THEOREM EveryNoticeIsWanted == Spec => NoticeIsWanted
<1>1. TypeInv /\ RowsInv /\ [Next]_vars =>
        [\A r \in Requests :
           notices'[r].status = "attempting" /\ notices[r].status # "attempting" =>
             Active /\ confirmations[r].status = "pending" /\ ~Superseded(r)]_vars
  BY EveryRowSafe DEF RowSafe, NoticeBegins
<1> QED
  BY <1>1, RowsInvHolds, PTL DEF Spec, NoticeIsWanted

-----------------------------------------------------------------------------
(* The order of a thread *)

\* A request that has been claimed before, or was answered.
Begun(r) ==
  \/ requests[r].status \in {"leased", "completed", "failed"}
  \/ requests[r].status \in OpenRequest /\ requests[r].deadline # "none"

InOrder(q, r) ==
  /\ requests[q].status \in OpenRequest
  /\ Begun(r)
  /\ requests[q].thread = requests[r].thread
  => requests[q].sequence >= requests[r].sequence

\* A thread has counted its requests.
Counted(r) ==
  requests[r].status \notin {"none", "gone"} =>
    requests[r].sequence <= threads[requests[r].thread].count

\* A request is begun only as the first of its thread that is open, and those
\* that are made later come later: that is why a request put back after a
\* failure, or failed for want of time, is still the first.
OrderInv ==
  /\ \A q, r \in Requests : InOrder(q, r)
  /\ \A r \in Requests : Counted(r)

LEMMA PlacesTyped ==
  ASSUME TypeInv, NEW r \in Requests
  PROVE  /\ requests[r].thread \in Threads
         /\ requests[r].sequence \in Nat
         /\ threads[requests[r].thread].count \in Nat
BY RowsTyped DEF TypeInv, TypeOK, RequestRow, ThreadRow

\* The threads count requests when they are made, and only then.
LEMMA CountsKept ==
  ASSUME TypeInv, [Next]_vars, ~\E c \in Callers : StoreRequest(c) /\ Submit(c), NEW t \in Threads
  PROVE  threads'[t].count = threads[t].count
<1>1. \/ threads' = threads
      \/ \E u \in Threads : threads' = [threads EXCEPT ![u].lapsed = TRUE]
  <2>1. ASSUME NEW o \in Owners, OwnerStep(o) PROVE threads' = threads
    BY SMTT(60), <2>1 DEF OwnerStep, Invite, Accept, Revoke, DeleteOwner, Purge, GrantLapses, UpdateGrant
  <2>2. ASSUME NEW c \in Callers, CallerStep(c), ~(StoreRequest(c) /\ Submit(c))
        PROVE  threads' = threads
    BY ZenonT(60), <2>2 DEF CallerStep, Ask, Submit, CheckSource, Answer, DecideConfirmation, tables
  <2>3. ASSUME NEW w \in Workers, Notify(w) PROVE threads' = threads
    BY Zenon, <2>3 DEF Notify, ClaimNotice, CheckNotice, NoticeUnaddressed, BeginNotice, ShowNotice,
                CompleteNotice, tables
  <2>4. ASSUME NEW w \in Workers, Execute(w) \/ Crash(w) PROVE threads' = threads
    BY <2>4 DEF Execute, ClaimRequest, DenyClaim, CheckClaim, BeginExecution, RequestUnaddressed,
                EndExecution, Finish, Defer, Crash, tables
  <2>5. ASSUME UNCHANGED vars \/ \E g \in Sources : Supersede(g) PROVE threads' = threads
    BY <2>5 DEF Supersede, vars, tables
  <2>6. ASSUME NEW r \in Requests,
               \/ LeaseLapses(r) \/ DeadlinePasses(r) \/ RequestReady(r)
               \/ NoticeLeaseLapses(r) \/ NoticeReady(r) \/ ConfirmationLapses(r)
        PROVE  threads' = threads
    BY <2>6 DEF LeaseLapses, DeadlinePasses, RequestReady, NoticeLeaseLapses, NoticeReady,
                ConfirmationLapses, RequestBecomes, NoticeBecomes
  <2>7. ASSUME NEW u \in Threads, ThreadLapses(u)
        PROVE  threads' = [threads EXCEPT ![u].lapsed = TRUE]
    BY <2>7 DEF ThreadLapses
  <2> QED
    BY <2>1, <2>2, <2>3, <2>4, <2>5, <2>6, <2>7 DEF Next
<1> QED
  BY <1>1 DEF TypeInv, TypeOK, ThreadRow

LEMMA OrderOfKept ==
  ASSUME TypeInv, TypeInv', OrderInv, \A r \in Requests : RowKept(r),
         \A t \in Threads : threads'[t].count = threads[t].count
  PROVE  OrderInv'
<1>1. ASSUME NEW r \in Requests, Begun(r)'
      PROVE  Begun(r) /\ requests'[r].thread = requests[r].thread
             /\ requests'[r].sequence = requests[r].sequence
  BY <1>1 DEF RowKept, Begun, OpenRequest
<1>2. ASSUME NEW q \in Requests, requests'[q].status \in OpenRequest
      PROVE  requests[q].status \in OpenRequest /\ requests'[q].thread = requests[q].thread
             /\ requests'[q].sequence = requests[q].sequence
  BY <1>2 DEF RowKept, OpenRequest
<1>3. ASSUME NEW q \in Requests, NEW r \in Requests PROVE InOrder(q, r)'
  BY <1>1, <1>2 DEF OrderInv, InOrder
<1>4. ASSUME NEW r \in Requests PROVE Counted(r)'
  <2> SUFFICES ASSUME requests'[r].status \notin {"none", "gone"}
               PROVE  requests'[r].sequence <= threads'[requests'[r].thread].count
    BY DEF Counted
  <2>1. /\ requests[r].status \notin {"none", "gone"} /\ requests'[r].thread = requests[r].thread
        /\ requests'[r].sequence = requests[r].sequence
    BY DEF RowKept
  <2>2. requests[r].thread \in Threads
    BY PlacesTyped
  <2> QED
    BY <2>1, <2>2 DEF OrderInv, Counted
<1> QED
  BY <1>3, <1>4 DEF OrderInv

LEMMA OrderOfStore ==
  ASSUME TypeInv, RowsInv, OrderInv, NEW c \in Callers, StoreRequest(c), Submit(c)
  PROVE  OrderInv'
<1> DEFINE t == callers[c].thread
           n == made + 1
<1>1. t \in Threads /\ n \in Requests
  BY PeerAssumption DEF StoreRequest, TypeInv, TypeOK, Caller, Requests
<1>2. \A r \in Requests : r # n => requests'[r] = requests[r]
  BY StoreRequestRow DEF RowsInv
<1>3. /\ requests'[n].status \in {"pending", "confirmation_pending"}
      /\ requests'[n].deadline = "none"
      /\ requests'[n].thread = t
      /\ requests'[n].sequence = threads[t].count + 1
  BY <1>1, StoreRequestRow DEF RowsInv
<1>4. threads'[t].count = threads[t].count + 1
      /\ \A u \in Threads : u # t => threads'[u] = threads[u]
  <2>1. threads[t] \in ThreadRow
    BY <1>1 DEF TypeInv, TypeOK
  <2>2. \A o, m : [threads[t] EXCEPT !.sender = o, !.count = m].count = m
    BY <2>1 DEF ThreadRow
  <2>3. threads' = [threads EXCEPT ![t] = [threads[t] EXCEPT !.sender = SenderOf[callers[c].call],
                                                              !.count = threads[t].count + 1]]
    BY DEF StoreRequest
  <2> HIDE DEF t
  <2> QED
    BY <1>1, <2>2, <2>3 DEF TypeInv, TypeOK
<1> HIDE DEF t, n
<1>5. ASSUME NEW r \in Requests, Begun(r)' PROVE r # n /\ Begun(r)
  BY <1>2, <1>3, <1>5 DEF Begun
<1>6. ASSUME NEW q \in Requests, NEW r \in Requests PROVE InOrder(q, r)'
  <2> SUFFICES ASSUME requests'[q].status \in OpenRequest, Begun(r)',
                      requests'[q].thread = requests'[r].thread
               PROVE  requests'[q].sequence >= requests'[r].sequence
    BY DEF InOrder
  <2>1. r # n /\ Begun(r) /\ requests'[r] = requests[r]
    BY <1>2, <1>5
  <2>2. CASE q = n
    <3>1. requests[r].status \notin {"none", "gone"} /\ requests[r].thread = t
      BY <1>3, <2>1, <2>2 DEF Begun, OpenRequest
    <3>2. requests[r].sequence <= threads[t].count
      BY <3>1 DEF OrderInv, Counted
    <3>3. requests[r].sequence \in Nat /\ threads[t].count \in Nat
      BY <3>1, PlacesTyped
    <3> QED
      BY <1>3, <2>1, <2>2, <3>2, <3>3
  <2>3. CASE q # n
    BY <1>2, <2>1, <2>3 DEF OrderInv, InOrder
  <2> QED
    BY <2>2, <2>3
<1>7. ASSUME NEW r \in Requests PROVE Counted(r)'
  <2>1. CASE r = n
    <3>1. threads[t].count \in Nat
      BY <1>1 DEF TypeInv, TypeOK, ThreadRow
    <3> QED
      BY <1>3, <1>4, <2>1, <3>1 DEF Counted
  <2>2. CASE r # n
    <3>1. requests'[r] = requests[r] /\ Counted(r)
      BY <1>2, <2>2 DEF OrderInv
    <3>2. CASE requests[r].thread = t
      BY <1>4, <3>1, <3>2, PlacesTyped DEF Counted
    <3>3. CASE requests[r].thread # t
      BY <1>4, <3>1, <3>3, PlacesTyped DEF Counted
    <3> QED
      BY <3>2, <3>3
  <2> QED
    BY <2>1, <2>2
<1> QED
  BY <1>6, <1>7 DEF OrderInv

LEMMA OrderOfClaim ==
  ASSUME TypeInv, RowsInv, OrderInv, NEW w \in Workers, ClaimRequest(w)
  PROVE  OrderInv'
<1>0. threads' = threads
  BY DEF ClaimRequest
<1>1. ASSUME NEW r \in Requests
      PROVE  /\ requests'[r].thread = requests[r].thread
             /\ requests'[r].sequence = requests[r].sequence
             /\ requests'[r].status \notin {"none", "gone"} => requests[r].status \notin {"none", "gone"}
             /\ requests'[r].status \in OpenRequest =>
                  Swept(r).status \in OpenRequest /\ requests[r].status \in OpenRequest
             /\ Begun(r)' => Begun(r) \/ EarlierAreOver([q \in Requests |-> Swept(q)], r)
  <2>1. RowInv(r)
    BY DEF RowsInv
  <2>2. Swept(r) \in RequestRow
    BY SweptType DEF TypeInv
  <2>3. CASE requests'[r] = Swept(r)
    <3>1. /\ Swept(r).thread = requests[r].thread
          /\ Swept(r).sequence = requests[r].sequence
          /\ \/ Swept(r) = requests[r]
             \/ /\ Swept(r).status = "failed"
                /\ requests[r].status \in {"pending", "authorized", "leased"}
                /\ requests[r].status = "leased" \/ requests[r].deadline # "none"
             \/ /\ Swept(r).status \in {"pending", "authorized"}
                /\ requests[r].status = "leased"
      BY <2>1, SweptFacts, RequeuedStatus
    <3> QED
      BY <2>3, <3>1 DEF Begun, OpenRequest
  <2>4. Swept(r).status \in {"pending", "authorized"} =>
          requests[r].status \in {"pending", "authorized", "leased"}
    BY <2>1, SweptFacts
  <2>5. /\ Swept(r).thread = requests[r].thread
        /\ Swept(r).sequence = requests[r].sequence
    BY <2>1, SweptFacts
  <2>6. CASE /\ Swept(r).status \in {"pending", "authorized"}
             /\ requests'[r] = Over(Swept(r), "denied")
    <3>1. /\ requests'[r].status = "denied"
          /\ requests'[r].thread = requests[r].thread
          /\ requests'[r].sequence = requests[r].sequence
      BY <2>2, <2>5, <2>6, RequestEdits
    <3> QED
      BY <2>4, <2>6, <3>1 DEF Begun, OpenRequest
  <2>7. CASE /\ Swept(r).status \in {"pending", "authorized"}
             /\ EarlierAreOver([q \in Requests |-> Swept(q)], r)
             /\ requests'[r] = LeasedTo(w, Swept(r))
    <3>1. /\ requests'[r].thread = requests[r].thread
          /\ requests'[r].sequence = requests[r].sequence
      BY <2>2, <2>5, <2>7 DEF LeasedTo, RequestRow
    <3> QED
      BY <2>4, <2>7, <3>1 DEF OpenRequest
  <2> QED
    BY <2>3, <2>6, <2>7, ClaimCases
<1>2. ASSUME NEW q \in Requests, NEW r \in Requests PROVE InOrder(q, r)'
  <2> SUFFICES ASSUME requests'[q].status \in OpenRequest, Begun(r)',
                      requests'[q].thread = requests'[r].thread
               PROVE  requests'[q].sequence >= requests'[r].sequence
    BY DEF InOrder
  <2>1. /\ requests'[q].thread = requests[q].thread /\ requests'[r].thread = requests[r].thread
        /\ requests'[q].sequence = requests[q].sequence
        /\ requests'[r].sequence = requests[r].sequence
        /\ Swept(q).status \in OpenRequest /\ requests[q].status \in OpenRequest
    BY <1>1
  <2>2. CASE Begun(r)
    BY <2>1, <2>2 DEF OrderInv, InOrder
  <2>3. CASE EarlierAreOver([p \in Requests |-> Swept(p)], r)
    <3>1. Swept(q).thread = Swept(r).thread => Swept(q).sequence >= Swept(r).sequence
      BY <2>1, <2>3 DEF EarlierAreOver
    <3>2. /\ Swept(q).thread = requests[q].thread /\ Swept(q).sequence = requests[q].sequence
          /\ Swept(r).thread = requests[r].thread /\ Swept(r).sequence = requests[r].sequence
      BY SweptFacts DEF RowsInv
    <3> QED
      BY <2>1, <3>1, <3>2
  <2> QED
    BY <1>1, <2>2, <2>3
<1>3. ASSUME NEW r \in Requests PROVE Counted(r)'
  BY <1>0, <1>1 DEF OrderInv, Counted
<1> QED
  BY <1>2, <1>3 DEF OrderInv

LEMMA OrderHolds == Spec => []OrderInv
<1>1. Init => OrderInv
  BY DEF Init, OrderInv, InOrder, Counted, Begun, NoRow, OpenRequest
<1>2. TypeInv /\ RowsInv /\ OrderInv /\ [Next]_vars => OrderInv'
  <2> SUFFICES ASSUME TypeInv, RowsInv, OrderInv, [Next]_vars PROVE OrderInv'
    OBVIOUS
  <2>1. CASE \E c \in Callers : StoreRequest(c) /\ Submit(c)
    BY <2>1, OrderOfStore
  <2>2. CASE \E w \in Workers : ClaimRequest(w)
    BY <2>2, OrderOfClaim
  <2>3. CASE /\ \A r \in Requests : RowStep(r)
             /\ ~\E c \in Callers : StoreRequest(c) /\ Submit(c)
    <3>1. \A r \in Requests : RowKept(r)
      BY <2>3 DEF RowStep
    <3>2. \A t \in Threads : threads'[t].count = threads[t].count
      BY <2>3, CountsKept
    <3> QED
      BY <3>1, <3>2, StepTypeInv, OrderOfKept
  <2> QED
    BY <2>1, <2>2, <2>3, StepCases
<1> QED
  BY <1>1, <1>2, RowsInvHolds, PTL DEF Spec

\* The requests of a thread are executed in the order they were made, by any
\* number of workers, whichever leases lapse and whichever requests are put
\* back, denied or purged.
THEOREM ThreadsAnsweredInOrder == Spec => []AnsweredInOrder
<1>1. OrderInv => AnsweredInOrder
  BY DEF OrderInv, InOrder, Begun, AnsweredInOrder
<1> QED
  BY <1>1, OrderHolds, PTL

-----------------------------------------------------------------------------
(* Disclosure *)

Holding == {"claimed", "checked", "executing", "completing", "failing"}

\* The question that a worker works on was put under grants that are no older
\* than those it compares them with.
Covered(w) ==
  /\ \A o \in Owners : workers[w].granted[o] <= grants[o].revision
  /\ Granted = workers[w].granted /\ NeedsConfirmation(requests[workers[w].request].call) =>
       confirmations[workers[w].request].status = "confirmed"

\* What the decision of a claim was worth: as long as a worker has its lease and
\* the relationship is not over, either a grant is newer than the claim, or the
\* question is covered as it was then.
FenceInv(w) ==
  /\ HasToken(w)
  /\ workers[w].pc \in Holding
  /\ relationship.status # "revoked"
  => Covered(w)

LEMMA OtherIsOwner == ASSUME NEW o \in Owners PROVE Other(o) \in Owners
BY PeerAssumption DEF Other

\* A worker keeps what it has claimed.
WorkerKept(w) ==
  workers'[w].pc \in Holding =>
    /\ workers[w].pc \in Holding
    /\ workers'[w].request = workers[w].request
    /\ workers'[w].granted = workers[w].granted

\* Grants are edited to a higher revision, or the relationship is over.
GrantsGrow ==
  \/ relationship'.status = "revoked"
  \/ /\ relationship.status # "revoked"
     /\ \A o \in Owners : \/ /\ grants'[o].revision = grants[o].revision
                             /\ grants'[o].offer = grants[o].offer
                          \/ grants'[o].revision = grants[o].revision + 1

LEMMA EveryGrantGrows == ASSUME TypeInv, [Next]_vars PROVE GrantsGrow
<1>0. \A o \in Owners : grants[o] \in GrantRow
  BY DEF TypeInv, TypeOK
<1>1. ASSUME relationship'.status = relationship.status, grants' = grants PROVE GrantsGrow
  BY <1>1 DEF GrantsGrow
<1>2. ASSUME NEW o \in Owners, OwnerStep(o) PROVE GrantsGrow
  <2>1. CASE Invite(o) \/ Accept(o)
    BY <2>1 DEF Invite, Accept, GrantsGrow
  <2>2. CASE Revoke(o)
    BY <2>2, EndedIsRevoked DEF Revoke, GrantsGrow
  <2>3. CASE DeleteOwner(o)
    BY <1>1, <2>3, EndedIsRevoked DEF DeleteOwner, GrantsGrow
  <2>4. CASE Purge(o)
    BY <1>1, <2>4 DEF Purge
  <2>5. CASE GrantLapses(o)
    <3>1. relationship' = relationship /\ grants' = [grants EXCEPT ![o].lapsed = TRUE]
      BY <2>5 DEF GrantLapses
    <3>2. \A p \in Owners : grants'[p].revision = grants[p].revision /\ grants'[p].offer = grants[p].offer
      BY <1>0, <3>1 DEF GrantRow, TypeInv, TypeOK
    <3> QED
      BY <3>1, <3>2 DEF GrantsGrow
  <2>6. ASSUME NEW offer \in OffersOf[o], UpdateGrant(o, offer) PROVE GrantsGrow
    <3>1. relationship' = relationship /\ relationship.status # "revoked"
      BY <2>6 DEF UpdateGrant, Active
    <3>2. grants'[o].revision = grants[o].revision + 1 /\ \A p \in Owners : p # o => grants'[p] = grants[p]
      BY SMTT(60), <2>6 DEF UpdateGrant, TypeInv, TypeOK
    <3> QED
      BY <3>1, <3>2 DEF GrantsGrow
  <2> QED
    BY <1>2, <2>1, <2>2, <2>3, <2>4, <2>5, <2>6 DEF OwnerStep
<1>3. ASSUME NEW c \in Callers, CallerStep(c) PROVE GrantsGrow
  BY ZenonT(60), <1>1, <1>3 DEF CallerStep, Ask, Submit, CheckSource, Answer, DecideConfirmation, tables
<1>4. ASSUME NEW w \in Workers, Notify(w) PROVE GrantsGrow
  BY Zenon, <1>1, <1>4 DEF Notify, ClaimNotice, CheckNotice, NoticeUnaddressed, BeginNotice, ShowNotice,
                    CompleteNotice, tables
<1>5. ASSUME NEW w \in Workers, Execute(w) \/ Crash(w) PROVE GrantsGrow
  BY <1>1, <1>5 DEF Execute, ClaimRequest, DenyClaim, CheckClaim, BeginExecution, RequestUnaddressed,
                    EndExecution, Finish, Defer, Crash, tables
<1>6. ASSUME UNCHANGED vars \/ \E g \in Sources : Supersede(g) PROVE GrantsGrow
  BY <1>1, <1>6 DEF Supersede, vars, tables
<1>7. ASSUME NEW t \in Threads, ThreadLapses(t) PROVE GrantsGrow
  BY <1>1, <1>7 DEF ThreadLapses
<1>8. ASSUME NEW r \in Requests,
             \/ LeaseLapses(r) \/ DeadlinePasses(r) \/ RequestReady(r)
             \/ NoticeLeaseLapses(r) \/ NoticeReady(r) \/ ConfirmationLapses(r)
      PROVE  GrantsGrow
  BY <1>1, <1>8 DEF LeaseLapses, DeadlinePasses, RequestReady, NoticeLeaseLapses, NoticeReady,
                    ConfirmationLapses, RequestBecomes, NoticeBecomes
<1> QED
  BY <1>2, <1>3, <1>4, <1>5, <1>6, <1>7, <1>8 DEF Next

LEMMA EveryWorkerKept ==
  ASSUME TypeInv, [Next]_vars, NEW w \in Workers, ~ClaimRequest(w)
  PROVE  WorkerKept(w)
<1> DEFINE Step(v) == \/ workers' = [workers EXCEPT ![v] = IdleWorker]
                      \/ workers' = [workers EXCEPT ![v] = [IdleWorker EXCEPT !.pc = "claim"]]
                      \/ \E r \in Requests : workers' = [workers EXCEPT ![v] =
                                               [IdleWorker EXCEPT !.pc = "noticed", !.request = r]]
                      \/ \E pc \in {"notify", "attempting", "shown"} :
                           workers' = [workers EXCEPT ![v].pc = pc]
                      \/ /\ workers[v].pc \in Holding
                         /\ \E pc \in Holding \cup {"deferring"} : workers' = [workers EXCEPT ![v].pc = pc]
<1>1. workers[w] \in Worker
  BY DEF TypeInv, TypeOK
<1>2. ASSUME Step(w) PROVE WorkerKept(w)
  <2>1. CASE \/ workers' = [workers EXCEPT ![w] = IdleWorker]
             \/ workers' = [workers EXCEPT ![w] = [IdleWorker EXCEPT !.pc = "claim"]]
             \/ \E r \in Requests : workers' = [workers EXCEPT ![w] =
                                      [IdleWorker EXCEPT !.pc = "noticed", !.request = r]]
    <3>1. PICK row : workers' = [workers EXCEPT ![w] = row] /\ row.pc \in {"idle", "claim", "noticed"}
      <4>1. /\ IdleWorker.pc = "idle"
            /\ [IdleWorker EXCEPT !.pc = "claim"].pc = "claim"
            /\ \A r : [IdleWorker EXCEPT !.pc = "noticed", !.request = r].pc = "noticed"
        BY DEF IdleWorker
      <4>2. CASE \E r \in Requests : workers' = [workers EXCEPT ![w] =
                                      [IdleWorker EXCEPT !.pc = "noticed", !.request = r]]
        BY <4>1, <4>2
      <4> QED
        BY Zenon, <2>1, <4>1, <4>2
    <3>2. workers'[w].pc \in {"idle", "claim", "noticed"}
      BY <3>1 DEF TypeInv, TypeOK
    <3> QED
      BY <3>2 DEF WorkerKept, Holding
  <2>2. ASSUME NEW pc \in {"notify", "attempting", "shown"}, workers' = [workers EXCEPT ![w].pc = pc]
        PROVE  WorkerKept(w)
    <3>1. workers'[w].pc = pc
      BY <1>1, <2>2 DEF Worker, TypeInv, TypeOK
    <3> QED
      BY <3>1 DEF WorkerKept, Holding
  <2>3. ASSUME workers[w].pc \in Holding, NEW pc, workers' = [workers EXCEPT ![w].pc = pc]
        PROVE  WorkerKept(w)
    BY <1>1, <2>3 DEF WorkerKept, Worker, TypeInv, TypeOK
  <2> QED
    BY Zenon, <1>2, <2>1, <2>2, <2>3
<1>3. ASSUME NEW v \in Workers, v # w, NEW row, workers' = [workers EXCEPT ![v] = row]
      PROVE  WorkerKept(w)
  BY <1>3 DEF WorkerKept, TypeInv, TypeOK
<1>4. ASSUME NEW v \in Workers, v # w, Step(v) PROVE WorkerKept(w)
  BY Zenon, <1>3, <1>4
<1>5. ASSUME workers' = workers PROVE WorkerKept(w)
  BY SMTT(60), <1>5 DEF WorkerKept
<1>6. ASSUME NEW v \in Workers, Notify(v) PROVE Step(v)
  BY ZenonT(60), <1>6 DEF Notify, ClaimNotice, CheckNotice, NoticeUnaddressed, BeginNotice, ShowNotice, CompleteNotice
<1>7. ASSUME NEW v \in Workers, Execute(v) \/ Crash(v), ~ClaimRequest(v) PROVE Step(v)
  BY Zenon, <1>7 DEF Execute, DenyClaim, CheckClaim, BeginExecution, RequestUnaddressed,
              EndExecution, Finish, Defer, Crash, Rests, Becomes, Holding
<1> HIDE DEF Step
<1>8. ASSUME NEW v \in Workers, Notify(v) \/ Execute(v) \/ Crash(v) PROVE WorkerKept(w)
  <2>1. CASE v = w
    BY <1>2, <1>6, <1>7, <1>8, <2>1
  <2>2. CASE v # w /\ ~ClaimRequest(v)
    BY <1>4, <1>6, <1>7, <1>8, <2>2
  <2>3. CASE v # w /\ ClaimRequest(v)
    <3>1. \E row : workers' = [workers EXCEPT ![v] = row]
      BY Zenon, <2>3 DEF ClaimRequest
    <3> QED
      BY <1>3, <2>3, <3>1
  <2> QED
    BY <2>1, <2>2, <2>3
<1>9. ASSUME NEW o \in Owners, OwnerStep(o) PROVE workers' = workers
  BY <1>9 DEF OwnerStep, Invite, Accept, Revoke, DeleteOwner, Purge, GrantLapses, UpdateGrant, quiet
<1>10. ASSUME NEW c \in Callers, CallerStep(c) PROVE workers' = workers
  BY Zenon, <1>10 DEF CallerStep, Ask, Submit, CheckSource, Answer, DecideConfirmation
<1>11. ASSUME \/ \E g \in Sources : Supersede(g)
              \/ \E t \in Threads : ThreadLapses(t)
              \/ \E r \in Requests : \/ LeaseLapses(r) \/ DeadlinePasses(r) \/ RequestReady(r)
                                     \/ NoticeLeaseLapses(r) \/ NoticeReady(r) \/ ConfirmationLapses(r)
              \/ UNCHANGED vars
       PROVE  workers' = workers
  BY <1>11 DEF Supersede, ThreadLapses, LeaseLapses, DeadlinePasses, RequestReady, NoticeLeaseLapses,
               NoticeReady, ConfirmationLapses, RequestBecomes, NoticeBecomes, quiet, vars
<1> QED
  BY <1>5, <1>8, <1>9, <1>10, <1>11 DEF Next

\* A lease that a worker still has after a step is one it had before, unless it
\* has just claimed.
LEMMA LeaseKept ==
  ASSUME TypeInv, RowsInv, [Next]_vars, NEW w \in Workers, ~ClaimRequest(w), NEW r \in Requests,
         requests'[r].status = "leased", requests'[r].holder = w
  PROVE  /\ requests[r].status = "leased" /\ requests[r].holder = w
         /\ requests'[r].call = requests[r].call
         /\ confirmations[r].status = "confirmed" => confirmations'[r].status = "confirmed"
<1>0. RowInv(r) /\ requests[r] \in RequestRow
  BY RowsTyped DEF RowsInv
<1>1. CASE RowStep(r)
  BY <1>1 DEF RowStep, RowKept
<1>2. ASSUME NEW c \in Callers, StoreRequest(c), Submit(c)
      PROVE  requests'[r] = requests[r] /\ confirmations'[r] = confirmations[r]
  BY <1>0, <1>2, StoreRequestRow
<1>3. ASSUME NEW v \in Workers, ClaimRequest(v)
      PROVE  requests'[r] = requests[r] /\ confirmations'[r] = confirmations[r]
  <2>1. Swept(r) \in RequestRow
    BY SweptType DEF TypeInv
  <2>2. requests'[r] # Over(Swept(r), "denied")
    BY <2>1, RequestEdits
  <2>3. LeasedTo(v, Swept(r)).holder = v /\ v # w
    BY <1>3, <2>1 DEF LeasedTo, RequestRow
  <2>4. requests'[r] = Swept(r)
    BY <1>3, <2>2, <2>3, ClaimCases
  <2>5. Swept(r) = requests[r]
    BY <1>0, <2>4, SweptFacts, RequeuedStatus
  <2> QED
    BY <1>3, <2>4, <2>5 DEF ClaimRequest
<1> QED
  BY <1>1, <1>2, <1>3, StepCases

LEMMA FenceOfClaim ==
  ASSUME TypeInv, RowsInv, NEW w \in Workers, ClaimRequest(w)
  PROVE  FenceInv(w)'
<1> SUFFICES ASSUME workers'[w].pc \in Holding PROVE Covered(w)'
  BY DEF FenceInv
<1>0. UNCHANGED <<grants, relationship, confirmations>>
  BY DEF ClaimRequest
<1>1. PICK n \in Requests :
        /\ workers' = [workers EXCEPT ![w] =
             [pc |-> IF Allows(Swept(n).call, Swept(n).status) THEN "claimed" ELSE "refused",
              request |-> n, revision |-> relationship.revision, granted |-> Granted]]
        /\ requests'[n] = LeasedTo(w, Swept(n))
        /\ Swept(n).status \in {"pending", "authorized"}
  <2>1. workers' # [workers EXCEPT ![w] = IdleWorker]
    BY DEF IdleWorker, Holding, TypeInv, TypeOK
  <2>2. 1 \in Requests \/ Requests = {}
    BY PeerAssumption DEF Requests
  <2>3. CASE Requests = {}
    BY <2>1, <2>3 DEF ClaimRequest
  <2>4. CASE 1 \in Requests
    BY <2>1, <2>4, ClaimCases
  <2> QED
    BY <2>2, <2>3, <2>4
<1>2. /\ workers'[w].pc = IF Allows(Swept(n).call, Swept(n).status) THEN "claimed" ELSE "refused"
      /\ workers'[w].request = n
      /\ workers'[w].granted = Granted
  BY <1>1 DEF TypeInv, TypeOK
<1>3. Allows(Swept(n).call, Swept(n).status)
  BY <1>2 DEF Holding
<1>4. requests'[n].call = Swept(n).call
  <2>1. Swept(n) \in RequestRow
    BY SweptType DEF TypeInv
  <2> QED
    BY <1>1, <2>1 DEF LeasedTo, RequestRow
<1>5. Swept(n).status = "authorized" => confirmations[n].status = "confirmed"
  <2>1. RowInv(n)
    BY DEF RowsInv
  <2> QED
    BY <2>1, SweptFacts, RequeuedStatus DEF RowInv
<1>6. NeedsConfirmation(requests[n].call)' => NeedsConfirmation(Swept(n).call)
  BY <1>0, <1>4 DEF NeedsConfirmation
<1>7. NeedsConfirmation(requests[workers[w].request].call)' =>
        confirmations'[workers'[w].request].status = "confirmed"
  <2>1. NeedsConfirmation(requests[workers[w].request].call)' => NeedsConfirmation(requests[n].call)'
    BY <1>2 DEF NeedsConfirmation
  <2> QED
    BY <1>0, <1>1, <1>2, <1>3, <1>5, <1>6, <2>1 DEF Allows
<1>8. \A o \in Owners : workers'[w].granted[o] <= grants'[o].revision
  BY <1>0, <1>2 DEF Granted, TypeInv, TypeOK, GrantRow
<1> QED
  BY <1>2, <1>7, <1>8 DEF Covered

LEMMA FenceOfOthers ==
  ASSUME TypeInv, RowsInv, [Next]_vars, NEW w \in Workers, ~ClaimRequest(w), FenceInv(w)
  PROVE  FenceInv(w)'
<1> SUFFICES ASSUME HasToken(w)', workers'[w].pc \in Holding, relationship'.status # "revoked"
             PROVE  Covered(w)'
  BY DEF FenceInv
<1>0. PICK r, k : r = workers[w].request /\ k = requests[r].call
  OBVIOUS
<1>1. /\ workers[w].pc \in Holding /\ workers'[w].request = r
      /\ workers'[w].granted = workers[w].granted
  BY <1>0, EveryWorkerKept DEF WorkerKept
<1>2. r \in Requests /\ workers[w].granted \in [Owners -> Nat]
  BY <1>0, <1>1 DEF TypeInv, TypeOK, WorkersHold, Holding, Worker
<1>3. /\ HasToken(w) /\ requests'[r].call = k
      /\ confirmations[r].status = "confirmed" => confirmations'[r].status = "confirmed"
  BY <1>0, <1>1, <1>2, LeaseKept DEF HasToken
<1>4. /\ relationship.status # "revoked"
      /\ \A o \in Owners : \/ /\ grants'[o].revision = grants[o].revision
                              /\ grants'[o].offer = grants[o].offer
                           \/ grants'[o].revision = grants[o].revision + 1
  BY EveryGrantGrows DEF GrantsGrow
<1>5. Covered(w)
  BY <1>1, <1>3, <1>4 DEF FenceInv
<1>6. k \in Calls
  BY <1>0, <1>2, RowsTyped DEF RequestRow
<1>7. \A o \in Owners : grants[o].revision \in Nat /\ workers[w].granted[o] <= grants[o].revision
  BY <1>5 DEF Covered, TypeInv, TypeOK, GrantRow
<1>8. \A o \in Owners : workers'[w].granted[o] <= grants'[o].revision
  BY <1>1, <1>2, <1>4, <1>7
<1>9. ASSUME Granted' = workers[w].granted, NeedsConfirmation(k)'
      PROVE  confirmations'[r].status = "confirmed"
  <2>1. \A o \in Owners : grants'[o].revision = workers[w].granted[o]
    BY <1>9 DEF Granted
  <2>2. \A o \in Owners : grants'[o].revision = grants[o].revision /\ grants'[o].offer = grants[o].offer
    BY <1>2, <1>4, <1>7, <2>1
  <2>3. Granted = workers[w].granted
    BY <1>2, <2>1, <2>2 DEF Granted
  <2>4. SenderOf[k] \in Owners
    BY <1>6, PeerAssumption
  <2>5. Other(SenderOf[k]) \in Owners
    BY <2>4, OtherIsOwner
  <2>6. NeedsConfirmation(k)
    BY <1>9, <2>2, <2>5 DEF NeedsConfirmation
  <2> QED
    BY <1>0, <1>3, <1>5, <2>3, <2>6 DEF Covered
<1>10. NeedsConfirmation(requests[workers[w].request].call)' => NeedsConfirmation(k)'
  BY <1>1, <1>3 DEF NeedsConfirmation
<1> QED
  BY <1>1, <1>8, <1>9, <1>10 DEF Covered

FencesInv == \A w \in Workers : FenceInv(w)

LEMMA FencesHold == Spec => []FencesInv
<1>1. Init => FencesInv
  BY DEF Init, FencesInv, FenceInv, IdleWorker, Holding
<1>2. TypeInv /\ RowsInv /\ FencesInv /\ [Next]_vars => FencesInv'
  BY FenceOfClaim, FenceOfOthers DEF FencesInv
<1> QED
  BY <1>1, <1>2, RowsInvHolds, PTL DEF Spec

\* Whatever the owners edit, revoke, let lapse or edit back while a question is
\* asked, confirmed, claimed and answered by whichever worker: it is answered
\* under a permission that is in force then.
THEOREM EveryDisclosureIsAuthorized == Spec => DisclosureIsAuthorized
<1>1. TypeInv /\ RowsInv /\ FencesInv /\ [Next]_vars =>
        [\A r \in Requests :
           responses'[r] = "completed" /\ responses[r] # "completed" =>
             /\ Permitted(requests[r].call)
             /\ NeedsConfirmation(requests[r].call) => confirmations[r].status = "confirmed"]_vars
  <2> SUFFICES ASSUME TypeInv, RowsInv, FencesInv, [Next]_vars, NEW r \in Requests,
                      responses'[r] = "completed", responses[r] # "completed"
               PROVE  /\ Permitted(requests[r].call)
                      /\ NeedsConfirmation(requests[r].call) => confirmations[r].status = "confirmed"
    OBVIOUS
  <2>1. PICK w \in Workers : /\ Finish(w) /\ Fence(w)
                             /\ workers[w].pc = "completing" /\ workers[w].request = r
    BY EveryRowSafe DEF RowSafe, AnsweredBy
  <2>2. Permitted(requests[r].call)
    BY <2>1 DEF Fence, Allows
  <2>3. relationship.status # "revoked"
    BY <2>2 DEF Permitted, Active
  <2>4. Covered(w) /\ Granted = workers[w].granted
    BY <2>1, <2>3 DEF FencesInv, FenceInv, Fence, SameAuthority, Holding
  <2> QED
    BY <2>1, <2>2, <2>4 DEF Covered
<1> QED
  BY <1>1, FencesHold, RowsInvHolds, PTL DEF Spec, DisclosureIsAuthorized

-----------------------------------------------------------------------------
(* Notices are shown once *)

Unsent == {"pending", "leased"}

\* A notice that is not to be sent, or whose sending has begun.
Closed(r) == r <= made /\ notices[r].status \notin Unsent

\* A worker that sends a notice is the only one, and it has not been shown; and
\* what has been shown cannot be taken up again.
ShownInv ==
  /\ \A r \in Requests : shown[r] = 0 \/ (shown[r] = 1 /\ Closed(r))
  /\ \A w \in Workers : workers[w].pc = "attempting" =>
       shown[workers[w].request] = 0 /\ Closed(workers[w].request)
  /\ \A v, w \in Workers : v # w /\ workers[v].pc = "attempting" /\ workers[w].pc = "attempting" =>
       workers[v].request # workers[w].request

\* The notices that a step may take up are those that were.
LEMMA OwnersKeepClosed ==
  ASSUME TypeInv, NEW o \in Owners, OwnerStep(o), NEW r \in Requests, notices'[r].status \in Unsent
  PROVE  notices[r].status \in Unsent
<1>1. notices[r] \in NoticeRow
  BY RowsTyped
<1>2. CASE notices'[r] = notices[r]
  BY <1>2
<1>3. CASE Revoke(o)
  BY <1>1, <1>2, <1>3, NoticeEdits DEF Revoke, Unsent
<1>4. CASE DeleteOwner(o)
  BY <1>1, <1>2, <1>4, NoticeEdits DEF DeleteOwner, Unsent
<1>5. CASE Purge(o)
  <2>1. NoNotice.status = "none"
    BY DEF NoNotice
  <2>2. notices'[r] = NoNotice \/ notices'[r] = notices[r]
    BY <1>5 DEF Purge
  <2> QED
    BY <1>2, <2>1, <2>2 DEF Unsent
<1> QED
  BY <1>2, <1>3, <1>4, <1>5 DEF OwnerStep, Invite, Accept, UpdateGrant, GrantLapses

LEMMA CancellingKeepsClosed ==
  ASSUME TypeInv, NEW q \in Requests, CancelSuperseded(q) \/ UNCHANGED notices, NEW r \in Requests,
         notices'[r].status \in Unsent
  PROVE  notices[r].status \in Unsent
<1>1. notices[r] \in NoticeRow
  BY RowsTyped
<1>2. notices'[r] = notices[r] \/ notices'[r] = Retracted(notices[r])
  BY SMTT(60) DEF CancelSuperseded, TypeInv, TypeOK
<1> QED
  BY <1>1, <1>2, NoticeEdits DEF Unsent

LEMMA CallersKeepClosed ==
  ASSUME TypeInv, NEW c \in Callers, CallerStep(c), NEW r \in Requests,
         notices'[r].status \in Unsent
  PROVE  notices[r].status \in Unsent \/ r = made + 1
<1>1. notices[r] \in NoticeRow
  BY RowsTyped
<1>2. CASE notices'[r] = notices[r]
  BY <1>2
<1>3. CASE Submit(c)
  BY ZenonT(60), <1>2, <1>3 DEF Submit, StoreRequest, TypeInv, TypeOK
<1>4. CASE CheckSource(c)
  <2>1. notices'[r] = notices[r] \/ notices'[r] = Retracted(notices[r])
    BY <1>4 DEF CheckSource, TypeInv, TypeOK
  <2> QED
    BY <1>1, <2>1, NoticeEdits DEF Unsent
<1>5. CASE DecideConfirmation(c)
  <2>1. notices'[r] = notices[r] \/ notices'[r] = Withdrawn(notices[r])
    BY <1>5 DEF DecideConfirmation, Decided, TypeInv, TypeOK
  <2> QED
    BY <1>1, <2>1, NoticeEdits DEF Unsent
<1>6. ASSUME NEW q \in Requests, NEW approve \in BOOLEAN, Answer(c, q, approve)
      PROVE  notices[r].status \in Unsent
  <2>1. CancelSuperseded(q) \/ UNCHANGED notices
    BY <1>6 DEF Answer
  <2> QED
    BY <2>1, CancellingKeepsClosed
<1> QED
  BY Zenon, <1>2, <1>3, <1>4, <1>5, <1>6 DEF CallerStep, Ask, tables

LEMMA NotifyKeepsClosed ==
  ASSUME TypeInv, NEW w \in Workers, Notify(w), NEW r \in Requests, notices'[r].status \in Unsent
  PROVE  notices[r].status \in Unsent
<1> DEFINE q == workers[w].request
<1>1. notices[r] \in NoticeRow
  BY RowsTyped
<1>2. CASE notices'[r] = notices[r]
  BY <1>2
<1>3. CASE ClaimNotice(w)
  <2> DEFINE swept == [p \in Requests |-> SweptNotice(notices[p])]
             due == {p \in Requests : swept[p].status = "pending" /\ swept[p].ready}
             Passed(p) == IF p \in due THEN Suppressed(swept[p]) ELSE swept[p]
  <2>1. swept[r] \in NoticeRow
    BY <1>1, NoticeEditsType
  <2>2. swept[r].status \in Unsent => notices[r].status \in Unsent
    BY <1>1, NoticeEdits DEF Unsent
  <2>3. Passed(r).status \in Unsent => swept[r].status \in Unsent
    BY <2>1, NoticeEdits DEF Unsent
  <2>4. r \in due => swept[r].status \in Unsent
    BY DEF Unsent
  <2>5. \/ notices' = [p \in Requests |-> Passed(p)]
        \/ \E n \in due : notices' = [p \in Requests |->
             IF p = n THEN [swept[n] EXCEPT !.status = "leased", !.lapsed = FALSE, !.holder = w]
             ELSE IF p < n THEN Passed(p) ELSE swept[p]]
    BY Zenon, <1>3 DEF ClaimNotice
  <2> HIDE DEF swept, due, Passed
  <2>6. notices'[r] = Passed(r) \/ notices'[r] = swept[r] \/ r \in due
    BY Zenon, <2>5
  <2> QED
    BY <2>2, <2>3, <2>4, <2>6
<1>4. CASE ~ClaimNotice(w)
  <2>1. q \in Requests
    BY <1>4 DEF Notify, CheckNotice, NoticeUnaddressed, BeginNotice, ShowNotice, CompleteNotice,
                TypeInv, WorkersHold
  <2>2. CASE CancelSuperseded(q) \/ UNCHANGED notices
    BY <2>1, <2>2, CancellingKeepsClosed
  <2>3. CASE NoticeUnaddressed(w)
    BY <1>2, <2>3 DEF NoticeUnaddressed, HoldsNotice, Unsent, TypeInv, TypeOK
  <2>4. CASE BeginNotice(w)
    <3>1. CASE HoldsNotice(w, "leased") /\ notices' = [notices EXCEPT ![q].status = "attempting"]
      <4>1. r = q => notices'[r].status = "attempting"
        BY <1>1, <3>1 DEF NoticeRow, TypeInv, TypeOK
      <4>2. r # q => notices'[r] = notices[r]
        BY <3>1 DEF TypeInv, TypeOK
      <4> QED
        BY <1>2, <4>1, <4>2 DEF Unsent
    <3> QED
      BY <2>2, <2>4, <3>1 DEF BeginNotice
  <2>5. CASE CompleteNotice(w)
    <3>1. NoticeOver("sent").status = "sent" /\ NoticeOver("unknown").status = "unknown"
      BY DEF NoticeOver, NoNotice
    <3>2. notices'[r] = notices[r] \/ notices'[r] = NoticeOver("sent") \/ notices'[r] = NoticeOver("unknown")
      BY <2>5 DEF CompleteNotice, TypeInv, TypeOK
    <3> QED
      BY <1>2, <3>1, <3>2 DEF Unsent
  <2> QED
    BY <1>4, <2>2, <2>3, <2>4, <2>5 DEF Notify, CheckNotice, ShowNotice, tables
<1> QED
  BY <1>3, <1>4

LEMMA TimeKeepsClosed ==
  ASSUME TypeInv, NEW r \in Requests, notices'[r].status \in Unsent,
         \/ \E t \in Threads : ThreadLapses(t)
         \/ \E q \in Requests : \/ LeaseLapses(q) \/ DeadlinePasses(q) \/ RequestReady(q)
                                \/ NoticeLeaseLapses(q) \/ NoticeReady(q) \/ ConfirmationLapses(q)
  PROVE  notices[r].status \in Unsent
<1>1. \/ notices'[r] = notices[r]
      \/ notices'[r] = [notices[r] EXCEPT !.lapsed = TRUE]
      \/ notices'[r] = [notices[r] EXCEPT !.ready = TRUE]
  BY ZenonT(60) DEF ThreadLapses, LeaseLapses, DeadlinePasses, RequestReady, NoticeLeaseLapses, NoticeReady,
         ConfirmationLapses, NoticeBecomes, RequestBecomes, TypeInv, TypeOK
<1> QED
  BY <1>1, RowsTyped DEF NoticeRow

LEMMA ClosedKept ==
  ASSUME TypeInv, [Next]_vars, NEW r \in Requests, Closed(r)
  PROVE  Closed(r)'
<1>1. made' = made \/ made' = made + 1
  <2>1. ASSUME NEW o \in Owners, OwnerStep(o) PROVE made' = made
    BY <2>1 DEF OwnerStep, Invite, Accept, Revoke, DeleteOwner, Purge, GrantLapses, UpdateGrant
  <2>2. ASSUME NEW c \in Callers, CallerStep(c) PROVE made' = made \/ made' = made + 1
    BY ZenonT(60), <2>2 DEF CallerStep, Ask, Submit, StoreRequest, CheckSource, Answer, DecideConfirmation, tables
  <2>3. ASSUME NEW w \in Workers, Notify(w) PROVE made' = made
    BY Zenon, <2>3 DEF Notify, ClaimNotice, CheckNotice, NoticeUnaddressed, BeginNotice, ShowNotice,
                CompleteNotice, tables
  <2>4. ASSUME NEW w \in Workers, Execute(w) \/ Crash(w) PROVE made' = made
    BY <2>4 DEF Execute, ClaimRequest, DenyClaim, CheckClaim, BeginExecution, RequestUnaddressed,
                EndExecution, Finish, Defer, Crash, tables
  <2>5. ASSUME UNCHANGED vars \/ \E g \in Sources : Supersede(g) PROVE made' = made
    BY <2>5 DEF Supersede, vars, tables
  <2>6. ASSUME \/ \E t \in Threads : ThreadLapses(t)
               \/ \E q \in Requests : \/ LeaseLapses(q) \/ DeadlinePasses(q) \/ RequestReady(q)
                                      \/ NoticeLeaseLapses(q) \/ NoticeReady(q) \/ ConfirmationLapses(q)
        PROVE  made' = made
    BY <2>6 DEF ThreadLapses, LeaseLapses, DeadlinePasses, RequestReady, NoticeLeaseLapses,
                NoticeReady, ConfirmationLapses, RequestBecomes, NoticeBecomes
  <2> QED
    BY <2>1, <2>2, <2>3, <2>4, <2>5, <2>6 DEF Next
<1>2. notices'[r].status \in Unsent => notices[r].status \in Unsent \/ r = made + 1
  <2> SUFFICES ASSUME notices'[r].status \in Unsent
               PROVE  notices[r].status \in Unsent \/ r = made + 1
    OBVIOUS
  <2>1. CASE UNCHANGED notices
    BY <2>1
  <2>2. ASSUME NEW w \in Workers, Execute(w) \/ Crash(w) PROVE UNCHANGED notices
    BY <2>2 DEF Execute, ClaimRequest, DenyClaim, CheckClaim, BeginExecution, RequestUnaddressed,
                EndExecution, Finish, Defer, Crash, tables
  <2>3. ASSUME UNCHANGED vars \/ \E g \in Sources : Supersede(g) PROVE UNCHANGED notices
    BY <2>3 DEF Supersede, vars, tables
  <2> QED
    BY <2>1, <2>2, <2>3, OwnersKeepClosed, CallersKeepClosed, NotifyKeepsClosed, TimeKeepsClosed
    DEF Next
<1> QED
  BY <1>1, <1>2, RowsTyped DEF Closed

\* A worker begins to send, or has sent, or nobody does either.
Begins(w) ==
  /\ notices[workers[w].request].status = "leased"
  /\ workers' = [workers EXCEPT ![w].pc = "attempting"]
  /\ workers[w].pc = "notify"
  /\ notices' = [notices EXCEPT ![workers[w].request].status = "attempting"]
  /\ UNCHANGED <<made, shown>>

NobodySends ==
  /\ shown' = shown
  /\ \A v \in Workers : workers'[v].pc = "attempting" =>
       workers[v].pc = "attempting" /\ workers'[v].request = workers[v].request

LEMMA SendCases ==
  ASSUME TypeInv, [Next]_vars
  PROVE  (\E w \in Workers : Begins(w) \/ ShowNotice(w)) \/ NobodySends
<1>1. ASSUME UNCHANGED <<workers, shown>> PROVE NobodySends
  BY <1>1 DEF NobodySends
<1>2. ASSUME NEW w \in Workers, NEW row, workers' = [workers EXCEPT ![w] = row],
             row.pc # "attempting", UNCHANGED shown
      PROVE  NobodySends
  BY <1>2 DEF NobodySends, TypeInv, TypeOK
<1>3. ASSUME NEW w \in Workers, NEW pc, pc # "attempting", workers' = [workers EXCEPT ![w].pc = pc],
             UNCHANGED shown
      PROVE  NobodySends
  <2>1. [workers[w] EXCEPT !.pc = pc].pc = pc
    BY <1>3 DEF TypeInv, TypeOK, Worker
  <2> QED
    BY <1>2, <1>3, <2>1
<1>4. /\ IdleWorker.pc = "idle" /\ [IdleWorker EXCEPT !.pc = "claim"].pc = "claim"
      /\ \A r : [IdleWorker EXCEPT !.pc = "noticed", !.request = r].pc = "noticed"
  BY DEF IdleWorker
<1>5. ASSUME NEW w \in Workers, Notify(w), ~Begins(w), ~ShowNotice(w) PROVE NobodySends
  <2>1. UNCHANGED shown
    BY ZenonT(60), <1>5 DEF Notify, ClaimNotice, CheckNotice, NoticeUnaddressed, BeginNotice, CompleteNotice
  <2>2. \/ workers' = [workers EXCEPT ![w] = IdleWorker]
        \/ workers' = [workers EXCEPT ![w] = [IdleWorker EXCEPT !.pc = "claim"]]
        \/ \E r \in Requests : workers' = [workers EXCEPT ![w] =
                                 [IdleWorker EXCEPT !.pc = "noticed", !.request = r]]
        \/ workers' = [workers EXCEPT ![w].pc = "notify"]
    BY Zenon, <1>5 DEF Notify, Begins, ClaimNotice, CheckNotice, NoticeUnaddressed, BeginNotice,
                CompleteNotice, HoldsNotice
  <2> QED
    BY ZenonT(60), <1>2, <1>3, <1>4, <2>1, <2>2
<1>6. ASSUME NEW w \in Workers, Execute(w) \/ Crash(w) PROVE NobodySends
  <2>1. UNCHANGED shown
    BY <1>6 DEF Execute, ClaimRequest, DenyClaim, CheckClaim, BeginExecution, RequestUnaddressed,
                EndExecution, Finish, Defer, Crash
  <2>2. CASE ClaimRequest(w)
    <3>1. \/ workers' = [workers EXCEPT ![w] = IdleWorker]
          \/ \E r \in Requests, pc \in {"claimed", "refused"} : workers' = [workers EXCEPT ![w] =
               [pc |-> pc, request |-> r, revision |-> relationship.revision, granted |-> Granted]]
      BY <2>2 DEF ClaimRequest
    <3> QED
      BY <1>2, <1>4, <2>1, <3>1
  <2>3. CASE ~ClaimRequest(w)
    <3>1. \/ workers' = [workers EXCEPT ![w] = IdleWorker]
          \/ workers' = [workers EXCEPT ![w] = [IdleWorker EXCEPT !.pc = "claim"]]
          \/ workers' = [workers EXCEPT ![w].pc = "checked"]
          \/ workers' = [workers EXCEPT ![w].pc = "executing"]
          \/ workers' = [workers EXCEPT ![w].pc = "completing"]
          \/ workers' = [workers EXCEPT ![w].pc = "failing"]
          \/ workers' = [workers EXCEPT ![w].pc = "deferring"]
      BY <1>6, <2>3 DEF Execute, DenyClaim, CheckClaim, BeginExecution, RequestUnaddressed,
                        EndExecution, Finish, Defer, Crash, Rests, Becomes
    <3> QED
      BY <1>2, <1>3, <1>4, <2>1, <3>1
  <2> QED
    BY <2>2, <2>3
<1>7. ASSUME NEW o \in Owners, OwnerStep(o) PROVE UNCHANGED <<workers, shown>>
  BY SMTT(60), <1>7 DEF OwnerStep, Invite, Accept, Revoke, DeleteOwner, Purge, GrantLapses, UpdateGrant, quiet
<1>8. ASSUME NEW c \in Callers, CallerStep(c) PROVE UNCHANGED <<workers, shown>>
  BY Zenon, <1>8 DEF CallerStep, Ask, Submit, CheckSource, Answer, DecideConfirmation
<1>9. ASSUME \/ \E g \in Sources : Supersede(g)
             \/ \E t \in Threads : ThreadLapses(t)
             \/ \E r \in Requests : \/ LeaseLapses(r) \/ DeadlinePasses(r) \/ RequestReady(r)
                                    \/ NoticeLeaseLapses(r) \/ NoticeReady(r) \/ ConfirmationLapses(r)
             \/ UNCHANGED vars
      PROVE  UNCHANGED <<workers, shown>>
  BY <1>9 DEF Supersede, ThreadLapses, LeaseLapses, DeadlinePasses, RequestReady, NoticeLeaseLapses,
              NoticeReady, ConfirmationLapses, RequestBecomes, NoticeBecomes, quiet, vars
<1> QED
  BY <1>1, <1>5, <1>6, <1>7, <1>8, <1>9 DEF Next

LEMMA ShownStep ==
  ASSUME TypeInv, TypeInv', RowsInv, ShownInv, [Next]_vars
  PROVE  ShownInv'
<1>0. \A r \in Requests : Closed(r) => Closed(r)'
  BY ClosedKept
<1>1. \A w \in Workers : /\ workers[w].pc = "attempting" => workers[w].request \in Requests
                         /\ workers'[w].pc = "attempting" => workers'[w].request \in Requests
  BY DEF TypeInv, WorkersHold
<1>2. CASE NobodySends
  <2>1. \A r \in Requests : shown'[r] = 0 \/ (shown'[r] = 1 /\ Closed(r)')
    BY <1>0, <1>2 DEF NobodySends, ShownInv
  <2>2. ASSUME NEW w \in Workers, workers'[w].pc = "attempting"
        PROVE  shown'[workers'[w].request] = 0 /\ Closed(workers[w].request)'
    <3>1. workers[w].pc = "attempting" /\ workers'[w].request = workers[w].request
      BY <1>2, <2>2 DEF NobodySends
    <3>2. PICK r \in Requests : r = workers[w].request /\ r = workers'[w].request
      BY <1>1, <3>1
    <3>3. shown'[r] = 0 /\ Closed(r)'
      BY <1>0, <1>2, <3>1, <3>2 DEF NobodySends, ShownInv
    <3> QED
      BY <3>2, <3>3 DEF Closed
  <2>3. ASSUME NEW v \in Workers, NEW w \in Workers, v # w, workers'[v].pc = "attempting",
               workers'[w].pc = "attempting"
        PROVE  workers'[v].request # workers'[w].request
    BY <1>2, <2>3 DEF NobodySends, ShownInv
  <2> QED
    BY <2>1, <2>2, <2>3 DEF ShownInv
<1>3. ASSUME NEW w \in Workers, ShowNotice(w) PROVE ShownInv'
  <2>0. PICK n \in Requests : n = workers[w].request
    BY <1>1, <1>3 DEF ShowNotice
  <2>1. workers[w].pc = "attempting" /\ shown[n] = 0 /\ Closed(n)
    BY <1>3, <2>0 DEF ShowNotice, ShownInv
  <2>2. shown'[n] = 1 /\ \A r \in Requests : r # n => shown'[r] = shown[r]
    BY <1>3, <2>0, <2>1 DEF ShowNotice, TypeInv, TypeOK
  <2>3. workers'[w].pc = "shown" /\ \A v \in Workers : v # w => workers'[v] = workers[v]
    BY <1>3 DEF ShowNotice, TypeInv, TypeOK, Worker
  <2>4. \A r \in Requests : shown'[r] = 0 \/ (shown'[r] = 1 /\ Closed(r)')
    BY <1>0, <2>1, <2>2 DEF ShownInv
  <2>5. ASSUME NEW v \in Workers, workers'[v].pc = "attempting"
        PROVE  shown'[workers'[v].request] = 0 /\ Closed(workers[v].request)'
    <3>1. v # w /\ workers'[v] = workers[v] /\ workers[v].pc = "attempting"
      BY <2>3, <2>5
    <3>2. PICK r \in Requests : r = workers[v].request /\ r = workers'[v].request
      BY <1>1, <3>1
    <3>3. r # n /\ shown[r] = 0 /\ Closed(r)
      BY <2>0, <2>1, <3>1, <3>2 DEF ShownInv
    <3>4. shown'[r] = 0 /\ Closed(r)'
      BY <1>0, <2>2, <3>3
    <3> QED
      BY <3>2, <3>4 DEF Closed
  <2>6. ASSUME NEW v \in Workers, NEW u \in Workers, v # u, workers'[v].pc = "attempting",
               workers'[u].pc = "attempting"
        PROVE  workers'[v].request # workers'[u].request
    BY <2>3, <2>6 DEF ShownInv
  <2> QED
    BY <2>4, <2>5, <2>6 DEF ShownInv
<1>4. ASSUME NEW w \in Workers, Begins(w) PROVE ShownInv'
  <2>0. PICK n \in Requests : n = workers[w].request
    BY <1>4 DEF Begins, TypeInv, WorkersHold
  <2>1. notices[n].status = "leased" /\ notices'[n].status = "attempting" /\ n <= made /\ made' = made
    <3>1. notices[n].status = "leased" /\ notices'[n].status = "attempting" /\ made' = made
      BY <1>4, <2>0, RowsTyped DEF Begins, NoticeRow, TypeInv, TypeOK
    <3>2. RowInv(n)
      BY DEF RowsInv
    <3> QED
      BY <3>1, <3>2, RowsTyped DEF RowInv
  <2>2. shown'[n] = 0 /\ shown' = shown /\ ~Closed(n) /\ Closed(n)'
    BY <1>4, <2>1 DEF Begins, ShownInv, Closed, Unsent
  <2>3. /\ workers'[w].pc = "attempting" /\ workers'[w].request = n
        /\ \A v \in Workers : v # w => workers'[v] = workers[v]
    BY <1>4, <2>0 DEF Begins, TypeInv, TypeOK, Worker
  <2>4. \A r \in Requests : shown'[r] = 0 \/ (shown'[r] = 1 /\ Closed(r)')
    BY <1>0, <2>2 DEF ShownInv
  <2>5. ASSUME NEW v \in Workers, v # w, workers'[v].pc = "attempting"
        PROVE  /\ shown'[workers'[v].request] = 0 /\ Closed(workers[v].request)'
               /\ workers'[v].request # n
    <3>1. workers'[v] = workers[v] /\ workers[v].pc = "attempting"
      BY <2>3, <2>5
    <3>2. PICK r \in Requests : r = workers[v].request /\ r = workers'[v].request
      BY <1>1, <3>1
    <3>3. shown[r] = 0 /\ Closed(r)
      BY <3>1, <3>2 DEF ShownInv
    <3>4. r # n /\ shown'[r] = 0 /\ Closed(r)'
      BY <1>0, <2>2, <3>3
    <3> QED
      BY <3>2, <3>4 DEF Closed
  <2>6. shown'[workers'[w].request] = 0 /\ Closed(workers[w].request)'
    BY <2>2, <2>3 DEF Closed
  <2>7. ASSUME NEW v \in Workers, NEW u \in Workers, v # u, workers'[v].pc = "attempting",
               workers'[u].pc = "attempting"
        PROVE  workers'[v].request # workers'[u].request
    <3>1. CASE v = w
      BY <2>3, <2>5, <2>7, <3>1
    <3>2. CASE u = w
      BY <2>3, <2>5, <2>7, <3>2
    <3>3. CASE v # w /\ u # w
      BY <2>3, <2>7, <3>3 DEF ShownInv
    <3> QED
      BY <3>1, <3>2, <3>3
  <2> QED
    BY <2>4, <2>5, <2>6, <2>7 DEF ShownInv
<1> QED
  BY <1>2, <1>3, <1>4, SendCases

\* The affected owner is asked at most once, though workers die while they send,
\* leases lapse under them, and the request is denied, purged or deleted.
THEOREM EveryNoticeShownOnce == Spec => []NoticeShownOnce
<1>1. Init => ShownInv
  BY DEF Init, ShownInv, IdleWorker
<1>2. TypeInv /\ RowsInv /\ ShownInv /\ [Next]_vars => ShownInv'
  BY StepTypeInv, ShownStep
<1>3. ShownInv => NoticeShownOnce
  BY DEF ShownInv, NoticeShownOnce
<1> QED
  BY <1>1, <1>2, <1>3, RowsInvHolds, PTL DEF Spec

=============================================================================
