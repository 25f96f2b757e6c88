------------------------ MODULE ControlUpdatesProofs ------------------------
(* That updates are started in the order of their chat, and that the host     *)
(* keeps the credentials it lives on, for any number of updates, workers,     *)
(* deployments, expiries, failures and deaths.                                *)
EXTENDS ControlUpdates, TLAPS

-----------------------------------------------------------------------------
(* The order of updates. *)

Statuses == {"new", "pending", "processing", "completed"}

RowType == [status : Statuses, attempts : Nat, due : BOOLEAN]

Busy ==
  {"handle", "bind", "greet", "set up", "token", "locked", "execute", "apologise", "answer"}
Places == Busy \cup {"idle", "controls", "dead"}

\* What is in hand, a dead worker's too, is an update, it is marked as such, and by
\* one worker only.
InHand ==
  /\ \A w \in Workers : worker[w].at \in Busy \/ worker[w].update # NoUpdate =>
       worker[w].update \in Updates /\ inbox[worker[w].update].status = "processing"
  /\ \A w, x \in Workers :
       worker[w].update # NoUpdate /\ worker[w].update = worker[x].update => w = x

\* Updates come in order, and what has not come was not tried.
Arrived ==
  /\ \A u, v \in Updates : u < v /\ inbox[v].status # "new" => inbox[u].status # "new"
  /\ \A u \in Updates : inbox[u].status = "new" => inbox[u].attempts = 0

HandType == [at : Places, update : Updates \cup {NoUpdate}, force : BOOLEAN]

OrderInv ==
  /\ inbox \in [Updates -> RowType] /\ worker \in [Workers -> HandType]
  /\ InHand /\ Arrived /\ ControlsInOrder

\* What a step of a worker's handling does here: it goes on with the same update.
GoesOn(w) ==
  /\ worker[w].at \in Busy /\ inbox' = inbox
  /\ \E at \in Busy, force \in BOOLEAN :
       worker' = [worker EXCEPT ![w].at = at, ![w].force = force]

\* Or it is done with it: the update is over, or waits for another try.
LetsGo(w) ==
  /\ worker[w].at \in Busy /\ worker' = [worker EXCEPT ![w] = Idle]
  /\ \E status \in {"pending", "completed"}, due \in BOOLEAN :
       inbox' = [inbox EXCEPT ![worker[w].update].status = status, ![worker[w].update].due = due]

LEMMA GotoGoesOn ==
  ASSUME OrderInv, NEW w \in Workers, worker[w].at \in Busy, NEW at \in Busy,
         Goto(w, at), inbox' = inbox
  PROVE  GoesOn(w)
<1>1. worker[w].force \in BOOLEAN
  BY DEF OrderInv, HandType
<1>2. worker' = [worker EXCEPT ![w].at = at, ![w].force = worker[w].force]
  BY DEF Goto, OrderInv, HandType
<1> QED
  BY <1>1, <1>2 DEF GoesOn

LEMMA RetryLetsGo ==
  ASSUME OrderInv, NEW w \in Workers, worker[w].at \in Busy, RetryOrComplete(w)
  PROVE  LetsGo(w)
<1> DEFINE u == worker[w].update
           status == IF inbox[u].attempts >= MaxAttempts THEN "completed" ELSE "pending"
<1>1. u \in Updates /\ inbox[u] \in RowType
  BY DEF OrderInv, InHand
<1>2. inbox' = [inbox EXCEPT ![u].status = status, ![u].due = FALSE]
  BY <1>1 DEF RetryOrComplete, OrderInv, Row, RowType
<1> QED
  BY <1>2 DEF RetryOrComplete, LetsGo

LEMMA DoneLetsGo ==
  ASSUME OrderInv, NEW w \in Workers, worker[w].at \in Busy, Done(w)
  PROVE  LetsGo(w)
<1> DEFINE u == worker[w].update
<1>1. u \in Updates /\ inbox[u] \in RowType
  BY DEF OrderInv, InHand
<1>2. inbox' = [inbox EXCEPT ![u].status = "completed", ![u].due = inbox[u].due]
  BY <1>1 DEF Done, OrderInv, RowType
<1> QED
  BY <1>1, <1>2 DEF Done, LetsGo, RowType

\* Every step of a worker after its claim is one of the two.
LEMMA HandlingSteps ==
  ASSUME OrderInv, NEW w \in Workers, WorkerStep(w),
         ~ \E u \in Updates : ClaimUpdate(w, u), ~FindNoUpdate(w)
  PROVE  GoesOn(w) \/ LetsGo(w)
<1>1. CASE Handle(w)
  <2>1. worker[w].at \in Busy
    BY <1>1 DEF Handle, At, Busy
  <2>2. CASE \E at \in {"bind", "answer", "token"} : Goto(w, at) /\ inbox' = inbox
    BY <2>1, <2>2, GotoGoesOn DEF Busy
  <2>3. CASE RetryOrComplete(w)
    BY <2>1, <2>3, RetryLetsGo
  <2> QED
    BY <1>1, <2>2, <2>3 DEF Handle, Say
<1>2. CASE Bind(w) \/ SetUp(w) \/ TakeLock(w)
  <2>1. worker[w].at \in Busy
    BY <1>2 DEF Bind, SetUp, TakeLock, At, Busy
  <2>2. \E at \in {"greet", "answer", "locked"} : Goto(w, at) /\ inbox' = inbox
    BY <1>2 DEF Bind, SetUp, TakeLock
  <2> QED
    BY <2>1, <2>2, GotoGoesOn DEF Busy
<1>3. CASE Greet(w)
  <2>1. worker[w].at \in Busy
    BY <1>3 DEF Greet, At, Busy
  <2>2. (Goto(w, "set up") /\ inbox' = inbox) \/ RetryOrComplete(w)
    BY <1>3 DEF Greet, Say
  <2> QED
    BY <2>1, <2>2, GotoGoesOn, RetryLetsGo DEF Busy
<1>4. CASE GetToken(w)
  <2>1. worker[w].at = "locked" /\ inbox' = inbox /\ worker[w].at \in Busy
    BY <1>4 DEF GetToken, At, Busy
  <2>2. CASE \E at \in {"apologise", "execute"} : Goto(w, at)
    BY <2>1, <2>2, GotoGoesOn DEF Busy
  <2>3. CASE worker' = worker
    <3>1. Goto(w, "locked")
      BY <2>1, <2>3 DEF Goto, OrderInv, HandType
    <3> QED
      BY <2>1, <3>1, GotoGoesOn DEF Busy
  <2> QED
    BY <1>4, <2>2, <2>3 DEF GetToken
<1>5. CASE Execute(w)
  <2>1. worker[w].at \in Busy /\ inbox' = inbox
    BY <1>5 DEF Execute, At, Busy
  <2>2. CASE \E at \in {"answer", "apologise"} : Goto(w, at)
    BY <2>1, <2>2, GotoGoesOn DEF Busy
  <2>3. CASE TryAgain(w)
    BY <2>1, <2>3 DEF TryAgain, GoesOn, Busy
  <2> QED
    BY <1>5, <2>2, <2>3 DEF Execute
<1>6. CASE Apologise(w)
  BY <1>6, RetryLetsGo DEF Apologise, Say, At, Busy
<1>7. CASE Answer(w)
  BY <1>7, RetryLetsGo, DoneLetsGo DEF Answer, Say, At, Busy
<1> QED
  BY <1>1, <1>2, <1>3, <1>4, <1>5, <1>6, <1>7 DEF WorkerStep

LEMMA GoesOnKeepsOrder ==
  ASSUME OrderInv, NEW w \in Workers, GoesOn(w)
  PROVE  OrderInv'
<1>1. PICK at \in Busy, force \in BOOLEAN :
        worker' = [worker EXCEPT ![w].at = at, ![w].force = force]
  BY DEF GoesOn
<1>2. /\ worker' \in [Workers -> HandType] /\ worker'[w].at = at
      /\ \A x \in Workers : worker'[x].update = worker[x].update
      /\ \A x \in Workers : x # w => worker'[x] = worker[x]
  BY <1>1 DEF OrderInv, HandType, Places
<1>3. InHand'
  BY <1>2 DEF InHand, OrderInv, GoesOn
<1> QED
  BY <1>2, <1>3 DEF OrderInv, GoesOn, Arrived, ControlsInOrder

LEMMA LetsGoKeepsOrder ==
  ASSUME OrderInv, NEW w \in Workers, LetsGo(w)
  PROVE  OrderInv'
<1> DEFINE u == worker[w].update
<1>1. PICK status \in {"pending", "completed"}, due \in BOOLEAN :
        inbox' = [inbox EXCEPT ![u].status = status, ![u].due = due]
  BY DEF LetsGo
<1>2. u \in Updates /\ inbox[u].status = "processing"
  BY DEF LetsGo, OrderInv, InHand
<1>3. /\ inbox' \in [Updates -> RowType] /\ inbox'[u].status = status
      /\ \A v \in Updates : inbox'[v].attempts = inbox[v].attempts
      /\ \A v \in Updates : v # u => inbox'[v] = inbox[v]
  BY <1>1, <1>2 DEF OrderInv, RowType, Statuses
<1>4. /\ worker' \in [Workers -> HandType] /\ worker'[w].at = "idle" /\ worker'[w].update = NoUpdate
      /\ \A x \in Workers : x # w => worker'[x] = worker[x]
  BY DEF LetsGo, OrderInv, HandType, Places, Idle
<1>5. InHand'
  <2>1. "idle" \notin Busy /\ u # NoUpdate
    BY <1>2, ControlAssumption DEF Busy
  <2>2. \A x \in Workers : x # w => worker[x].update # u
    BY <1>2, <2>1 DEF InHand, OrderInv
  <2> QED
    BY <1>2, <1>3, <1>4, <2>1, <2>2 DEF InHand, OrderInv
<1>6. Arrived'
  BY <1>2, <1>3 DEF Arrived, OrderInv
<1>7. ControlsInOrder'
  BY <1>2, <1>3 DEF ControlsInOrder, OrderInv
<1> QED
  BY <1>3, <1>4, <1>5, <1>6, <1>7 DEF OrderInv

LEMMA ReceiveKeepsOrder ==
  ASSUME OrderInv, NEW u \in Updates, Receive(u)
  PROVE  OrderInv'
<1>1. /\ inbox' \in [Updates -> RowType] /\ inbox'[u].status = "pending" /\ inbox'[u].attempts = 0
      /\ \A v \in Updates : v # u => inbox'[v] = inbox[v]
  BY DEF Receive, OrderInv, RowType, Statuses, Row
<1>2. inbox[u].status = "new" /\ worker' = worker
  BY DEF Receive
<1>3. \A v \in Updates : u < v => inbox[v].status = "new" /\ inbox[v].attempts = 0
  BY <1>2 DEF OrderInv, Arrived
<1>4. InHand'
  BY <1>1, <1>2 DEF InHand, OrderInv
<1>5. Arrived'
  <2>1. \A v \in Updates : v < u => inbox[v].status # "new"
    BY DEF Receive
  <2> QED
    BY <1>1, <1>2, <2>1, ControlAssumption DEF Arrived, OrderInv
<1>6. ControlsInOrder'
  BY <1>1, <1>2, <1>3, ControlAssumption DEF ControlsInOrder, OrderInv
<1> QED
  BY <1>1, <1>2, <1>4, <1>5, <1>6 DEF OrderInv

LEMMA BecomesDueKeepsOrder ==
  ASSUME OrderInv, NEW u \in Updates, BecomesDue(u)
  PROVE  OrderInv'
<1>1. /\ inbox' \in [Updates -> RowType] /\ worker' = worker
      /\ \A v \in Updates : inbox'[v].attempts = inbox[v].attempts /\ inbox'[v].status = inbox[v].status
  BY DEF BecomesDue, OrderInv, RowType
<1> QED
  BY <1>1 DEF OrderInv, InHand, Arrived, ControlsInOrder

LEMMA ClaimKeepsOrder ==
  ASSUME OrderInv, NEW w \in Workers, NEW u \in Updates, ClaimUpdate(w, u)
  PROVE  OrderInv'
<1>1. /\ inbox' \in [Updates -> RowType] /\ inbox'[u].status = "processing"
      /\ \A v \in Updates : v # u => inbox'[v] = inbox[v]
  BY DEF ClaimUpdate, OrderInv, RowType, Statuses, Row
<1>2. /\ worker' \in [Workers -> HandType] /\ worker'[w].update = u
      /\ \A x \in Workers : x # w => worker'[x] = worker[x]
  BY DEF ClaimUpdate, OrderInv, HandType, Places, Busy, Idle
<1>3. inbox[u].status = "pending" /\ InTurn(u)
  BY DEF ClaimUpdate, Claimable
<1>4. InHand'
  <2>1. \A x \in Workers : worker[x].update # u
    BY <1>3, ControlAssumption DEF InHand, OrderInv
  <2> QED
    BY <1>1, <1>2, <2>1 DEF InHand, OrderInv
<1>5. Arrived'
  BY <1>1, <1>3 DEF Arrived, OrderInv
<1>6. \A v \in Updates : ChatOf[v] = ChatOf[u] /\ v < u => inbox[v].status = "completed"
  BY <1>3 DEF InTurn, OrderInv, Arrived
<1>7. ControlsInOrder'
  BY <1>1, <1>3, <1>6, ControlAssumption DEF ControlsInOrder, OrderInv
<1> QED
  BY <1>1, <1>2, <1>4, <1>5, <1>7 DEF OrderInv

LEMMA CrashKeepsOrder ==
  ASSUME OrderInv, Crash
  PROVE  OrderInv'
<1>1. inbox' \in [Updates -> RowType]
  BY DEF Crash, Reset, OrderInv, RowType, Statuses, Row
<1>2. \A v \in Updates :
        /\ inbox'[v].attempts = inbox[v].attempts
        /\ inbox'[v].status = IF inbox[v].status = "processing" THEN "pending" ELSE inbox[v].status
  BY DEF Crash, Reset, OrderInv, RowType, Row
<1>3. /\ worker' \in [Workers -> HandType]
      /\ \A w \in Workers : worker'[w].at \notin Busy /\ worker'[w].update = NoUpdate
  BY DEF Crash, Idle, HandType, Places, Busy
<1>4. InHand'
  BY <1>3 DEF InHand
<1>5. Arrived'
  BY <1>2 DEF Arrived, OrderInv
<1>6. ControlsInOrder'
  BY <1>2 DEF ControlsInOrder, OrderInv
<1> QED
  BY <1>1, <1>3, <1>4, <1>5, <1>6 DEF OrderInv

\* A worker goes to look for an update, finds none, or ends with what it has in hand.
LEMMA MovesKeepOrder ==
  ASSUME OrderInv, NEW w \in Workers, FindNoTurn(w) \/ FindNoUpdate(w) \/ Dies(w)
  PROVE  OrderInv'
<1>1. inbox' = inbox
  BY DEF FindNoTurn, FindNoUpdate, Dies
<1>2. PICK at \in {"idle", "controls", "dead"}, force \in BOOLEAN :
        worker' = [worker EXCEPT ![w].at = at, ![w].force = force]
  <2>1. \A at : Goto(w, at) => worker' = [worker EXCEPT ![w].at = at, ![w].force = worker[w].force]
    BY DEF Goto, OrderInv, HandType
  <2> QED
    BY <2>1 DEF FindNoTurn, FindNoUpdate, Dies, OrderInv, HandType
<1>3. /\ worker' \in [Workers -> HandType]
      /\ worker'[w].at \notin Busy
      /\ \A x \in Workers : worker'[x].update = worker[x].update
      /\ \A x \in Workers : x # w => worker'[x] = worker[x]
  BY <1>2 DEF OrderInv, HandType, Places, Busy
<1>4. InHand'
  BY <1>1, <1>3 DEF InHand, OrderInv
<1> QED
  BY <1>1, <1>3, <1>4 DEF OrderInv, Arrived, ControlsInOrder

LEMMA OrderInvInductive == OrderInv /\ [Next]_vars => OrderInv'
<1> SUFFICES ASSUME OrderInv, [Next]_vars PROVE OrderInv'
  OBVIOUS
<1>1. ASSUME NEW u \in Updates, Receive(u) \/ BecomesDue(u) PROVE OrderInv'
  BY <1>1, ReceiveKeepsOrder, BecomesDueKeepsOrder
<1>2. ASSUME NEW w \in Workers, WorkerStep(w) \/ FindNoTurn(w) \/ Dies(w) PROVE OrderInv'
  <2>1. CASE \E u \in Updates : ClaimUpdate(w, u)
    BY <2>1, ClaimKeepsOrder
  <2>2. CASE FindNoTurn(w) \/ FindNoUpdate(w) \/ Dies(w)
    BY <2>2, MovesKeepOrder
  <2>3. CASE WorkerStep(w) /\ ~FindNoUpdate(w) /\ ~ \E u \in Updates : ClaimUpdate(w, u)
    BY <2>3, HandlingSteps, GoesOnKeepsOrder, LetsGoKeepsOrder
  <2> QED
    BY <1>2, <2>1, <2>2, <2>3
<1>3. CASE Crash
  BY <1>3, CrashKeepsOrder
<1>4. CASE LinkExpires \/ TokenExpires \/ UNCHANGED vars
  <2>1. inbox' = inbox /\ worker' = worker
    BY <1>4 DEF LinkExpires, TokenExpires, vars, controlVars
  <2> QED
    BY <2>1 DEF OrderInv, InHand, Arrived, ControlsInOrder
<1> QED
  BY <1>1, <1>2, <1>3, <1>4 DEF Next

\* However often an update fails, backs off or is taken up again after a death of
\* the process, the updates of its chat that came after it wait until it is over
\* (claim_next_update, retry_update, reset_interrupted_updates).
THEOREM UpdatesInOrder == Spec => []ControlsInOrder
<1>1. Init => OrderInv
  <2> SUFFICES ASSUME Init PROVE OrderInv
    OBVIOUS
  <2>1. /\ inbox \in [Updates -> RowType]
        /\ \A u \in Updates : inbox[u].status = "new" /\ inbox[u].attempts = 0
    BY DEF Init, RowType, Statuses, Row
  <2>2. /\ worker \in [Workers -> HandType]
        /\ \A w \in Workers : worker[w].at \notin Busy /\ worker[w].update = NoUpdate
    BY DEF Init, Idle, HandType, Places, Busy
  <2> QED
    BY <2>1, <2>2 DEF OrderInv, InHand, Arrived, ControlsInOrder
<1>2. OrderInv => ControlsInOrder
  BY DEF OrderInv
<1> QED
  BY <1>1, <1>2, OrderInvInductive, PTL DEF Spec

-----------------------------------------------------------------------------
(* The credentials of the host. *)

FileType == [family : 0 .. MaxBootstraps, number : Nat, fresh : BOOLEAN]

AuthSteps == {"free", "read", "adopted", "ready", "refreshed"}

AuthTypes ==
  /\ bootstrap \in Families /\ fingerprint \in Nat /\ file \in FileType
  /\ issued \in [Families -> Nat] /\ auth \in AuthSteps

\* Of a bootstrap nothing is used before its fingerprint is written, and that is
\* written after the credentials; what a holder of the lock has found stays so.
AuthInv ==
  /\ AuthTypes
  /\ fingerprint <= file.family /\ file.family <= bootstrap
  /\ \A f \in Families : f > fingerprint => issued[f] = 0
  /\ holder = NoCaller => auth = "free"
  /\ auth \in {"adopted", "ready", "refreshed"} => file.family = bootstrap
  /\ auth \in {"ready", "refreshed"} => fingerprint = bootstrap
  /\ CredentialsAreKept

AuthIdle == UNCHANGED <<bootstrap, file, fingerprint, issued, spoilt, holder, auth>>

AuthStep ==
  \/ \E w \in Workers : LockAuth(w)
  \/ Adopt \/ Refresh \/ RefreshFails \/ NoRefresh \/ Save \/ Expire \/ AuthCrash

\* What the updates do to the credentials is what the broker does.
LEMMA StepsOfTheBroker == [Next]_vars => AuthStep \/ AuthIdle
<1> SUFFICES ASSUME [Next]_vars PROVE AuthStep \/ AuthIdle
  OBVIOUS
<1>1. ASSUME NEW u \in Updates, Receive(u) \/ BecomesDue(u) PROVE AuthIdle
  BY <1>1 DEF Receive, BecomesDue, authVars, AuthIdle
<1>2. ASSUME NEW w \in Workers, WorkerStep(w) \/ FindNoTurn(w) \/ Dies(w)
      PROVE  AuthStep \/ AuthIdle
  <2>1. ASSUME NEW u \in Updates, ClaimUpdate(w, u) PROVE AuthIdle
    BY <2>1 DEF ClaimUpdate, authVars, AuthIdle
  <2>2. CASE Handle(w) \/ Greet(w) \/ Apologise(w) \/ Answer(w)
    BY <2>2 DEF Handle, Greet, Apologise, Answer, Say, authVars, AuthIdle
  <2>3. CASE Bind(w) \/ SetUp(w) \/ Execute(w)
    BY <2>3 DEF Bind, SetUp, Execute, authVars, AuthIdle
  <2>4. CASE TakeLock(w) \/ GetToken(w)
    BY <2>4 DEF TakeLock, GetToken, AuthStep
  <2>5. CASE FindNoTurn(w) \/ FindNoUpdate(w) \/ Dies(w)
    BY <2>5 DEF FindNoTurn, FindNoUpdate, Dies, authVars, AuthIdle
  <2> QED
    BY <1>2, <2>1, <2>2, <2>3, <2>4, <2>5 DEF WorkerStep
<1>3. CASE LinkExpires \/ UNCHANGED vars
  BY <1>3 DEF LinkExpires, vars, authVars, AuthIdle
<1>4. CASE TokenExpires \/ Crash
  BY <1>4 DEF TokenExpires, Crash, AuthStep
<1> QED
  BY <1>1, <1>2, <1>3, <1>4 DEF Next

LEMMA AuthInvInductive == AuthInv /\ [Next]_vars => AuthInv'
<1> SUFFICES ASSUME AuthInv, AuthStep \/ AuthIdle PROVE AuthInv'
  BY StepsOfTheBroker
<1> USE DEF AuthInv, AuthTypes, FileType, AuthSteps, Families, CredentialsAreKept
<1>1. ASSUME NEW w \in Workers, LockAuth(w) PROVE AuthInv'
  BY <1>1, AuthAssumption DEF LockAuth, Workers
<1>2. CASE Adopt
  <2>1. CASE auth = "read" /\ (fingerprint # bootstrap \/ file.family = 0)
    <3>1. issued[bootstrap] = 0
      BY <2>1
    <3>2. PICK b \in BOOLEAN : file' = [family |-> bootstrap, number |-> 0, fresh |-> b]
      BY <1>2, <2>1 DEF Adopt
    <3>3. /\ file'.family = bootstrap /\ file'.number = 0 /\ file' \in FileType
          /\ UNCHANGED <<bootstrap, fingerprint, issued, spoilt, holder>> /\ auth' = "adopted"
      BY <1>2, <2>1, <3>2, AuthAssumption DEF Adopt, AuthGoto
    <3> QED
      BY <2>1, <3>1, <3>3, AuthAssumption
  <2>2. CASE auth = "read" /\ fingerprint = bootstrap /\ file.family # 0
    BY <1>2, <2>2, AuthAssumption DEF Adopt, AuthGoto
  <2>3. CASE auth = "adopted"
    BY <1>2, <2>3, AuthAssumption DEF Adopt, AuthGoto
  <2> QED
    BY <1>2, <2>1, <2>2, <2>3 DEF Adopt
<1>3. CASE Refresh
  BY <1>3, AuthAssumption DEF Refresh, AuthGoto
<1>4. CASE RefreshFails
  BY <1>4, AuthAssumption DEF RefreshFails, Unlock, Failure
<1>5. CASE NoRefresh
  BY <1>5, AuthAssumption DEF NoRefresh, Unlock
<1>6. CASE Save
  BY <1>6, AuthAssumption DEF Save, Unlock
<1>7. CASE Expire
  BY <1>7, AuthAssumption DEF Expire
<1>8. CASE AuthCrash
  BY <1>8, AuthAssumption DEF AuthCrash, Unlock
<1>9. CASE AuthIdle
  BY <1>9 DEF AuthIdle
<1> QED
  BY <1>1, <1>2, <1>3, <1>4, <1>5, <1>6, <1>7, <1>8, <1>9 DEF AuthStep

\* Through deployments with new credentials, refreshes, expiries and deaths between
\* the writes of the two files, what the host keeps is what the service honours,
\* but for an answer that was lost (access_token, _refresh, _write_private).
THEOREM CredentialsKept == Spec => []CredentialsAreKept
<1>1. Init => AuthInv
  BY AuthAssumption DEF Init, AuthInit, AuthInv, AuthTypes, FileType, AuthSteps, Families, CredentialsAreKept
<1>2. AuthInv => CredentialsAreKept
  BY DEF AuthInv
<1> QED
  BY <1>1, <1>2, AuthInvInductive, PTL DEF Spec

=============================================================================
