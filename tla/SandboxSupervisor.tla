------------------------- MODULE SandboxSupervisor --------------------------
(* DaytonaSupervisor.reconcile for one owner: the registry's row on one side, *)
(* the sandbox service on the other. The service knows sandboxes by name and  *)
(* refuses a second one of a name, and an owner's sandbox has always the same *)
(* name. One reconciliation runs at a time (the owner's lock); every call of  *)
(* the service may fail, and one that creates may fail after it has created.  *)
EXTENDS Naturals

CONSTANTS
  MaxSnapshot,  \* bound: deployments that change the snapshot
  MaxTroubles,  \* bound: calls of the service that fail, and sandboxes that stop,
                \* break or vanish on their own
  NoBox

VARIABLES
  wanted,    \* the snapshot the host is deployed with
  record,    \* the owner's row: [snapshot, status]; snapshot 0 before there is one
  box,       \* the owner's sandbox: NoBox or [state, snapshot]
  at,        \* where the reconciliation is
  troubles

supervisorVars == <<wanted, record, box, at, troubles>>

Upsert(status) == record' = [snapshot |-> wanted, status |-> status]

\* A call of the service that fails, or a sandbox that does.
Trouble == troubles < MaxTroubles /\ troubles' = troubles + 1

\* _fail: the row says so, the caller gets the exception.
Fail == Upsert("error") /\ at' = "idle"

Goto(step) == at' = step /\ UNCHANGED record

State == IF box = NoBox THEN "gone" ELSE box.state
IsWanted == box # NoBox /\ box.snapshot = wanted

-----------------------------------------------------------------------------
Reconcile ==
  /\ at = "idle"
  /\ \/ record.snapshot \notin {0, wanted} /\ Goto("replace")
     \/ record.snapshot = wanted /\ record.status = "ready" /\ Goto("look")
     \/ \/ record.snapshot = 0
        \/ record.snapshot = wanted /\ record.status # "ready"
       /\ at' = "create" /\ Upsert("provisioning")
  /\ UNCHANGED <<wanted, box, troubles>>

\* _delete_recorded_sandbox, and the two places that delete before they create.
Replace ==
  /\ at \in {"replace", "delete"}
  /\ \/ box' = NoBox /\ at' = "create" /\ Upsert("provisioning") /\ UNCHANGED troubles
     \/ Trouble /\ Fail /\ UNCHANGED box
  /\ UNCHANGED wanted

\* A sandbox that is recorded as ready: is it there, and what is it?
Look ==
  /\ at = "look"
  /\ \/ Trouble /\ Fail
     \/ /\ UNCHANGED troubles
        /\ \/ box = NoBox /\ at' = "create" /\ Upsert("provisioning")
           \/ State # "gone" /\ (~IsWanted \/ State = "broken") /\ Goto("delete")
           \/ IsWanted /\ State = "stopped" /\ Goto("start")
           \/ IsWanted /\ State = "started" /\ at' = "idle" /\ Upsert("ready")
  /\ UNCHANGED <<wanted, box>>

\* Mutant: a name that is taken means that the sandbox could not be created.
CreateOrFail ==
  /\ at = "create"
  /\ \/ box = NoBox /\ box' = [state |-> "started", snapshot |-> wanted] /\ Goto("test")
        /\ UNCHANGED troubles
     \/ box # NoBox /\ Fail /\ UNCHANGED <<box, troubles>>
     \/ Trouble /\ Fail /\ UNCHANGED box
  /\ UNCHANGED wanted

\* _create: the volume, then the sandbox; if the service refuses, the name may be
\* taken, and whatever has it is used, of whatever snapshot it is. Nothing catches
\* a failure of that lookup.
Create ==
  /\ at = "create"
  /\ \/ box = NoBox /\ box' = [state |-> "started", snapshot |-> wanted] /\ Goto("test")
        /\ (UNCHANGED troubles \/ Trouble)
     \/ box # NoBox /\ Goto(IF State = "stopped" THEN "start" ELSE "test")
        /\ UNCHANGED <<box, troubles>>
     \/ box = NoBox /\ Trouble /\ Fail /\ UNCHANGED box
     \/ box # NoBox /\ Trouble /\ at' = "idle" /\ UNCHANGED <<box, record>>
  /\ UNCHANGED wanted

Start ==
  /\ at = "start"
  /\ \/ /\ box # NoBox /\ box' = [box EXCEPT !.state = IF @ = "stopped" THEN "started" ELSE @]
        /\ Goto("test") /\ UNCHANGED troubles
     \/ box = NoBox /\ Fail /\ UNCHANGED <<box, troubles>>
     \/ Trouble /\ Fail /\ UNCHANGED box
  /\ UNCHANGED wanted

\* _smoke_test; a sandbox that fails it is deleted, unless that call fails too.
Test ==
  /\ at = "test"
  /\ \/ State = "started" /\ at' = "idle" /\ Upsert("ready") /\ UNCHANGED <<box, troubles>>
     \/ State = "started" /\ Trouble /\ Fail /\ box' = NoBox
     \/ State # "started" /\ Fail /\ box' = NoBox /\ UNCHANGED troubles
     \/ State # "started" /\ Trouble /\ Fail /\ UNCHANGED box
  /\ UNCHANGED wanted

\* The host is deployed anew: a reconciliation under way is forgotten.
Redeploy ==
  /\ wanted < MaxSnapshot /\ wanted' = wanted + 1 /\ at' = "idle"
  /\ UNCHANGED <<record, box, troubles>>

Accident ==
  /\ box # NoBox /\ Trouble
  /\ box' \in {[box EXCEPT !.state = "stopped"], [box EXCEPT !.state = "broken"], NoBox}
  /\ UNCHANGED <<wanted, record, at>>

SupervisorInit ==
  /\ wanted = 1 /\ record = [snapshot |-> 0, status |-> "none"] /\ box = NoBox
  /\ at = "idle" /\ troubles = 0

SupervisorStep == Reconcile \/ Replace \/ Look \/ Create \/ Start \/ Test

=============================================================================
