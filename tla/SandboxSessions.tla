-------------------------- MODULE SandboxSessions ---------------------------
(* The command sessions of one sandbox, and what DaytonaClient remembers of   *)
(* those it was asked to delete: several threads may ask, one call is made.   *)
(* Any call of the service may fail, after it took effect or before.          *)
EXTENDS Naturals

CONSTANTS
  Sessions,
  MaxFailures  \* bound: calls of the service that fail

VARIABLES
  session,   \* "none", "running", or "stray": it runs, and nobody means to end it
  keys,      \* _deleted_sessions: deletions under way or done, short of its 1024
  failures

sessionVars == <<session, keys, failures>>

Failure == failures < MaxFailures /\ failures' = failures + 1

Runs(s) == session[s] # "none"

-----------------------------------------------------------------------------
\* delete_session up to the call: the first to ask makes it, the others return.
BeginKill(s) == s \notin keys /\ keys' = keys \cup {s} /\ UNCHANGED <<session, failures>>
SkipKill(s) == s \in keys /\ UNCHANGED sessionVars

\* The call returns.
KillSucceeds(s) ==
  Runs(s) /\ session' = [session EXCEPT ![s] = "none"] /\ UNCHANGED <<keys, failures>>

\* The call raises: each time, when there is no such session; or because the service
\* fails. left: what becomes of the session if it still runs.
KillFails(s, left) ==
  /\ keys' = keys \ {s}
  /\ \/ ~Runs(s) /\ UNCHANGED <<session, failures>>
     \/ /\ Runs(s) /\ Failure
        /\ \E after \in {left, "none"} : session' = [session EXCEPT ![s] = after]

\* start_session_command up to the input: a name is given once at a time.
Open(s) ==
  /\ ~Runs(s) /\ session' = [session EXCEPT ![s] = "running"]
  /\ UNCHANGED <<keys, failures>>

\* It raises: the name is taken, the service refuses, or the terminal does not
\* connect; then it is killed, and a failure of that is ignored.
OpenFails(s) ==
  /\ UNCHANGED keys
  /\ \/ Runs(s) /\ UNCHANGED <<session, failures>>
     \/ Failure /\ UNCHANGED session
     \/ Failure /\ ~Runs(s) /\ session' = [session EXCEPT ![s] = "stray"]

\* Mutant: an earlier deletion of the name is not forgotten.
KeepDeletion(s) == UNCHANGED sessionVars

\* The name is in use again: an earlier deletion of it says nothing now.
ForgetDeletion(s) == keys' = keys \ {s} /\ UNCHANGED <<session, failures>>

\* The command ends, and its session with it.
SessionEnds(s) ==
  /\ Runs(s) /\ session' = [session EXCEPT ![s] = "none"]
  /\ UNCHANGED <<keys, failures>>

SessionsInit == session = [s \in Sessions |-> "none"] /\ keys = {} /\ failures = 0

=============================================================================
