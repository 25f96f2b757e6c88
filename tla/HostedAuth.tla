----------------------------- MODULE HostedAuth -----------------------------
(* HostedSuperGrokTokenBroker: one file with the credentials of all owners,   *)
(* first taken from the deployment's bootstrap, then kept current by the      *)
(* host. The service honours only the last refresh token it issued, so what   *)
(* is in the file must not fall behind. The tokens of a bootstrap are         *)
(* numbered in the order of their issue; an access token goes with each.      *)
EXTENDS Naturals

CONSTANTS
  Callers,        \* threads, of this process or of another one on the volume
  MaxBootstraps,  \* bound: deployments with new credentials
  MaxIssued,      \* bound: refresh tokens issued of one bootstrap before the last expiry
  MaxFailures,    \* bound: calls that fail, of whatever service
  NoCaller

ASSUME AuthAssumption == MaxBootstraps \in Nat /\ NoCaller \notin Callers

VARIABLES
  bootstrap,    \* the credentials this deployment was given
  file,         \* supergrok.json: [family, number, fresh]; family 0 before there is one
  fingerprint,  \* supergrok.json.bootstrap: the family adopted last, 0 before
  issued,       \* by family, the number of the refresh token the service honours
  spoilt,       \* families whose last token was issued and never stored
  holder,       \* who has the process lock
  auth,         \* where its holder is
  failures

authVars == <<bootstrap, file, fingerprint, issued, spoilt, holder, auth, failures>>

Families == 1 .. MaxBootstraps

Failure == failures < MaxFailures /\ failures' = failures + 1

AuthGoto(step) == auth' = step /\ UNCHANGED holder
Unlock == auth' = "free" /\ holder' = NoCaller

-----------------------------------------------------------------------------
\* _process_lock
LockAuth(c) ==
  /\ holder = NoCaller /\ holder' = c /\ auth' = "read"
  /\ UNCHANGED <<bootstrap, file, fingerprint, issued, spoilt, failures>>

\* Mutant: the fingerprint is written before the credentials.
StampFirst ==
  /\ \/ /\ auth = "read" /\ (fingerprint # bootstrap \/ file.family = 0)
        /\ fingerprint' = bootstrap /\ AuthGoto("adopted") /\ UNCHANGED file
     \/ /\ auth = "read" /\ fingerprint = bootstrap /\ file.family # 0
        /\ AuthGoto("ready") /\ UNCHANGED <<file, fingerprint>>
     \/ /\ auth = "adopted" /\ AuthGoto("ready") /\ UNCHANGED fingerprint
        /\ file' \in {[family |-> bootstrap, number |-> 0, fresh |-> b] : b \in BOOLEAN}
  /\ UNCHANGED <<bootstrap, issued, spoilt, failures>>

\* New credentials of the deployment replace what is there: the credentials are
\* written, then the fingerprint that says so.
Adopt ==
  /\ \/ /\ auth = "read" /\ (fingerprint # bootstrap \/ file.family = 0)
        /\ file' \in {[family |-> bootstrap, number |-> 0, fresh |-> b] : b \in BOOLEAN}
        /\ AuthGoto("adopted") /\ UNCHANGED fingerprint
     \/ /\ auth = "read" /\ fingerprint = bootstrap /\ file.family # 0
        /\ AuthGoto("ready") /\ UNCHANGED <<file, fingerprint>>
     \/ /\ auth = "adopted" /\ fingerprint' = bootstrap
        /\ AuthGoto("ready") /\ UNCHANGED file
  /\ UNCHANGED <<bootstrap, issued, spoilt, failures>>

\* _refresh: the service may issue a new refresh token with the access token, or
\* leave the old one in force. It refuses one that is not the last; the request
\* may be lost, or the answer, or what it says be of no use.
Refresh ==
  /\ auth = "ready" /\ file.number = issued[file.family] /\ AuthGoto("refreshed")
  /\ issued' \in {issued, [issued EXCEPT ![file.family] = @ + 1]}
  /\ UNCHANGED <<bootstrap, file, fingerprint, spoilt, failures>>

RefreshFails ==
  /\ auth = "ready" /\ Unlock
  /\ \/ file.number # issued[file.family] /\ UNCHANGED <<issued, spoilt, failures>>
     \/ Failure /\ UNCHANGED <<issued, spoilt>>
     \/ /\ Failure /\ file.number = issued[file.family]
        /\ issued' = [issued EXCEPT ![file.family] = @ + 1]
        /\ spoilt' = spoilt \cup {file.family}
  /\ UNCHANGED <<bootstrap, file, fingerprint>>

\* The token at hand is good for two more minutes.
NoRefresh ==
  /\ auth = "ready" /\ file.fresh /\ Unlock
  /\ UNCHANGED <<bootstrap, file, fingerprint, issued, spoilt, failures>>

\* Mutant: of the answer only the access token is kept.
SaveAccessOnly ==
  /\ auth = "refreshed" /\ Unlock /\ file' = [file EXCEPT !.fresh = TRUE]
  /\ UNCHANGED <<bootstrap, fingerprint, issued, spoilt, failures>>

\* _write_auth: a new file in the old one's place.
Save ==
  /\ auth = "refreshed" /\ Unlock
  /\ file' = [file EXCEPT !.number = issued[file.family], !.fresh = TRUE]
  /\ UNCHANGED <<bootstrap, fingerprint, issued, spoilt, failures>>

\* Time passes; a token that was just checked may also be refused at once.
Expire ==
  /\ file.fresh /\ issued[file.family] < MaxIssued /\ file' = [file EXCEPT !.fresh = FALSE]
  /\ UNCHANGED <<bootstrap, fingerprint, issued, spoilt, holder, auth, failures>>

\* The process dies and another takes its place, of the same deployment or the
\* next: the lock is free, and an answer that was not stored is lost.
AuthCrash ==
  /\ bootstrap' \in {bootstrap, bootstrap + 1} \cap Families
  /\ Unlock
  /\ spoilt' = IF auth = "refreshed" /\ issued[file.family] # file.number
               THEN spoilt \cup {file.family} ELSE spoilt
  /\ UNCHANGED <<file, fingerprint, issued, failures>>

\* A first deployment, or one after another, which left its credentials.
AuthInit ==
  /\ bootstrap \in Families /\ fingerprint = bootstrap - 1
  /\ file = [family |-> bootstrap - 1, number |-> 0, fresh |-> FALSE]
  /\ issued = [f \in Families |-> 0] /\ spoilt = {}
  /\ holder = NoCaller /\ auth = "free" /\ failures = 0

=============================================================================
