--------------------------- MODULE MCPeerExchange ---------------------------
(***************************************************************************)
(* PeerExchange for TLC.                                                   *)
(***************************************************************************)
EXTENDS PeerExchange, FiniteSets, TLC

CONSTANTS a, b, k1, k2

\* The first owner's assistant asks twice, in two generations.
BothOfA == k1 :> a @@ k2 :> a
TwoSources == k1 :> "g1" @@ k2 :> "g2"

\* An availability question, and an ordinary message after or before it.
AskAndTell == k1 :> "availability" @@ k2 :> "ordinary"

\* The one grants everything, the other everything or all but the availability.
Grant(share) == [communicate |-> TRUE, autoReply |-> TRUE, share |-> share]
FullOrReply == a :> {Grant(TRUE)} @@ b :> {Grant(share) : share \in BOOLEAN}

\* Two workers are at work while there is one request; one of them rests once
\* there is another.
OneWorkerForTwo == made <= 1 \/ \E w \in Workers : workers[w].pc = "idle"

\* The lapse of the thread is one of the events of a behaviour.
LapseIsEvent == events + Cardinality({t \in Threads : threads[t].lapsed}) <= MaxEvents

WorkerSymmetry == Permutations(Workers)

=============================================================================
