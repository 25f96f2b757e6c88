-------------------------- MODULE MCTelegramTurns --------------------------
(* Instances of TelegramTurns for TLC. *)
EXTENDS TelegramTurns, TLC

CONSTANT c1

\* All messages come from one chat.
OneChat == [m \in Updates |-> c1]

\* The workers are interchangeable (no liveness property is checked with this).
WorkerSymmetry == Permutations(Workers)

=============================================================================
