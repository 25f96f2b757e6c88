---------------------------- MODULE MCTurnEngine ----------------------------
(* The tools for TurnEngine: each kind that the engine tells apart.           *)
EXTENDS TurnEngine

MCTools == {"search", "act", "list", "ask", "resume"}

=============================================================================
