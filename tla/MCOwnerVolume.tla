--------------------------- MODULE MCOwnerVolume ----------------------------
(* Values for the constants of OwnerVolume: two processes and two facts, one  *)
(* of which is deleted.                                                       *)
EXTENDS OwnerVolume

MCProcs == {"p1", "p2"}
MCFacts == {"kept", "deleted"}
MCDeletable == {"deleted"}

=============================================================================
