-------------------------- MODULE MCControlUpdates --------------------------
(* Values for the constants of ControlUpdates: in one chat a link and then    *)
(* text; in another the same link and the answer to a confirmation.           *)
EXTENDS ControlUpdates

MCCallers == {"w1", "w2"}
MCUpdates == 1 .. 4
MCChatOf == <<"a", "b", "a", "a">>
MCKindOf == <<"start", "start", "text", "confirm">>

=============================================================================
