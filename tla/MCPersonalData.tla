--------------------------- MODULE MCPersonalData ---------------------------
(* Values for the constants of PersonalData: turns of three bursts.           *)
EXTENDS PersonalData

MCGenerations == 1..3
MCRevision == <<1, 2, 4>>
MCBurstOf == <<1, 2, 3>>
MCMem == 1..2
MCWindows == {<<2, 3>>}
MCControls == {[action |-> "upsert", content |-> "tea", cites |-> 2],
               [action |-> "remove", content |-> "tea", cites |-> 1]}

=============================================================================
