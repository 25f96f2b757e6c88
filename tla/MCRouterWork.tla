---------------------------- MODULE MCRouterWork ----------------------------
(* Values for the constants of RouterWork: two workers and a queue of one.    *)
EXTENDS RouterWork

MCWorkers == {"w1", "w2"}
MCSessions == Gens

=============================================================================
