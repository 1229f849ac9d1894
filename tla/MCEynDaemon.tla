---------------------------- MODULE MCEynDaemon ----------------------------
(* Model-checking instances of EynDaemon. *)
EXTENDS EynDaemon, TLC

CallersAreAlike == Permutations(Clients)
=============================================================================
