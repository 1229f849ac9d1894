--------------------------- MODULE MCResolvePlan ---------------------------
(* Every index of a few packages and every request, for TLC. *)
EXTENDS ResolvePlan
=============================================================================
