---------------------------- MODULE MCFreshness ----------------------------
(* Small durations that keep their order: a stop is shorter than the       *)
(* tolerance, an assertion outlives two stops, a response may outlive the  *)
(* window.                                                                 *)
EXTENDS Freshness

=============================================================================
