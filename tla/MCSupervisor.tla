----------------------------- MODULE MCSupervisor -----------------------------
(***************************************************************************)
(* Supervisor for TLC, in two scenarios: one instance is started twice and *)
(* the guard's emergency lasts, or it is started once and the guard leaves *)
(* the emergency and comes back.  Only calls of clients and of the guard,  *)
(* of which no fairness is assumed, are left out of a scenario.            *)
(***************************************************************************)
EXTENDS Supervisor

VARIABLE scenario

MCInit == Init /\ scenario \in {"replace", "relax"}

MCNext ==
  /\ Next
  /\ scenario = "replace" => relaxations' = 0
  /\ scenario = "relax" => current' <= 1
  /\ UNCHANGED scenario

MCSpec == MCInit /\ [][MCNext]_<<vars, scenario>>

MCFairSpec == MCSpec /\ Fairness
=============================================================================
