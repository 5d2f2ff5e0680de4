------------------------ MODULE MCInstanceLifecycle ------------------------
(***************************************************************************)
(* InstanceLifecycle for TLC, with a state constraint in place of a third  *)
(* worker.  (The other runs take the specification as it is, with the      *)
(* actors they need.)                                                      *)
(***************************************************************************)
EXTENDS InstanceLifecycle

EmergencyPhases == {"guard_emergency_stopping", "guard_emergency_unconfirmed"}

\* The guard is at work, or something of it is left.
Emergency ==
  \/ guard # "idle" \/ receipt # NoTarget
  \/ inst.phase \in EmergencyPhases \/ backup.phase \in EmergencyPhases
  \/ \E r \in reapers : r.phase \in EmergencyPhases

\* Bounds: the guard's emergency meets the life of the first worker, the second
\* worker comes with a stop or a restart; two reapers wait at a time.
Bounded ==
  /\ Emergency => current <= 1 /\ \A c \in Closers : closer[c] = "idle"
  /\ Cardinality(reapers) <= 2
=============================================================================
