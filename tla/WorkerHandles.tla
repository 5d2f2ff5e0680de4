---------------------------- MODULE WorkerHandles ----------------------------
(***************************************************************************)
(* What the engine may rely on about the workers of an instance: a worker  *)
(* is started only when the one before is over, what is over stays over,   *)
(* and a stop is confirmed only for a worker that is over.                 *)
(*                                                                         *)
(* InstanceLifecycle.tla takes this for the supervisor; Supervisor.tla,    *)
(* which has the processes, implements it.                                 *)
(***************************************************************************)
EXTENDS Naturals

VARIABLES
  current,   \* the handle of the latest start, 0 before the first
  alive,     \* the handles that have a worker, or may still get one
  confirmed  \* handles whose stop was confirmed to a caller that is not done with it

vars == <<current, alive, confirmed>>

Init == current = 0 /\ alive = {} /\ confirmed = {}

\* Start replaces the handle when there is nothing more to expect from it.
Install ==
  /\ current \notin alive
  /\ current' = current + 1 /\ alive' = alive \cup {current + 1}
  /\ UNCHANGED confirmed

\* A worker ends, or a start ends without one.
End(h) ==
  /\ alive' = alive \ {h}
  /\ UNCHANGED <<current, confirmed>>

\* A stop answers that the worker is over.
Confirm(h) ==
  /\ alive' = alive \ {h}
  /\ h \in confirmed' /\ confirmed' \subseteq confirmed \cup {h}
  /\ UNCHANGED current

\* A caller has used such an answer.
Forget ==
  /\ confirmed' \subseteq confirmed
  /\ UNCHANGED <<current, alive>>

Next == Install \/ (\E h \in 1..current : End(h) \/ Confirm(h)) \/ Forget

Spec == Init /\ [][Next]_vars
=============================================================================
