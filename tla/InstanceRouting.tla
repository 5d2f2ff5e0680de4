--------------------------- MODULE InstanceRouting ---------------------------
(***************************************************************************)
(* What an inference request may rely on about the routing of an instance, *)
(* whatever starts, stops, restarts and crashes there are: requests are    *)
(* let in only while the instance is ready, a routing that is closed stays *)
(* closed, and the next one to open is that of a new worker.               *)
(*                                                                         *)
(* InferenceGate.tla takes this for its environment; InstanceLifecycle.tla *)
(* implements it.                                                          *)
(***************************************************************************)
EXTENDS Naturals

VARIABLES
  state,       \* "ready"; "paused" while the start that took the instance ready
               \* may still put it back; otherwise "closed"
  generation,  \* the worker generation
  secret,      \* the generation whose secret and address the instance keeps
  saved        \* the same of the copy that a start may put in its place

vars == <<state, generation, secret, saved>>

\* No secret, or no copy with one.
NoSecret == 0

Init ==
  /\ state = "closed" /\ generation = 0
  /\ secret = NoSecret /\ saved = NoSecret

\* A worker is ready, and requests are let in to it.
Commit ==
  /\ state = "closed" /\ state' = "ready"
  /\ generation' = generation + 1 /\ secret' = generation + 1
  /\ saved' = NoSecret

\* A restart drains the worker, and may be given up ...
Pause ==
  /\ state = "ready" /\ state' = "paused"
  /\ UNCHANGED <<generation, secret, saved>>

\* ... in time.
Reopen ==
  /\ state = "paused" /\ state' = "ready"
  /\ UNCHANGED <<generation, secret, saved>>

\* A stop, an eviction, an emergency, a crash; or something more of the routing, or
\* of its copy, is forgotten.
Close ==
  /\ state' = "closed"
  /\ secret' \in {secret, NoSecret} /\ saved' \in {saved, NoSecret}
  /\ UNCHANGED generation

\* A start of an instance that is not ready keeps a copy of it ...
Save ==
  /\ state = "closed" /\ saved' = secret
  /\ UNCHANGED <<state, generation, secret>>

\* ... and puts it back when it is given up.
Return ==
  /\ saved # NoSecret /\ secret' = saved /\ saved' = NoSecret
  /\ UNCHANGED <<state, generation>>

Next == Commit \/ Pause \/ Reopen \/ Close \/ Save \/ Return

Spec == Init /\ [][Next]_vars
=============================================================================
