----------------------------- MODULE MCUpdates -----------------------------
(***************************************************************************)
(* Updates for TLC: two versions, the first of them built twice, so that   *)
(* each of the three builds can fail over another one, and a quarantine of *)
(* two entries, so that an entry can be forgotten.                         *)
(***************************************************************************)
EXTENDS Updates

MCReleases == {[version |-> 1, sha |-> "a"], [version |-> 1, sha |-> "b"],
               [version |-> 2, sha |-> "a"]}
=============================================================================
