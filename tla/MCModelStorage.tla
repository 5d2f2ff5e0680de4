--------------------------- MODULE MCModelStorage ---------------------------
(***************************************************************************)
(* ModelStorage for TLC: two jobs for the same bundle and a deletion that  *)
(* moves two pieces.                                                       *)
(***************************************************************************)
EXTENDS ModelStorage

CONSTANTS j1, j2

MCJobs == {j1, j2}
=============================================================================
