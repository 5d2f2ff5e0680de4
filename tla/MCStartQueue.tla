---------------------------- MODULE MCStartQueue ----------------------------
(* Three start operations, every priority name, two guard states.          *)
EXTENDS StartQueue
=============================================================================
