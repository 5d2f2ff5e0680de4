--------------------------- MODULE MCInferenceGate ---------------------------
(***************************************************************************)
(* InferenceGate for TLC: two workers, the second with fewer slots than    *)
(* the first.                                                              *)
(***************************************************************************)
EXTENDS InferenceGate

MCLimit == <<2, 1>>
=============================================================================
