--------------------------- MODULE MCOllamaRouter ---------------------------
(***************************************************************************)
(* The finite instance of OllamaRouter: two lanes listen on one GPU, the   *)
(* compat lane configured first, so that selection by position alone would *)
(* get it wrong.                                                           *)
(***************************************************************************)
EXTENDS OllamaRouter, TLC

CONSTANTS compat, v100, gpu0, r1, r2

SharedLanes == {compat, v100}
SharedRank == (compat :> 0) @@ (v100 :> 1)
SharedGpu == (compat :> gpu0) @@ (v100 :> gpu0)
SharedCompat == {compat}
=============================================================================
