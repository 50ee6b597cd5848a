------------------------- MODULE MCContentPipeline -------------------------
(* Small instances of ContentPipeline for TLC.                             *)
EXTENDS ContentPipeline, TLC

CONSTANTS h1, h2

(* One handler for each of two steps.                                      *)
OneReplica == (h1 :> 1) @@ (h2 :> 2)
===========================================================================
