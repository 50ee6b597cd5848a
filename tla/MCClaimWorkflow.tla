-------------------------- MODULE MCClaimWorkflow --------------------------
(* Small instances of ClaimWorkflow for TLC.                               *)
EXTENDS ClaimWorkflow, TLC

FileSymmetry == Permutations(File)
===========================================================================
