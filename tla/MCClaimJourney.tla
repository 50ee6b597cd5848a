-------------------------- MODULE MCClaimJourney --------------------------
(* Instances of the adjuster's journey for TLC.                            *)
EXTENDS ClaimJourney, TLC

FindingSymmetry == Permutations(Finding)
=============================================================================
