------------------------- MODULE MCDocumentRouting -------------------------
(* Instances of document routing for TLC.                                  *)
EXTENDS DocumentRouting

(* The form's schema has a second version, the other schemas have one.     *)
FormVersions ==
  {vs \in [Class -> {1, 2}] : vs[DamagePhoto] = 1}
=============================================================================
