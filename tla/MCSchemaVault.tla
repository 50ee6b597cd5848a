--------------------------- MODULE MCSchemaVault ---------------------------
(* The schema vault for TLC: schema ids are interchangeable, and so are    *)
(* processes.                                                              *)
EXTENDS SchemaVault, TLC

Symmetry ==
  Permutations(Process) \cup Permutations(SchemaId)
=============================================================================
