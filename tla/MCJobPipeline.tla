--------------------------- MODULE MCJobPipeline ---------------------------
(***************************************************************************)
(* JobPipeline for TLC.  Connections are interchangeable: no definition of *)
(* JobPipeline tells one from another, so their permutations are a         *)
(* symmetry of its safety properties.                                      *)
(***************************************************************************)
EXTENDS JobPipeline

SessionSymmetry == Permutations(Sessions)
=============================================================================
