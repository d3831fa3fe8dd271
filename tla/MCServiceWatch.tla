--------------------------- MODULE MCServiceWatch ---------------------------
(***************************************************************************)
(* ServiceWatch for TLC: status requests are interchangeable.              *)
(***************************************************************************)
EXTENDS ServiceWatch, TLC

Symmetry == Permutations(Readers)

=============================================================================
