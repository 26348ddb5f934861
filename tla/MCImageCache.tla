---------------------------- MODULE MCImageCache ----------------------------
(***************************************************************************)
(* ImageCache on a small set of interchangeable creates.                   *)
(***************************************************************************)
EXTENDS ImageCache, TLC

Symmetry == Permutations(Invocations)
=============================================================================
