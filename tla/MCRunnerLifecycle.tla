------------------------- MODULE MCRunnerLifecycle -------------------------
(***************************************************************************)
(* RunnerLifecycle on small sets of model values.  Invocations are         *)
(* interchangeable, and so are runner names: no definition orders them or  *)
(* names one of them.                                                      *)
(***************************************************************************)
EXTENDS RunnerLifecycle, TLC

Symmetry == Permutations(Invocations) \cup Permutations(RunnerNames)
============================================================================
