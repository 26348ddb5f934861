---------------------------- MODULE MCHealthChecker ----------------------------
(***************************************************************************)
(* HealthChecker on a small host, without symmetry: the properties include *)
(* liveness.                                                               *)
(***************************************************************************)
EXTENDS HealthChecker
================================================================================
