------------------------------ MODULE MCPhoneHome ------------------------------
(***************************************************************************)
(* PhoneHome on two creates, without symmetry: the properties include      *)
(* liveness.                                                               *)
(***************************************************************************)
EXTENDS PhoneHome
================================================================================
