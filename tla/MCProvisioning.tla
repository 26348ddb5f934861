----------------------------- MODULE MCProvisioning -----------------------------
(***************************************************************************)
(* Provisioning with a quarter of an hour as the unit of time: a token     *)
(* lives for an hour, a download takes up to half an hour, the wait a      *)
(* quarter.                                                                *)
(***************************************************************************)
EXTENDS Provisioning

Options(p, o, r) == [provider |-> p, organization |-> o, repository |-> r]
MCCommands ==
    {Options("app", TRUE, FALSE), Options("cli", TRUE, FALSE), Options("given", TRUE, FALSE),
     Options("given", FALSE, TRUE), Options("cli", FALSE, TRUE), Options("app", FALSE, FALSE),
     Options("given", FALSE, FALSE)}
================================================================================
