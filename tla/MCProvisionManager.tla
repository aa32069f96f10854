-------------------------- MODULE MCProvisionManager --------------------------
(* A small instance: see the configurations.                               *)
EXTENDS ProvisionManager
=============================================================================
