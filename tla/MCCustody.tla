------------------------------ MODULE MCCustody ------------------------------
(* A small instance: see the configurations.                               *)
EXTENDS Custody
=============================================================================
