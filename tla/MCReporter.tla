------------------------------ MODULE MCReporter ------------------------------
(* A small instance: see the configuration.                                *)
EXTENDS Reporter
=============================================================================
