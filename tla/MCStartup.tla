------------------------------ MODULE MCStartup ------------------------------
(* A small instance: see the configuration.                                *)
EXTENDS Startup
=============================================================================
