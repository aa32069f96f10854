-------------------------- MODULE MCFactorySession --------------------------
(* One station.  The constants of FactorySession are given in each .cfg.   *)
EXTENDS FactorySession
=============================================================================
