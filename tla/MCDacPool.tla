------------------------------ MODULE MCDacPool ------------------------------
(* A directory of three pairs, one of which is unreadable.                 *)
EXTENDS DacPool
=============================================================================
