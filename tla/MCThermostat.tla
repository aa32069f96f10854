---------------------------- MODULE MCThermostat ----------------------------
(* A small instance: see the configuration.                                *)
EXTENDS Thermostat

(* A carriage return, another before the newline, and a byte after it.     *)
MCCarriageReturn == {1, 2}
MCNewline == {3}
=============================================================================
