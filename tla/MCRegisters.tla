---------------------------- MODULE MCRegisters ----------------------------
(* Registers with a few restarts of the board; see the configuration.       *)
EXTENDS Registers
=============================================================================
