---------------------------- MODULE MCFirmware ----------------------------
(* Instances of Firmware for TLC: one channel, the SMP thread and the shell. *)
EXTENDS Firmware, TLC
=============================================================================
