------------------------------ MODULE MCDaemon ------------------------------
(* Instances of Daemon for TLC: few request lines, uptimes below a bound. *)
EXTENDS Daemon
=============================================================================
