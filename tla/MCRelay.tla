------------------------------ MODULE MCRelay ------------------------------
(* Instances of Relay for TLC: few channels, the SMP thread and the shell. *)
EXTENDS Relay, TLC

CallerSymmetry == Permutations(Callers)
=============================================================================
