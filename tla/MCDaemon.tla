------------------------------ MODULE MCDaemon ------------------------------
(* Instance of Daemon for TLC: the mountpoints are interchangeable. *)
EXTENDS Daemon, TLC

Symmetry == Permutations(Mps)
=============================================================================
