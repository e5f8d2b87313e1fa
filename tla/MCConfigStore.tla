---------------------------- MODULE MCConfigStore ----------------------------
(* Instance of ConfigStore for TLC: the processes are interchangeable.     *)
EXTENDS ConfigStore, TLC

Symmetry == Permutations(Procs)
=============================================================================
