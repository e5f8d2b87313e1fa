--------------------------- MODULE MCPluginStore ---------------------------
(* Instance of PluginStore for TLC: the jobs are interchangeable.          *)
EXTENDS PluginStore, TLC

Symmetry == Permutations(Jobs)
=============================================================================
