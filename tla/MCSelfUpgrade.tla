--------------------------- MODULE MCSelfUpgrade ---------------------------
(* Instance of SelfUpgrade for TLC.                                        *)
EXTENDS SelfUpgrade, TLC

CONSTANTS github, gitee

(* --source auto and --source gitee. *)
MCChoices == {<<github, gitee>>, <<gitee>>}

Symmetry == Permutations(Procs)
=============================================================================
