-------------------------- MODULE MCPluginCommands --------------------------
(* Instances of PluginCommands for TLC.                                    *)
EXTENDS PluginCommands

CONSTANTS ecs, ebs   \* plugin names

MCJobs == Procs \X (1..MaxTargets)

OneName(op)   == [op |-> op, all |-> FALSE, bundled |-> FALSE, names |-> <<ecs>>]
All(op)      == [op |-> op, all |-> TRUE, bundled |-> FALSE, names |-> <<>>]
Bundled(r)   == [r EXCEPT !.bundled = TRUE]
Both(op)     == [OneName(op) EXCEPT !.names = <<ecs, ebs>>]
Twice(op)    == [OneName(op) EXCEPT !.names = <<ecs, ecs>>]

BatchRequests == {Both(op) : op \in {"install", "reinstall", "remove"}}
                   \cup {Twice(op) : op \in {"install", "reinstall", "update"}}
                   \cup {All(op) : op \in Ops}
                   \cup {Bundled(Both("install")), Bundled(All("update"))}

PairRequests == UNION {{OneName(op), All(op)} : op \in Ops} \ {OneName("reinstall")}

(* The processes are interchangeable: nothing orders them. *)
Symmetry == Permutations(Procs)

UpdateAll == {All("update")}
=============================================================================
