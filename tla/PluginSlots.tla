---------------------------- MODULE PluginSlots ----------------------------
(***************************************************************************)
(* What the program promises about a name on disk that several ctyun       *)
(* processes replace: whatever steps are in flight, finished, failed or    *)
(* killed, a name the user has and has not asked to remove is either       *)
(* served in one piece or kept aside in one piece.                         *)
(*                                                                         *)
(* PluginStore implements this module with the directory of a plugin as    *)
(* the slot; SelfUpgrade implements it with the path of the executable.    *)
(* Nothing here is about files, temporary directories or renames.          *)
(***************************************************************************)
EXTENDS Naturals

CONSTANTS Plugins,    \* plugin names
          Versions,   \* bundle versions, natural numbers other than 0
          Dirs        \* identities of directories

VARIABLES slot,       \* slot[n]: the version served for n, Vacant when none
          kept,       \* kept[n]: the copies of n moved aside, <<directory, version>>
          released    \* plugins the user has asked to remove: nothing is promised

vars == <<slot, kept, released>>

Vacant == 0

Init == /\ slot \in [Plugins -> Versions \cup {Vacant}]
        /\ kept = [n \in Plugins |-> {}]
        /\ released = {}

(* A whole bundle appears in a vacant slot. *)
Install(n, v) ==
    /\ n \notin released
    /\ slot[n] = Vacant
    /\ slot' = [slot EXCEPT ![n] = v]
    /\ UNCHANGED <<kept, released>>

(* The bundle in the slot is moved aside, in one piece. *)
SetAside(n, d) ==
    /\ n \notin released
    /\ slot[n] # Vacant
    /\ slot' = [slot EXCEPT ![n] = Vacant]
    /\ kept' = [kept EXCEPT ![n] = @ \cup {<<d, slot[n]>>}]
    /\ UNCHANGED released

(* A copy moved aside returns to the vacant slot. *)
Restore(n, d, v) ==
    /\ n \notin released
    /\ slot[n] = Vacant
    /\ <<d, v>> \in kept[n]
    /\ slot' = [slot EXCEPT ![n] = v]
    /\ kept' = [kept EXCEPT ![n] = @ \ {<<d, v>>}]
    /\ UNCHANGED released

(* A copy is given up, never the last one of a plugin that is not served. *)
Discard(n, d, v) ==
    /\ n \notin released
    /\ <<d, v>> \in kept[n]
    /\ slot[n] # Vacant \/ kept[n] # {<<d, v>>}
    /\ kept' = [kept EXCEPT ![n] = @ \ {<<d, v>>}]
    /\ UNCHANGED <<slot, released>>

(* The user asks for the removal of n: its slot and copies are forgotten.  *)
Release(n) ==
    /\ n \notin released
    /\ released' = released \cup {n}
    /\ slot' = [slot EXCEPT ![n] = Vacant]
    /\ kept' = [kept EXCEPT ![n] = {}]

Next == \E n \in Plugins :
           \/ Release(n)
           \/ \E v \in Versions : Install(n, v)
           \/ \E d \in Dirs :
                 \/ SetAside(n, d)
                 \/ \E v \in Versions : Restore(n, d, v) \/ Discard(n, d, v)

Spec == Init /\ [][Next]_vars
=============================================================================
