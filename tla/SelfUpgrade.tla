---------------------------- MODULE SelfUpgrade ----------------------------
(***************************************************************************)
(* ctyun upgrade (internal/cli/upgrade_command.go): a process reads a      *)
(* signed index from the first of its sources that has a valid one,        *)
(* compares the version in it with its own, downloads the archive, and     *)
(* InstallArtifact (internal/release/install.go) replaces the executable   *)
(* file with two renames and a deletion.  Processes do not know of each    *)
(* other, any call may fail, a process may be killed between two calls,    *)
(* and a source may be published to while it is read.                      *)
(*                                                                         *)
(* A binary is an object with an identity: Original is the executable that *)
(* was installed first, p the one process p extracts.  An index and its    *)
(* signature are the version they are of.  Abstracted: channel and         *)
(* platform; downloading and checking an archive is one step that may fail.*)
(***************************************************************************)
EXTENDS Naturals, Sequences

CONSTANTS Procs,      \* processes: one ctyun upgrade each
          Sources,    \* the hosts of release indexes
          Choices,    \* the sequences of sources --source can stand for
          Versions,   \* released versions
          Original    \* the executable installed at the start

ASSUME UpgradeAssumption == /\ Versions \subseteq Nat \ {0} /\ Versions # {}
                            /\ Original \notin Procs
                            /\ Choices \subseteq Seq(Sources) \ {<<>>}

VARIABLES index,     \* index[s]: the version the index at source s is of
          signature, \* signature[s]: the version its signature is of
          place,     \* place[b]: where binary b is found
          version,   \* version[b]: the version of binary b
          saved,     \* saved[p]: the binary p renamed to its backup name, if any
          run        \* run[p]: what process p is doing

hosts == <<index, signature>>
disk  == <<place, version, saved>>
vars  == <<hosts, disk, run>>

Binaries == Procs \cup {Original}

(* "exe": the path of the executable; "old": <exe>.old-<nanoseconds>;      *)
(* "tmp": in .ctyun-upgrade-<random> beside it.                            *)
Places == {"absent", "tmp", "exe", "old"}

Swapping == {"moveIn", "rollback"}
Working  == {"index", "signature", "decide", "download", "extract", "moveAside",
             "dropOld", "cleanup", "report"} \cup Swapping
Ended    == {"ok", "failed", "killed"}

TypeOK ==
    /\ index \in [Sources -> Versions \cup {0}]
    /\ signature \in [Sources -> Versions \cup {0}]
    /\ place \in [Binaries -> Places]
    /\ version \in [Binaries -> Versions]
    /\ saved \in [Procs -> SUBSET Binaries]
    /\ \A p \in Procs :
          /\ run[p].stage \in {"ready"} \cup Working \cup Ended
          /\ run[p].sources \in Seq(Sources)
          /\ run[p].own \in Versions \cup {0}
          /\ run[p].found \in Versions \cup {0}
          /\ run[p].stage = "index" => run[p].sources # <<>>
          /\ {run[p].installed, run[p].alone} \subseteq BOOLEAN
          /\ run[p].faults \in Nat

Init ==
    /\ index \in [Sources -> Versions \cup {0}]
    /\ signature = index
    /\ place = [b \in Binaries |-> IF b = Original THEN "exe" ELSE "absent"]
    /\ \E v \in Versions : version = [b \in Binaries |-> v]
    /\ saved = [p \in Procs |-> {}]
    /\ run = [p \in Procs |-> [stage |-> "ready", sources |-> <<>>, own |-> 0, found |-> 0,
                               installed |-> FALSE, alone |-> FALSE, faults |-> 0]]

-----------------------------------------------------------------------------
(* A host is updated: releases are published in order, and the signature   *)
(* follows the index (tools/release/main.go, writeRelease).                *)
PublishIndex(s, v) ==
    /\ signature[s] = index[s] /\ v > index[s]
    /\ index' = [index EXCEPT ![s] = v]
    /\ UNCHANGED <<signature, disk, run>>

PublishSignature(s) ==
    /\ signature[s] # index[s]
    /\ signature' = [signature EXCEPT ![s] = index[s]]
    /\ UNCHANGED <<index, disk, run>>

-----------------------------------------------------------------------------
InProgress(p) == run[p].stage \in Working

(* The binary at the path of the executable; there is never more than one. *)
Installed == {b \in Binaries : place[b] = "exe"}

Goto(p, stage) == run' = [run EXCEPT ![p].stage = stage]

(* A call of p fails. *)
Fault(p, stage) == run' = [run EXCEPT ![p].stage = stage, ![p].faults = @ + 1]

(* What rename(b, path of the executable) leaves: b replaces what is there. *)
MovedIn(b) == [c \in Binaries |-> IF c = b THEN "exe"
                                  ELSE IF c \in Installed THEN "absent" ELSE place[c]]

(* The user runs the executable.  History: its version, and whether other  *)
(* upgrades run meanwhile.                                                 *)
Launch(p, choice) ==
    /\ run[p].stage = "ready"
    /\ \E b \in Installed :
          run' = [q \in Procs |->
             IF q = p
             THEN [run[p] EXCEPT !.stage = "index", !.sources = choice,
                                 !.own = version[b],
                                 !.alone = \A o \in Procs : ~InProgress(o)]
             ELSE [run[q] EXCEPT !.alone = @ /\ ~InProgress(q)]]
    /\ UNCHANGED <<hosts, disk>>

Source(p) == Head(run[p].sources)

NextSource(p) ==
    IF Len(run[p].sources) > 1
    THEN run' = [run EXCEPT ![p].stage = "index", ![p].sources = Tail(@)]
    ELSE Goto(p, "failed")

FetchIndex(p) ==
    /\ run[p].stage = "index"
    /\ index[Source(p)] # 0
    /\ run' = [run EXCEPT ![p].stage = "signature", ![p].found = index[Source(p)]]
    /\ UNCHANGED <<hosts, disk>>

FetchAnySignature(p) ==               \* mutant: does not verify the index
    /\ run[p].stage = "signature"
    /\ Goto(p, "decide")
    /\ UNCHANGED <<hosts, disk>>
(* The signature is fetched after the index and must be of the same        *)
(* document, else the next source is tried.                                *)
FetchSignature(p) ==
    /\ run[p].stage = "signature"
    /\ IF signature[Source(p)] = run[p].found THEN Goto(p, "decide") ELSE NextSource(p)
    /\ UNCHANGED <<hosts, disk>>

(* A source cannot be read. *)
SourceFails(p) ==
    /\ run[p].stage \in {"index", "signature"}
    /\ NextSource(p)
    /\ UNCHANGED <<hosts, disk>>

DecideOther(p) ==                     \* mutant: takes any other version
    /\ run[p].stage = "decide"
    /\ Goto(p, "ok") \/ (run[p].found # run[p].own /\ Goto(p, "download"))
    /\ UNCHANGED <<hosts, disk>>
(* A version that is not newer ends the command, and so may --check. *)
Decide(p) ==
    /\ run[p].stage = "decide"
    /\ Goto(p, "ok") \/ (run[p].found > run[p].own /\ Goto(p, "download"))
    /\ UNCHANGED <<hosts, disk>>

(* The index has no release for the channel and platform, the archive      *)
(* cannot be downloaded or is not the one of the index, or progress cannot *)
(* be written: nothing has changed.                                        *)
PrepareFails(p) ==
    /\ run[p].stage \in {"decide", "download"}
    /\ Fault(p, "failed")
    /\ UNCHANGED <<hosts, disk>>

Download(p) ==
    /\ run[p].stage = "download"
    /\ Goto(p, "extract")
    /\ UNCHANGED <<hosts, disk>>

-----------------------------------------------------------------------------
(* InstallArtifact.                                                        *)

(* MkdirTemp, ExtractBinary and Chmod. *)
Extract(p) ==
    /\ run[p].stage = "extract"
    /\ place' = [place EXCEPT ![p] = "tmp"]
    /\ version' = [version EXCEPT ![p] = run[p].found]
    /\ Goto(p, "moveAside")
    /\ UNCHANGED <<hosts, saved>>

ExtractFails(p) ==
    /\ run[p].stage = "extract"
    /\ Fault(p, "cleanup")
    /\ UNCHANGED <<hosts, disk>>

(* rename(executable, backup), whichever binary is there now. *)
MoveAside(p) ==
    /\ run[p].stage = "moveAside"
    /\ \E b \in Installed :
          /\ place' = [place EXCEPT ![b] = "old"]
          /\ saved' = [saved EXCEPT ![p] = {b}]
    /\ Goto(p, "moveIn")
    /\ UNCHANGED <<hosts, version>>

(* There is no executable, or the call fails. *)
MoveAsideFails(p) ==
    /\ run[p].stage = "moveAside"
    /\ IF Installed = {} THEN Goto(p, "cleanup") ELSE Fault(p, "cleanup")
    /\ UNCHANGED <<hosts, disk>>

(* rename(new, executable). *)
MoveIn(p) ==
    /\ run[p].stage = "moveIn"
    /\ place' = MovedIn(p)
    /\ run' = [run EXCEPT ![p].stage = "dropOld", ![p].installed = TRUE]
    /\ UNCHANGED <<hosts, version, saved>>

MoveInFailsForGood(p) ==              \* mutant: does not restore the backup
    /\ run[p].stage = "moveIn"
    /\ Fault(p, "cleanup")
    /\ UNCHANGED <<hosts, disk>>
MoveInFailsAndDrops(p) ==             \* mutant: deletes the backup all the same
    /\ run[p].stage = "moveIn"
    /\ Fault(p, "dropOld")
    /\ UNCHANGED <<hosts, disk>>
(* rename(new, executable) fails. *)
MoveInFails(p) ==
    /\ run[p].stage = "moveIn"
    /\ Fault(p, "rollback")
    /\ UNCHANGED <<hosts, disk>>

(* rename(backup, executable); its failure is ignored. *)
Rollback(p) ==
    /\ run[p].stage = "rollback"
    /\ \E b \in saved[p] :
          /\ place[b] = "old"
          /\ place' = MovedIn(b)
    /\ saved' = [saved EXCEPT ![p] = {}]
    /\ Goto(p, "cleanup")
    /\ UNCHANGED <<hosts, version>>

RollbackFails(p) ==
    /\ run[p].stage = "rollback"
    /\ Fault(p, "cleanup")
    /\ UNCHANGED <<hosts, disk>>

(* os.Remove(backup). *)
DropOld(p) ==
    /\ run[p].stage = "dropOld"
    /\ place' = [b \in Binaries |-> IF b \in saved[p] THEN "absent" ELSE place[b]]
    /\ Goto(p, "cleanup")
    /\ UNCHANGED <<hosts, version, saved>>

(* The new executable stays, and the command fails: on Windows the binary  *)
(* that runs cannot be removed.                                            *)
DropOldFails(p) ==
    /\ run[p].stage = "dropOld"
    /\ Fault(p, "cleanup")
    /\ UNCHANGED <<hosts, disk>>

(* RemoveAll(extractDir), deferred; its failure is ignored. *)
Cleanup(p) ==
    /\ run[p].stage = "cleanup"
    /\ place' \in {place, [place EXCEPT ![p] = IF @ = "tmp" THEN "absent" ELSE @]}
    /\ Goto(p, IF run[p].installed /\ run[p].faults = 0 THEN "report" ELSE "failed")
    /\ UNCHANGED <<hosts, version, saved>>

(* Progress and the summary, which may fail to be written. *)
Report(p) ==
    /\ run[p].stage = "report"
    /\ Goto(p, "ok") \/ Fault(p, "failed")
    /\ UNCHANGED <<hosts, disk>>

Kill(p) ==
    /\ InProgress(p)
    /\ Goto(p, "killed")
    /\ UNCHANGED <<hosts, disk>>

Step(p) ==
    \/ FetchIndex(p)
    \/ FetchSignature(p)
    \/ SourceFails(p)
    \/ Decide(p)
    \/ PrepareFails(p)
    \/ Download(p)
    \/ Extract(p)
    \/ ExtractFails(p)
    \/ MoveAside(p)
    \/ MoveAsideFails(p)
    \/ MoveIn(p)
    \/ MoveInFails(p)
    \/ Rollback(p)
    \/ RollbackFails(p)
    \/ DropOld(p)
    \/ DropOldFails(p)
    \/ Cleanup(p)
    \/ Report(p)

Next ==
    \/ \E s \in Sources, v \in Versions : PublishIndex(s, v)
    \/ \E s \in Sources : PublishSignature(s)
    \/ \E p \in Procs :
          \/ \E choice \in Choices : Launch(p, choice)
          \/ Step(p)
          \/ Kill(p)

Spec == Init /\ [][Next]_vars

-----------------------------------------------------------------------------
(* No single failing call takes the executable away, however many upgrades *)
(* overlap: once no process is between its renames it is there, unless one *)
(* was killed there, or failed twice.                                      *)
SingleFaultTolerated ==
    Installed = {} =>
        \E p \in Procs : \/ run[p].stage \in Swapping
                         \/ run[p].stage = "killed" /\ saved[p] # {}
                         \/ run[p].faults >= 2

(* An upgrade that overlaps no other leaves the executable it started from *)
(* or the version it found, reports success only with the latter in place  *)
(* and nothing left beside it, and never lowers the version, whichever     *)
(* mirror lags behind or is being published to.  Of two that overlap       *)
(* nothing is said: the one that decided first may install its older       *)
(* version over the newer one of the other.                                *)
OutcomeIsTrue ==
    [][\A p \in Procs :
         InProgress(p) /\ run[p].alone =>
            /\ \A b \in Installed' :
                  version'[b] \in {run[p].own, run[p].found} /\ version'[b] >= run[p].own
            /\ run'[p].stage = "ok" =>
                  \E b \in Installed' :
                     /\ version[b] = IF run[p].installed THEN run[p].found ELSE run[p].own
                     /\ \A c \in saved[p] : place'[c] = "absent"
            /\ run'[p].stage = "failed" /\ run'[p].faults = 1 /\ ~run[p].installed =>
                  \E b \in Installed' : version[b] = run[p].own]_vars

(* What is downloaded and installed is no newer than the version that its  *)
(* very source has published a signature for, wherever the other sources   *)
(* are: an index ahead of its signature is never used.                     *)
OnlySigned ==
    \A p \in Procs :
        run[p].stage \in {"download", "extract", "moveAside", "report"} \cup Swapping =>
            run[p].found <= signature[Source(p)]

(* The abstract view: the executable is a slot, its backups are copies.    *)
Slot == IF Installed = {} THEN 0 ELSE version[CHOOSE b \in Installed : TRUE]

Slots == INSTANCE PluginSlots WITH
            Plugins  <- {"ctyun"},
            Dirs     <- Binaries,
            slot     <- [n \in {"ctyun"} |-> Slot],
            kept     <- [n \in {"ctyun"} |->
                           {<<b, version[b]>> : b \in {c \in Binaries : place[c] = "old"}}],
            released <- {}

(* However upgrades overlap, fail or are killed, a whole executable is at  *)
(* its path or beside it under a backup name.                              *)
ImplementsSlots == Slots!Spec
=============================================================================
