---------------------------- MODULE PluginStore ----------------------------
(***************************************************************************)
(* The user's plugin directory (~/.ctyun/plugins) as every ctyun process   *)
(* sees it, and the two calls that change it:                              *)
(*   - copyBundleIntoPlace of internal/plugin/install.go, which copies a   *)
(*     bundle into a temporary sibling directory and lets replaceDir swap  *)
(*     it in with two renames and a deletion;                              *)
(*   - os.RemoveAll of one entry, as removePlugins calls it.               *)
(* There is no lock: each call is a job, jobs of any number of processes   *)
(* interleave at every system call, any call may fail, and a process may   *)
(* be killed between any two calls (Crash).  A killed process leaves the   *)
(* directory as it is; loss of unsynced data in a power failure is not     *)
(* modelled.                                                               *)
(*                                                                         *)
(* A directory is an object with an identity: plugin n itself stands for   *)
(* the directory installed before the behaviour starts, job j for the one  *)
(* it creates with MkdirTemp.  A rename changes the place of a directory,  *)
(* never its files; RemoveAll holds the directory it opened (its handle),  *)
(* as the Go runtime does, and unlinks its files one by one.               *)
(***************************************************************************)
EXTENDS Naturals

CONSTANTS Jobs,       \* calls that change the plugin directory
          Plugins,    \* plugin names
          Versions,   \* bundle versions
          Files,      \* the files of a bundle
          Required    \* the files without which LoadBundle fails

ASSUME JobsAssumption == Jobs \cap Plugins = {}
ASSUME FilesAssumption == Required \subseteq Files /\ Required # {}
ASSUME VersionsAssumption == Versions \subseteq Nat \ {0}

VARIABLES
    pc,        \* pc[j]: the system call job j makes next
    place,     \* place[d]: where directory d is found
    files,     \* files[d]: the files of bundle d that are in place
    bundle,    \* bundle[d]: the plugin and version in d; for a job, its goal
    saved,     \* saved[j]: the directory j renamed to its backup name, if any
    via,       \* via[j]: the job whose backup name j deletes
    handle,    \* handle[j]: the directory j's RemoveAll has opened, if any
    targeted   \* history: the plugins a removal was asked for

vars == <<pc, place, files, bundle, saved, via, handle, targeted>>

Dirs == Jobs \cup Plugins

(* "tmp": .<name>-tmp-<random>, a name of its own per job;                 *)
(* "dest": <root>/<name>; "old": <name>.old-<nanoseconds>, one per job.    *)
Places == {"absent", "tmp", "dest", "old"}

Deleting == {"dropOld", "cleanup", "remove"}
Ended    == {"changed", "failed", "crashed"}
Running  == {"copy", "publish", "setAside", "swapIn", "rollback"} \cup Deleting

Bundles == [plugin : Plugins, version : Versions]

TypeOK ==
    /\ pc \in [Jobs -> {"idle"} \cup Running \cup Ended]
    /\ place \in [Dirs -> Places]
    /\ files \in [Dirs -> SUBSET Files]
    /\ bundle \in [Dirs -> Bundles]
    /\ saved \in [Jobs -> SUBSET Dirs]
    /\ via \in [Jobs -> Jobs]
    /\ handle \in [Jobs -> SUBSET Dirs]
    /\ targeted \subseteq Plugins

Init ==
    /\ pc = [j \in Jobs |-> "idle"]
    /\ place \in {p \in [Dirs -> {"absent", "dest"}] : \A j \in Jobs : p[j] = "absent"}
    /\ files = [d \in Dirs |-> IF d \in Plugins THEN Files ELSE {}]
    /\ bundle \in {b \in [Dirs -> Bundles] : /\ \A n \in Plugins : b[n].plugin = n
                                             /\ \A j, k \in Jobs : b[j] = b[k]}
    /\ saved = [j \in Jobs |-> {}]
    /\ via = [j \in Jobs |-> j]
    /\ handle = [j \in Jobs |-> {}]
    /\ targeted = {}

-----------------------------------------------------------------------------
(* What a path names at this moment.                                       *)

(* The directories at <root>/<n>; there is never more than one. *)
InstalledAt(n) == {d \in Dirs : place[d] = "dest" /\ bundle[d].plugin = n}

Occupied(n) == InstalledAt(n) # {}

Whole(d) == files[d] = Files

(* LoadBundle succeeds: no required file is missing. *)
Loadable(d) == Required \subseteq files[d]

(* The path job j deletes: the backup name of job via[j], its own temporary *)
(* directory, or the installed directory of its plugin.                     *)
Victim(j) ==
    {d \in Dirs :
        \/ pc[j] = "dropOld" /\ d \in saved[via[j]] /\ place[d] = "old"
        \/ pc[j] = "cleanup" /\ d = j /\ place[d] = "tmp"
        \/ pc[j] = "remove" /\ d \in InstalledAt(bundle[j].plugin)}

Goto(j, label) == pc' = [pc EXCEPT ![j] = label]

-----------------------------------------------------------------------------
(* copyBundleIntoPlace and replaceDir.                                     *)

(* MkdirAll(destRoot) and MkdirTemp: an empty directory of a new name. *)
BeginInstall(j, n, v) ==
    /\ pc[j] = "idle"
    /\ Goto(j, "copy")
    /\ place' = [place EXCEPT ![j] = "tmp"]
    /\ bundle' = [bundle EXCEPT ![j] = [plugin |-> n, version |-> v]]
    /\ UNCHANGED <<files, saved, via, handle, targeted>>

(* MkdirAll or MkdirTemp fails: nothing was created. *)
MkdirFails(j) ==
    /\ pc[j] = "idle"
    /\ Goto(j, "failed")
    /\ UNCHANGED <<place, files, bundle, saved, via, handle, targeted>>

(* copyDir copies one more file; a file partly copied is not in place. *)
CopyFile(j, f) ==
    /\ pc[j] = "copy"
    /\ f \in Files \ files[j]
    /\ files' = [files EXCEPT ![j] = @ \cup {f}]
    /\ UNCHANGED <<pc, place, bundle, saved, via, handle, targeted>>

CopiedPartly(j) == Loadable(j)        \* mutant: swaps in before copyDir is done
Copied(j) == Whole(j)

(* replaceDir stats dest once, and never again. *)
StatDest(j) ==
    /\ pc[j] = "copy"
    /\ Copied(j)
    /\ Goto(j, IF Occupied(bundle[j].plugin) THEN "setAside" ELSE "publish")
    /\ UNCHANGED <<place, files, bundle, saved, via, handle, targeted>>

PublishOver(j) ==                     \* mutant: renames onto an occupied name
    /\ pc[j] = "publish"
    /\ place' = [place EXCEPT ![j] = "dest"]
    /\ Goto(j, "changed")
    /\ UNCHANGED <<files, bundle, saved, via, handle, targeted>>

(* os.Rename onto an existing directory fails, so dest must be vacant. *)
Publish(j) ==
    /\ pc[j] = "publish"
    /\ ~Occupied(bundle[j].plugin)
    /\ place' = [place EXCEPT ![j] = "dest"]
    /\ Goto(j, "changed")
    /\ UNCHANGED <<files, bundle, saved, via, handle, targeted>>

(* rename(dest, backup): dest leaves its name, whatever put it there. *)
SetAside(j) ==
    /\ pc[j] = "setAside"
    /\ \E d \in InstalledAt(bundle[j].plugin) :
          /\ place' = [place EXCEPT ![d] = "old"]
          /\ saved' = [saved EXCEPT ![j] = {d}]
    /\ Goto(j, "swapIn")
    /\ UNCHANGED <<files, bundle, via, handle, targeted>>

SwapInKeeping(j) ==                   \* mutant: never deletes the backup
    /\ pc[j] = "swapIn"
    /\ ~Occupied(bundle[j].plugin)
    /\ place' = [place EXCEPT ![j] = "dest"]
    /\ Goto(j, "changed")
    /\ UNCHANGED <<files, bundle, saved, via, handle, targeted>>

(* rename(src, dest) succeeds; the backup is to be deleted. *)
SwapIn(j) ==
    /\ pc[j] = "swapIn"
    /\ ~Occupied(bundle[j].plugin)
    /\ place' = [place EXCEPT ![j] = "dest"]
    /\ Goto(j, "dropOld")
    /\ UNCHANGED <<files, bundle, saved, via, handle, targeted>>

SwapInFailsAndDrops(j) ==             \* mutant: deletes the backup on failure
    /\ pc[j] = "swapIn"
    /\ Goto(j, "dropOld")
    /\ UNCHANGED <<place, files, bundle, saved, via, handle, targeted>>

(* rename(src, dest) fails: another job took the name, or the call failed. *)
SwapInFails(j) ==
    /\ pc[j] = "swapIn"
    /\ Goto(j, "rollback")
    /\ UNCHANGED <<place, files, bundle, saved, via, handle, targeted>>

(* rename(backup, dest) succeeds: the backup is still there, dest vacant. *)
Rollback(j) ==
    /\ pc[j] = "rollback"
    /\ ~Occupied(bundle[j].plugin)
    /\ \E d \in saved[j] :
          /\ place[d] = "old"
          /\ place' = [place EXCEPT ![d] = "dest"]
    /\ saved' = [saved EXCEPT ![j] = {}]
    /\ Goto(j, "cleanup")
    /\ UNCHANGED <<files, bundle, via, handle, targeted>>

(* A call fails before dest changes, or the rollback fails and its error   *)
(* is dropped: the deferred function deletes the temporary directory.      *)
Abandon(j) ==
    /\ pc[j] \in {"copy", "publish", "setAside", "rollback"}
    /\ Goto(j, "cleanup")
    /\ UNCHANGED <<place, files, bundle, saved, via, handle, targeted>>

-----------------------------------------------------------------------------
(* os.RemoveAll, of a backup, of a temporary directory or of an entry the  *)
(* user removes.                                                           *)

(* plugin remove <n>: the entry is the installed directory of n. *)
BeginRemove(j, n) ==
    /\ pc[j] = "idle"
    /\ Goto(j, "remove")
    /\ bundle' = [bundle EXCEPT ![j] = [plugin |-> n, version |-> @.version]]
    /\ targeted' = targeted \cup {n}
    /\ UNCHANGED <<place, files, saved, via, handle>>

(* plugin remove --all, or the entry named: the entry is the backup of     *)
(* job m, whose name is a valid plugin name.                               *)
BeginRemoveOld(j, m) ==
    /\ pc[j] = "idle"
    /\ m # j /\ pc[m] # "idle"
    /\ Goto(j, "dropOld")
    /\ via' = [via EXCEPT ![j] = m]
    /\ targeted' = targeted \cup {bundle[m].plugin}
    /\ UNCHANGED <<place, files, bundle, saved, handle>>

(* RemoveAll returns: replaceDir and removePlugins report success on nil,  *)
(* the deferred cleanup ignores the result and the job fails as it was to. *)
RemovalDone(j) == Goto(j, IF pc[j] = "cleanup" THEN "failed" ELSE "changed")

(* RemoveAll opens the directory its path names at this moment. *)
OpenVictim(j) ==
    /\ pc[j] \in Deleting
    /\ handle[j] = {}
    /\ \E d \in Victim(j) : handle' = [handle EXCEPT ![j] = {d}]
    /\ UNCHANGED <<pc, place, files, bundle, saved, via, targeted>>

(* The path does not exist, which RemoveAll counts as success. *)
VictimAbsent(j) ==
    /\ pc[j] \in Deleting
    /\ handle[j] = {}
    /\ Victim(j) = {}
    /\ RemovalDone(j)
    /\ UNCHANGED <<place, files, bundle, saved, via, handle, targeted>>

(* One file of the opened directory goes, wherever the directory is now. *)
Unlink(j, f) ==
    /\ pc[j] \in Deleting
    /\ \E d \in handle[j] :
          /\ f \in files[d]
          /\ files' = [files EXCEPT ![d] = @ \ {f}]
    /\ UNCHANGED <<pc, place, bundle, saved, via, handle, targeted>>

(* The directory is empty: rmdir of the path, which removes whatever empty *)
(* directory has that name now.                                            *)
Rmdir(j) ==
    /\ pc[j] \in Deleting
    /\ handle[j] # {}
    /\ \A d \in handle[j] \cup Victim(j) : files[d] = {}
    /\ place' = [d \in Dirs |-> IF d \in Victim(j) THEN "absent" ELSE place[d]]
    /\ handle' = [handle EXCEPT ![j] = {}]
    /\ RemovalDone(j)
    /\ UNCHANGED <<files, bundle, saved, via, targeted>>

RemovalFailsSilently(j) ==            \* mutant: drops the error of RemoveAll
    /\ pc[j] \in Deleting
    /\ RemovalDone(j)
    /\ handle' = [handle EXCEPT ![j] = {}]
    /\ UNCHANGED <<place, files, bundle, saved, via, targeted>>

(* A call of RemoveAll fails, or the name holds another directory by now.  *)
(* replaceDir returns that error with the new bundle in place; the cleanup *)
(* that follows finds no temporary directory.                              *)
RemovalFails(j) ==
    /\ pc[j] \in Deleting
    /\ Goto(j, IF pc[j] = "dropOld" THEN "cleanup" ELSE "failed")
    /\ handle' = [handle EXCEPT ![j] = {}]
    /\ UNCHANGED <<place, files, bundle, saved, via, targeted>>

(* The process is killed; a command that has ended is not affected. *)
Crash(j) ==
    /\ pc[j] \in Running
    /\ Goto(j, "crashed")
    /\ handle' = [handle EXCEPT ![j] = {}]
    /\ UNCHANGED <<place, files, bundle, saved, via, targeted>>

-----------------------------------------------------------------------------
Start(j) ==
    \/ \E n \in Plugins, v \in Versions : BeginInstall(j, n, v)
    \/ MkdirFails(j)
    \/ \E n \in Plugins : BeginRemove(j, n)
    \/ \E m \in Jobs : BeginRemoveOld(j, m)

Step(j) ==
    \/ \E f \in Files : CopyFile(j, f)
    \/ StatDest(j)
    \/ Publish(j)
    \/ SetAside(j)
    \/ SwapIn(j)
    \/ SwapInFails(j)
    \/ Rollback(j)
    \/ Abandon(j)
    \/ OpenVictim(j)
    \/ VictimAbsent(j)
    \/ \E f \in Files : Unlink(j, f)
    \/ Rmdir(j)
    \/ RemovalFails(j)

Next == \E j \in Jobs : Start(j) \/ Step(j) \/ Crash(j)

Spec == Init /\ [][Next]_vars

-----------------------------------------------------------------------------
(* What the calls must guarantee whoever else is at work in the directory. *)

(* "A failed installation does not leave a partially replaced plugin"      *)
(* (install.go, copyBundleIntoPlace): whatever fails or is killed, the     *)
(* directory a plugin is served from holds every file of one bundle,       *)
(* unless the user asked for that plugin to be removed.                    *)
InstalledIsWhole ==
    \A d \in Dirs :
        place[d] = "dest" /\ bundle[d].plugin \notin targeted => Whole(d)

(* A whole bundle of n is in the plugin directory, installed or set aside. *)
HasCopy(n) ==
    \E d \in Dirs : /\ bundle[d].plugin = n
                    /\ place[d] \in {"dest", "old"}
                    /\ Whole(d)

(* No interleaving of replacements, failed renames, failed rollbacks and   *)
(* kills ever destroys the last whole bundle of a plugin nobody removed:   *)
(* replaceDir deletes a backup only once the new bundle has the name, and  *)
(* the name can be taken again only by keeping what it named.              *)
NoPluginLost ==
    [][\A n \in Plugins : n \notin targeted' /\ HasCopy(n) => HasCopy(n)']_vars

(* A call that reports success leaves neither its temporary directory nor  *)
(* its backup behind, also when other jobs fail, or delete the backup.     *)
SuccessLeavesNothing ==
    \A j \in Jobs : pc[j] = "changed" =>
        place[j] # "tmp" /\ \A d \in saved[j] : place[d] = "absent"

(* Once every call that started has reported success, the directory holds  *)
(* installed, whole bundles and nothing else, so the commands that load    *)
(* every directory they find (pluginDirs) find only bundles that load.     *)
CleanRoot ==
    (\A j \in Jobs : pc[j] \in {"idle", "changed"}) =>
        \A d \in Dirs : place[d] # "absent" => place[d] = "dest" /\ Whole(d)

-----------------------------------------------------------------------------
(* The abstract view: the bundle at each plugin's name and the whole       *)
(* bundles its backups hold.                                               *)
SlotOf(n) ==
    IF n \in targeted \/ ~Occupied(n) THEN 0
    ELSE bundle[CHOOSE d \in InstalledAt(n) : TRUE].version

KeptOf(n) ==
    IF n \in targeted THEN {}
    ELSE {<<d, bundle[d].version>> :
             d \in {e \in Dirs : place[e] = "old" /\ bundle[e].plugin = n /\ Whole(e)}}

Slots == INSTANCE PluginSlots WITH
            slot     <- [n \in Plugins |-> SlotOf(n)],
            kept     <- [n \in Plugins |-> KeptOf(n)],
            released <- targeted

(* The directory implements the promise of PluginSlots. *)
ImplementsSlots == Slots!Spec
=============================================================================
