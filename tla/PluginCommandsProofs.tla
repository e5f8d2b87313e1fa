------------------------ MODULE PluginCommandsProofs ------------------------
(***************************************************************************)
(* Theorems about the plugin directory and the commands over it.           *)
(*                                                                         *)
(* The first part is about PluginStore, for any number of jobs, plugins,   *)
(* versions and files: what is installed stays whole, no step deletes a    *)
(* last copy, what success leaves behind, and that the store implements    *)
(* PluginSlots.                                                            *)
(*                                                                         *)
(* The second part is about PluginCommands, for any number of processes,   *)
(* targets and requests:                                                   *)
(*   - a command only makes calls of PluginStore (CommandsAreCalls);       *)
(*   - commands that overlapped and all succeeded left whole plugins       *)
(*     (OverlapIsDelivered);                                               *)
(*   - a command that runs alone harms nothing when it fails or is killed  *)
(*     (FailuresHarmNothing) and has done what it says when it succeeds    *)
(*     (SuccessIsDelivered).                                               *)
(***************************************************************************)
EXTENDS PluginCommands, FiniteSetTheorems, SequenceTheorems, TLAPS
-----------------------------------------------------------------------------
(* The plugin directory.                                                   *)


(* A job that has not started has no directory, backup or handle, and no   *)
(* other job holds its directory.                                          *)
IdleIsBlank ==
    \A j \in Jobs : pc[j] = "idle" =>
        /\ place[j] = "absent" /\ saved[j] = {} /\ handle[j] = {} /\ via[j] = j
        /\ \A k \in Jobs : j \notin saved[k] /\ j \notin handle[k]

(* A backup belongs to one job, holds that job's plugin, and never bears   *)
(* an installed or a temporary name.                                       *)
BackupsOwned ==
    \A j \in Jobs : \A d \in saved[j] :
        /\ place[d] \in {"old", "absent"}
        /\ bundle[d].plugin = bundle[j].plugin
        /\ \A k \in Jobs : d \in saved[k] => k = j

(* A job still has the temporary directory it fills and renames, and when  *)
(* it is about to rename it, the directory holds the whole bundle.         *)
ReadyIsWhole ==
    \A j \in Jobs :
        /\ pc[j] \in {"copy", "publish", "setAside", "swapIn"} => place[j] = "tmp"
        /\ pc[j] \in {"publish", "setAside", "swapIn"} =>
              (bundle[j].plugin \notin targeted => Whole(j))

(* A backup that may still be renamed back holds a whole bundle. *)
BackupIsWhole ==
    \A j \in Jobs : pc[j] \in {"swapIn", "rollback"} =>
        \A d \in saved[j] :
            place[d] = "old" /\ bundle[d].plugin \notin targeted => Whole(d)

(* Who deletes for the user deletes a plugin the user asked to remove. *)
RemovalsAsked ==
    \A j \in Jobs :
        /\ pc[j] = "remove" => bundle[j].plugin \in targeted
        /\ via[j] # j => pc[via[j]] # "idle" /\ bundle[via[j]].plugin \in targeted

(* What a RemoveAll has opened is a plugin being removed, the job's own    *)
(* temporary directory, or the job's own backup.                           *)
HandleJustified ==
    \A j \in Jobs : \A d \in handle[j] :
        /\ pc[j] \in Deleting
        /\ \/ bundle[d].plugin \in targeted
           \/ pc[j] = "cleanup" /\ d = j /\ place[d] \in {"tmp", "absent"}
           \/ pc[j] = "dropOld" /\ d \in saved[j]

IInv == /\ TypeOK
        /\ IdleIsBlank
        /\ BackupsOwned
        /\ ReadyIsWhole
        /\ BackupIsWhole
        /\ RemovalsAsked
        /\ HandleJustified
        /\ InstalledIsWhole

-----------------------------------------------------------------------------
(* One named fact per action: the shape in which the proofs split a step.  *)
LEMMA NextCases ==
    ASSUME Next
    PROVE  \E j \in Jobs :
              \/ \E n \in Plugins, v \in Versions : BeginInstall(j, n, v)
              \/ \E n \in Plugins : BeginRemove(j, n)
              \/ \E m \in Jobs : BeginRemoveOld(j, m)
              \/ \E f \in Files : CopyFile(j, f)
              \/ \E f \in Files : Unlink(j, f)
              \/ MkdirFails(j)
              \/ StatDest(j)
              \/ Publish(j)
              \/ SetAside(j)
              \/ SwapIn(j)
              \/ SwapInFails(j)
              \/ Rollback(j)
              \/ Abandon(j)
              \/ OpenVictim(j)
              \/ VictimAbsent(j)
              \/ Rmdir(j)
              \/ RemovalFails(j)
              \/ Crash(j)
BY DEF Next, Start, Step


(* Every action keeps the variables in their types. *)
LEMMA TypeStep == TypeOK /\ [Next]_vars => TypeOK'
<1> SUFFICES ASSUME TypeOK, [Next]_vars
             PROVE  TypeOK'
    OBVIOUS
<1> USE DEF TypeOK, Places, Running, Deleting, Ended, Bundles, Dirs, Goto
<1>1. CASE UNCHANGED vars
    BY <1>1 DEF vars
<1>2. CASE Next
    <2>1. PICK j \in Jobs :
              \/ \E n \in Plugins, v \in Versions : BeginInstall(j, n, v)
              \/ \E n \in Plugins : BeginRemove(j, n)
              \/ \E m \in Jobs : BeginRemoveOld(j, m)
              \/ \E f \in Files : CopyFile(j, f)
              \/ \E f \in Files : Unlink(j, f)
              \/ MkdirFails(j)
              \/ StatDest(j)
              \/ Publish(j)
              \/ SetAside(j)
              \/ SwapIn(j)
              \/ SwapInFails(j)
              \/ Rollback(j)
              \/ Abandon(j)
              \/ OpenVictim(j)
              \/ VictimAbsent(j)
              \/ Rmdir(j)
              \/ RemovalFails(j)
              \/ Crash(j)
        BY <1>2, NextCases
    <2>2. ASSUME NEW n \in Plugins, NEW v \in Versions, BeginInstall(j, n, v)
          PROVE  TypeOK'
        BY <2>2 DEF BeginInstall
    <2>3. ASSUME NEW n \in Plugins, BeginRemove(j, n) PROVE TypeOK'
        BY <2>3 DEF BeginRemove
    <2>4. ASSUME NEW m \in Jobs, BeginRemoveOld(j, m) PROVE TypeOK'
        BY <2>4 DEF BeginRemoveOld
    <2>5. ASSUME NEW f \in Files, CopyFile(j, f) PROVE TypeOK'
        BY <2>5 DEF CopyFile
    <2>6. ASSUME NEW f \in Files, Unlink(j, f) PROVE TypeOK'
        BY <2>6 DEF Unlink
    <2>7. CASE MkdirFails(j)
        BY <2>7 DEF MkdirFails, InstalledAt, Victim, RemovalDone
    <2>8. CASE StatDest(j)
        BY <2>8 DEF StatDest, InstalledAt, Victim, RemovalDone
    <2>9. CASE Publish(j)
        BY <2>9 DEF Publish, InstalledAt, Victim, RemovalDone
    <2>10. CASE SetAside(j)
        BY <2>10 DEF SetAside, InstalledAt, Victim, RemovalDone
    <2>11. CASE SwapIn(j)
        BY <2>11 DEF SwapIn, InstalledAt, Victim, RemovalDone
    <2>12. CASE SwapInFails(j)
        BY <2>12 DEF SwapInFails, InstalledAt, Victim, RemovalDone
    <2>13. CASE Rollback(j)
        BY <2>13 DEF Rollback, InstalledAt, Victim, RemovalDone
    <2>14. CASE Abandon(j)
        BY <2>14 DEF Abandon, InstalledAt, Victim, RemovalDone
    <2>15. CASE OpenVictim(j)
        BY <2>15 DEF OpenVictim, InstalledAt, Victim, RemovalDone
    <2>16. CASE VictimAbsent(j)
        BY <2>16 DEF VictimAbsent, InstalledAt, Victim, RemovalDone
    <2>17. CASE Rmdir(j)
        BY <2>17 DEF Rmdir, InstalledAt, Victim, RemovalDone
    <2>18. CASE RemovalFails(j)
        BY <2>18 DEF RemovalFails, InstalledAt, Victim, RemovalDone
    <2>19. CASE Crash(j)
        BY <2>19 DEF Crash, InstalledAt, Victim, RemovalDone
    <2>99. QED
        BY <2>1, <2>2, <2>3, <2>4, <2>5, <2>6, <2>7, <2>8, <2>9, <2>10, <2>11, <2>12, <2>13, <2>14, <2>15, <2>16, <2>17, <2>18, <2>19
<1>3. QED
    BY <1>1, <1>2

-----------------------------------------------------------------------------
(* The inductive step of IInv, one lemma per action and one step per       *)
(* conjunct.                                                               *)

LEMMA BeginInstallKeeps ==
    ASSUME IInv, TypeOK', NEW j \in Jobs, NEW n \in Plugins, NEW v \in Versions, BeginInstall(j, n, v)
    PROVE  IInv'
<1> USE DEF IInv, TypeOK, Running, Deleting, Ended, Bundles, Dirs, Goto, Whole, BeginInstall
<1>1. IdleIsBlank'
    BY DEF IdleIsBlank
<1>2. BackupsOwned'
    BY DEF BackupsOwned, IdleIsBlank, ReadyIsWhole
<1>3. ReadyIsWhole'
    BY DEF ReadyIsWhole, HandleJustified, BackupsOwned, IdleIsBlank
<1>4. BackupIsWhole'
    BY DEF BackupIsWhole, HandleJustified, BackupsOwned, InstalledIsWhole, IdleIsBlank
<1>5. RemovalsAsked'
    BY DEF RemovalsAsked, IdleIsBlank
<1>6. HandleJustified'
    BY DEF HandleJustified, RemovalsAsked, BackupsOwned, IdleIsBlank
<1>7. InstalledIsWhole'
    BY DEF InstalledIsWhole, ReadyIsWhole, BackupIsWhole, HandleJustified, BackupsOwned, IdleIsBlank
<1> QED
    BY <1>1, <1>2, <1>3, <1>4, <1>5, <1>6, <1>7

LEMMA BeginRemoveKeeps ==
    ASSUME IInv, TypeOK', NEW j \in Jobs, NEW n \in Plugins, BeginRemove(j, n)
    PROVE  IInv'
<1> USE DEF IInv, TypeOK, Running, Deleting, Ended, Bundles, Dirs, Goto, Whole, BeginRemove
<1>1. IdleIsBlank'
    BY DEF IdleIsBlank
<1>2. BackupsOwned'
    BY DEF BackupsOwned, IdleIsBlank, ReadyIsWhole
<1>3. ReadyIsWhole'
    BY DEF ReadyIsWhole, HandleJustified, BackupsOwned, IdleIsBlank
<1>4. BackupIsWhole'
    BY DEF BackupIsWhole, HandleJustified, BackupsOwned, InstalledIsWhole, IdleIsBlank
<1>5. RemovalsAsked'
    BY DEF RemovalsAsked, IdleIsBlank
<1>6. HandleJustified'
    BY DEF HandleJustified, RemovalsAsked, BackupsOwned, IdleIsBlank
<1>7. InstalledIsWhole'
    BY DEF InstalledIsWhole, ReadyIsWhole, BackupIsWhole, HandleJustified, BackupsOwned, IdleIsBlank
<1> QED
    BY <1>1, <1>2, <1>3, <1>4, <1>5, <1>6, <1>7

LEMMA BeginRemoveOldKeeps ==
    ASSUME IInv, TypeOK', NEW j \in Jobs, NEW m \in Jobs, BeginRemoveOld(j, m)
    PROVE  IInv'
<1> USE DEF IInv, TypeOK, Running, Deleting, Ended, Bundles, Dirs, Goto, Whole, BeginRemoveOld
<1>1. IdleIsBlank'
    BY DEF IdleIsBlank
<1>2. BackupsOwned'
    BY DEF BackupsOwned, IdleIsBlank, ReadyIsWhole
<1>3. ReadyIsWhole'
    BY DEF ReadyIsWhole, HandleJustified, BackupsOwned, IdleIsBlank
<1>4. BackupIsWhole'
    BY DEF BackupIsWhole, HandleJustified, BackupsOwned, InstalledIsWhole, IdleIsBlank
<1>5. RemovalsAsked'
    BY DEF RemovalsAsked, IdleIsBlank
<1>6. HandleJustified'
    BY DEF HandleJustified, RemovalsAsked, BackupsOwned, IdleIsBlank
<1>7. InstalledIsWhole'
    BY DEF InstalledIsWhole, ReadyIsWhole, BackupIsWhole, HandleJustified, BackupsOwned, IdleIsBlank
<1> QED
    BY <1>1, <1>2, <1>3, <1>4, <1>5, <1>6, <1>7

LEMMA CopyFileKeeps ==
    ASSUME IInv, TypeOK', NEW j \in Jobs, NEW f \in Files, CopyFile(j, f)
    PROVE  IInv'
<1> USE DEF IInv, TypeOK, Running, Deleting, Ended, Bundles, Dirs, Goto, Whole, CopyFile
<1>1. IdleIsBlank'
    BY DEF IdleIsBlank
<1>2. BackupsOwned'
    BY DEF BackupsOwned, IdleIsBlank, ReadyIsWhole
<1>3. ReadyIsWhole'
    BY DEF ReadyIsWhole, HandleJustified, BackupsOwned, IdleIsBlank
<1>4. BackupIsWhole'
    BY DEF BackupIsWhole, HandleJustified, BackupsOwned, InstalledIsWhole, IdleIsBlank
<1>5. RemovalsAsked'
    BY DEF RemovalsAsked, IdleIsBlank
<1>6. HandleJustified'
    BY DEF HandleJustified, RemovalsAsked, BackupsOwned, IdleIsBlank
<1>7. InstalledIsWhole'
    BY DEF InstalledIsWhole, ReadyIsWhole, BackupIsWhole, HandleJustified, BackupsOwned, IdleIsBlank
<1> QED
    BY <1>1, <1>2, <1>3, <1>4, <1>5, <1>6, <1>7

LEMMA UnlinkKeeps ==
    ASSUME IInv, TypeOK', NEW j \in Jobs, NEW f \in Files, Unlink(j, f)
    PROVE  IInv'
<1> USE DEF IInv, TypeOK, Running, Deleting, Ended, Bundles, Dirs, Goto, Whole, Unlink
<1>1. IdleIsBlank'
    BY DEF IdleIsBlank
<1>2. BackupsOwned'
    BY DEF BackupsOwned, IdleIsBlank, ReadyIsWhole
<1>3. ReadyIsWhole'
    BY DEF ReadyIsWhole, HandleJustified, BackupsOwned, IdleIsBlank
<1>4. BackupIsWhole'
    <2>1. PICK d \in handle[j] : files' = [files EXCEPT ![d] = @ \ {f}]
        OBVIOUS
    <2> SUFFICES ASSUME NEW k \in Jobs, pc[k] \in {"swapIn", "rollback"},
                        NEW e \in saved[k], place[e] = "old",
                        bundle[e].plugin \notin targeted
                 PROVE  Whole(e)'
        BY DEF BackupIsWhole
    <2>2. e # d
        <3>1. d \in saved[j] => j = k \/ e # d
            BY DEF BackupsOwned
        <3> QED
            BY <3>1 DEF HandleJustified
    <2> QED
        BY <2>1, <2>2 DEF BackupIsWhole
<1>5. RemovalsAsked'
    BY DEF RemovalsAsked, IdleIsBlank
<1>6. HandleJustified'
    BY DEF HandleJustified, RemovalsAsked, BackupsOwned, IdleIsBlank
<1>7. InstalledIsWhole'
    BY DEF InstalledIsWhole, ReadyIsWhole, BackupIsWhole, HandleJustified, BackupsOwned, IdleIsBlank
<1> QED
    BY <1>1, <1>2, <1>3, <1>4, <1>5, <1>6, <1>7

LEMMA MkdirFailsKeeps ==
    ASSUME IInv, TypeOK', NEW j \in Jobs, MkdirFails(j)
    PROVE  IInv'
<1> USE DEF IInv, TypeOK, Running, Deleting, Ended, Bundles, Dirs, Goto, Whole, MkdirFails
<1>1. IdleIsBlank'
    BY DEF IdleIsBlank
<1>2. BackupsOwned'
    BY DEF BackupsOwned, IdleIsBlank, ReadyIsWhole
<1>3. ReadyIsWhole'
    BY DEF ReadyIsWhole, HandleJustified, BackupsOwned, IdleIsBlank
<1>4. BackupIsWhole'
    BY DEF BackupIsWhole, HandleJustified, BackupsOwned, InstalledIsWhole, IdleIsBlank
<1>5. RemovalsAsked'
    <2> SUFFICES ASSUME NEW k \in Jobs
                 PROVE  RemovalsAsked!(k)'
        BY DEF RemovalsAsked
    <2>1. via[k] \in Jobs /\ RemovalsAsked!(k)
        BY DEF RemovalsAsked
    <2> QED
        BY <2>1
<1>6. HandleJustified'
    BY DEF HandleJustified, RemovalsAsked, BackupsOwned, IdleIsBlank
<1>7. InstalledIsWhole'
    BY DEF InstalledIsWhole, ReadyIsWhole, BackupIsWhole, HandleJustified, BackupsOwned, IdleIsBlank
<1> QED
    BY <1>1, <1>2, <1>3, <1>4, <1>5, <1>6, <1>7

LEMMA StatDestKeeps ==
    ASSUME IInv, TypeOK', NEW j \in Jobs, StatDest(j)
    PROVE  IInv'
<1> USE DEF IInv, TypeOK, Running, Deleting, Ended, Bundles, Dirs, Goto, Whole, StatDest, Copied
<1>1. IdleIsBlank'
    BY DEF IdleIsBlank
<1>2. BackupsOwned'
    BY DEF BackupsOwned, IdleIsBlank, ReadyIsWhole
<1>3. ReadyIsWhole'
    BY DEF ReadyIsWhole, HandleJustified, BackupsOwned, IdleIsBlank
<1>4. BackupIsWhole'
    BY DEF BackupIsWhole, HandleJustified, BackupsOwned, InstalledIsWhole, IdleIsBlank
<1>5. RemovalsAsked'
    <2> SUFFICES ASSUME NEW k \in Jobs
                 PROVE  RemovalsAsked!(k)'
        BY DEF RemovalsAsked
    <2>1. via[k] \in Jobs /\ RemovalsAsked!(k)
        BY DEF RemovalsAsked
    <2> QED
        BY <2>1
<1>6. HandleJustified'
    BY DEF HandleJustified, RemovalsAsked, BackupsOwned, IdleIsBlank
<1>7. InstalledIsWhole'
    BY DEF InstalledIsWhole, ReadyIsWhole, BackupIsWhole, HandleJustified, BackupsOwned, IdleIsBlank
<1> QED
    BY <1>1, <1>2, <1>3, <1>4, <1>5, <1>6, <1>7

LEMMA PublishKeeps ==
    ASSUME IInv, TypeOK', NEW j \in Jobs, Publish(j)
    PROVE  IInv'
<1> USE DEF IInv, TypeOK, Running, Deleting, Ended, Bundles, Dirs, Goto, Whole, Publish
<1>1. IdleIsBlank'
    BY DEF IdleIsBlank
<1>2. BackupsOwned'
    BY DEF BackupsOwned, IdleIsBlank, ReadyIsWhole
<1>3. ReadyIsWhole'
    BY DEF ReadyIsWhole, HandleJustified, BackupsOwned, IdleIsBlank
<1>4. BackupIsWhole'
    BY DEF BackupIsWhole, HandleJustified, BackupsOwned, InstalledIsWhole, IdleIsBlank
<1>5. RemovalsAsked'
    BY DEF RemovalsAsked, IdleIsBlank
<1>6. HandleJustified'
    BY DEF HandleJustified, RemovalsAsked, BackupsOwned, IdleIsBlank
<1>7. InstalledIsWhole'
    BY DEF InstalledIsWhole, ReadyIsWhole, BackupIsWhole, HandleJustified, BackupsOwned, IdleIsBlank
<1> QED
    BY <1>1, <1>2, <1>3, <1>4, <1>5, <1>6, <1>7

LEMMA SetAsideKeeps ==
    ASSUME IInv, TypeOK', NEW j \in Jobs, SetAside(j)
    PROVE  IInv'
<1> USE DEF IInv, TypeOK, Running, Deleting, Ended, Bundles, Dirs, Goto, Whole, SetAside, InstalledAt
<1>1. IdleIsBlank'
    BY DEF IdleIsBlank
<1>2. BackupsOwned'
    BY DEF BackupsOwned, IdleIsBlank, ReadyIsWhole
<1>3. ReadyIsWhole'
    BY DEF ReadyIsWhole, HandleJustified, BackupsOwned, IdleIsBlank
<1>4. BackupIsWhole'
    BY DEF BackupIsWhole, HandleJustified, BackupsOwned, InstalledIsWhole, IdleIsBlank
<1>5. RemovalsAsked'
    BY DEF RemovalsAsked, IdleIsBlank
<1>6. HandleJustified'
    BY DEF HandleJustified, RemovalsAsked, BackupsOwned, IdleIsBlank
<1>7. InstalledIsWhole'
    BY DEF InstalledIsWhole, ReadyIsWhole, BackupIsWhole, HandleJustified, BackupsOwned, IdleIsBlank
<1> QED
    BY <1>1, <1>2, <1>3, <1>4, <1>5, <1>6, <1>7

LEMMA SwapInKeeps ==
    ASSUME IInv, TypeOK', NEW j \in Jobs, SwapIn(j)
    PROVE  IInv'
<1> USE DEF IInv, TypeOK, Running, Deleting, Ended, Bundles, Dirs, Goto, Whole, SwapIn
<1>1. IdleIsBlank'
    BY DEF IdleIsBlank
<1>2. BackupsOwned'
    BY DEF BackupsOwned, IdleIsBlank, ReadyIsWhole
<1>3. ReadyIsWhole'
    BY DEF ReadyIsWhole, HandleJustified, BackupsOwned, IdleIsBlank
<1>4. BackupIsWhole'
    BY DEF BackupIsWhole, HandleJustified, BackupsOwned, InstalledIsWhole, IdleIsBlank
<1>5. RemovalsAsked'
    BY DEF RemovalsAsked, IdleIsBlank
<1>6. HandleJustified'
    BY DEF HandleJustified, RemovalsAsked, BackupsOwned, IdleIsBlank
<1>7. InstalledIsWhole'
    BY DEF InstalledIsWhole, ReadyIsWhole, BackupIsWhole, HandleJustified, BackupsOwned, IdleIsBlank
<1> QED
    BY <1>1, <1>2, <1>3, <1>4, <1>5, <1>6, <1>7

LEMMA SwapInFailsKeeps ==
    ASSUME IInv, TypeOK', NEW j \in Jobs, SwapInFails(j)
    PROVE  IInv'
<1> USE DEF IInv, TypeOK, Running, Deleting, Ended, Bundles, Dirs, Goto, Whole, SwapInFails
<1>1. IdleIsBlank'
    BY DEF IdleIsBlank
<1>2. BackupsOwned'
    BY DEF BackupsOwned, IdleIsBlank, ReadyIsWhole
<1>3. ReadyIsWhole'
    BY DEF ReadyIsWhole, HandleJustified, BackupsOwned, IdleIsBlank
<1>4. BackupIsWhole'
    BY DEF BackupIsWhole, HandleJustified, BackupsOwned, InstalledIsWhole, IdleIsBlank
<1>5. RemovalsAsked'
    <2> SUFFICES ASSUME NEW k \in Jobs
                 PROVE  RemovalsAsked!(k)'
        BY DEF RemovalsAsked
    <2>1. via[k] \in Jobs /\ RemovalsAsked!(k)
        BY DEF RemovalsAsked
    <2> QED
        BY <2>1
<1>6. HandleJustified'
    BY DEF HandleJustified, RemovalsAsked, BackupsOwned, IdleIsBlank
<1>7. InstalledIsWhole'
    BY DEF InstalledIsWhole, ReadyIsWhole, BackupIsWhole, HandleJustified, BackupsOwned, IdleIsBlank
<1> QED
    BY <1>1, <1>2, <1>3, <1>4, <1>5, <1>6, <1>7

LEMMA RollbackKeeps ==
    ASSUME IInv, TypeOK', NEW j \in Jobs, Rollback(j)
    PROVE  IInv'
<1> USE DEF IInv, TypeOK, Running, Deleting, Ended, Bundles, Dirs, Goto, Whole, Rollback
<1>1. IdleIsBlank'
    BY DEF IdleIsBlank
<1>2. BackupsOwned'
    BY DEF BackupsOwned, IdleIsBlank, ReadyIsWhole
<1>3. ReadyIsWhole'
    BY DEF ReadyIsWhole, HandleJustified, BackupsOwned, IdleIsBlank
<1>4. BackupIsWhole'
    BY DEF BackupIsWhole, HandleJustified, BackupsOwned, InstalledIsWhole, IdleIsBlank
<1>5. RemovalsAsked'
    BY DEF RemovalsAsked, IdleIsBlank
<1>6. HandleJustified'
    BY DEF HandleJustified, RemovalsAsked, BackupsOwned, IdleIsBlank
<1>7. InstalledIsWhole'
    BY DEF InstalledIsWhole, ReadyIsWhole, BackupIsWhole, HandleJustified, BackupsOwned, IdleIsBlank
<1> QED
    BY <1>1, <1>2, <1>3, <1>4, <1>5, <1>6, <1>7

LEMMA AbandonKeeps ==
    ASSUME IInv, TypeOK', NEW j \in Jobs, Abandon(j)
    PROVE  IInv'
<1> USE DEF IInv, TypeOK, Running, Deleting, Ended, Bundles, Dirs, Goto, Whole, Abandon
<1>1. IdleIsBlank'
    BY DEF IdleIsBlank
<1>2. BackupsOwned'
    BY DEF BackupsOwned, IdleIsBlank, ReadyIsWhole
<1>3. ReadyIsWhole'
    BY DEF ReadyIsWhole, HandleJustified, BackupsOwned, IdleIsBlank
<1>4. BackupIsWhole'
    BY DEF BackupIsWhole, HandleJustified, BackupsOwned, InstalledIsWhole, IdleIsBlank
<1>5. RemovalsAsked'
    BY DEF RemovalsAsked, IdleIsBlank
<1>6. HandleJustified'
    BY DEF HandleJustified, RemovalsAsked, BackupsOwned, IdleIsBlank
<1>7. InstalledIsWhole'
    BY DEF InstalledIsWhole, ReadyIsWhole, BackupIsWhole, HandleJustified, BackupsOwned, IdleIsBlank
<1> QED
    BY <1>1, <1>2, <1>3, <1>4, <1>5, <1>6, <1>7

LEMMA OpenVictimKeeps ==
    ASSUME IInv, TypeOK', NEW j \in Jobs, OpenVictim(j)
    PROVE  IInv'
<1> USE DEF IInv, TypeOK, Running, Deleting, Ended, Bundles, Dirs, Goto, Whole, OpenVictim, Victim, InstalledAt
<1>1. IdleIsBlank'
    BY DEF IdleIsBlank
<1>2. BackupsOwned'
    BY DEF BackupsOwned, IdleIsBlank, ReadyIsWhole
<1>3. ReadyIsWhole'
    BY DEF ReadyIsWhole, HandleJustified, BackupsOwned, IdleIsBlank
<1>4. BackupIsWhole'
    BY DEF BackupIsWhole, HandleJustified, BackupsOwned, InstalledIsWhole, IdleIsBlank
<1>5. RemovalsAsked'
    BY DEF RemovalsAsked, IdleIsBlank
<1>6. HandleJustified'
    <2>1. PICK d \in Victim(j) : handle' = [handle EXCEPT ![j] = {d}]
        OBVIOUS
    <2>2. CASE pc[j] = "dropOld" /\ d \in saved[via[j]]
        <3>1. bundle[d].plugin = bundle[via[j]].plugin
            BY <2>2 DEF BackupsOwned
        <3>2. CASE via[j] = j
            BY <2>1, <2>2, <3>2 DEF HandleJustified
        <3>3. CASE via[j] # j
            <4>1. bundle[d].plugin \in targeted
                BY <3>1, <3>3 DEF RemovalsAsked
            <4> QED
                BY <2>1, <2>2, <4>1 DEF HandleJustified
        <3> QED
            BY <3>2, <3>3
    <2>3. CASE pc[j] = "cleanup" /\ d = j /\ place[d] = "tmp"
        BY <2>1, <2>3 DEF HandleJustified
    <2>4. CASE pc[j] = "remove" /\ bundle[d].plugin = bundle[j].plugin
        BY <2>1, <2>4 DEF HandleJustified, RemovalsAsked
    <2> QED
        BY <2>1, <2>2, <2>3, <2>4
<1>7. InstalledIsWhole'
    BY DEF InstalledIsWhole, ReadyIsWhole, BackupIsWhole, HandleJustified, BackupsOwned, IdleIsBlank
<1> QED
    BY <1>1, <1>2, <1>3, <1>4, <1>5, <1>6, <1>7

LEMMA VictimAbsentKeeps ==
    ASSUME IInv, TypeOK', NEW j \in Jobs, VictimAbsent(j)
    PROVE  IInv'
<1> USE DEF IInv, TypeOK, Running, Deleting, Ended, Bundles, Dirs, Goto, Whole, VictimAbsent, RemovalDone
<1>1. IdleIsBlank'
    BY DEF IdleIsBlank
<1>2. BackupsOwned'
    BY DEF BackupsOwned, IdleIsBlank, ReadyIsWhole
<1>3. ReadyIsWhole'
    BY DEF ReadyIsWhole, HandleJustified, BackupsOwned, IdleIsBlank
<1>4. BackupIsWhole'
    BY DEF BackupIsWhole, HandleJustified, BackupsOwned, InstalledIsWhole, IdleIsBlank
<1>5. RemovalsAsked'
    BY DEF RemovalsAsked, IdleIsBlank
<1>6. HandleJustified'
    BY DEF HandleJustified, RemovalsAsked, BackupsOwned, IdleIsBlank
<1>7. InstalledIsWhole'
    BY DEF InstalledIsWhole, ReadyIsWhole, BackupIsWhole, HandleJustified, BackupsOwned, IdleIsBlank
<1> QED
    BY <1>1, <1>2, <1>3, <1>4, <1>5, <1>6, <1>7

LEMMA RmdirKeeps ==
    ASSUME IInv, TypeOK', NEW j \in Jobs, Rmdir(j)
    PROVE  IInv'
<1> USE DEF IInv, TypeOK, Running, Deleting, Ended, Bundles, Dirs, Goto, Whole, Rmdir, RemovalDone, Victim, InstalledAt
<1>1. IdleIsBlank'
    BY DEF IdleIsBlank
<1>2. BackupsOwned'
    BY DEF BackupsOwned, IdleIsBlank, ReadyIsWhole
<1>3. ReadyIsWhole'
    BY DEF ReadyIsWhole, HandleJustified, BackupsOwned, IdleIsBlank
<1>4. BackupIsWhole'
    BY DEF BackupIsWhole, HandleJustified, BackupsOwned, InstalledIsWhole, IdleIsBlank
<1>5. RemovalsAsked'
    BY DEF RemovalsAsked, IdleIsBlank
<1>6. HandleJustified'
    BY DEF HandleJustified, RemovalsAsked, BackupsOwned, IdleIsBlank
<1>7. InstalledIsWhole'
    BY DEF InstalledIsWhole, ReadyIsWhole, BackupIsWhole, HandleJustified, BackupsOwned, IdleIsBlank
<1> QED
    BY <1>1, <1>2, <1>3, <1>4, <1>5, <1>6, <1>7

LEMMA RemovalFailsKeeps ==
    ASSUME IInv, TypeOK', NEW j \in Jobs, RemovalFails(j)
    PROVE  IInv'
<1> USE DEF IInv, TypeOK, Running, Deleting, Ended, Bundles, Dirs, Goto, Whole, RemovalFails
<1>1. IdleIsBlank'
    BY DEF IdleIsBlank
<1>2. BackupsOwned'
    BY DEF BackupsOwned, IdleIsBlank, ReadyIsWhole
<1>3. ReadyIsWhole'
    BY DEF ReadyIsWhole, HandleJustified, BackupsOwned, IdleIsBlank
<1>4. BackupIsWhole'
    BY DEF BackupIsWhole, HandleJustified, BackupsOwned, InstalledIsWhole, IdleIsBlank
<1>5. RemovalsAsked'
    BY DEF RemovalsAsked, IdleIsBlank
<1>6. HandleJustified'
    BY DEF HandleJustified, RemovalsAsked, BackupsOwned, IdleIsBlank
<1>7. InstalledIsWhole'
    BY DEF InstalledIsWhole, ReadyIsWhole, BackupIsWhole, HandleJustified, BackupsOwned, IdleIsBlank
<1> QED
    BY <1>1, <1>2, <1>3, <1>4, <1>5, <1>6, <1>7

LEMMA CrashKeeps ==
    ASSUME IInv, TypeOK', NEW j \in Jobs, Crash(j)
    PROVE  IInv'
<1> USE DEF IInv, TypeOK, Running, Deleting, Ended, Bundles, Dirs, Goto, Whole, Crash
<1>1. IdleIsBlank'
    BY DEF IdleIsBlank
<1>2. BackupsOwned'
    BY DEF BackupsOwned, IdleIsBlank, ReadyIsWhole
<1>3. ReadyIsWhole'
    BY DEF ReadyIsWhole, HandleJustified, BackupsOwned, IdleIsBlank
<1>4. BackupIsWhole'
    BY DEF BackupIsWhole, HandleJustified, BackupsOwned, InstalledIsWhole, IdleIsBlank
<1>5. RemovalsAsked'
    <2> SUFFICES ASSUME NEW k \in Jobs
                 PROVE  RemovalsAsked!(k)'
        BY DEF RemovalsAsked
    <2>1. via[k] \in Jobs /\ RemovalsAsked!(k)
        BY DEF RemovalsAsked
    <2> QED
        BY <2>1
<1>6. HandleJustified'
    BY DEF HandleJustified, RemovalsAsked, BackupsOwned, IdleIsBlank
<1>7. InstalledIsWhole'
    BY DEF InstalledIsWhole, ReadyIsWhole, BackupIsWhole, HandleJustified, BackupsOwned, IdleIsBlank
<1> QED
    BY <1>1, <1>2, <1>3, <1>4, <1>5, <1>6, <1>7
-----------------------------------------------------------------------------
(* IInv is inductive.                                                      *)
LEMMA IInvInit == Init => IInv
<1> SUFFICES ASSUME Init PROVE IInv
    OBVIOUS
<1>1. TypeOK
    BY JobsAssumption DEF Init, TypeOK, Places, Running, Deleting, Ended, Bundles, Dirs
<1>2. IdleIsBlank /\ BackupsOwned /\ HandleJustified
    BY DEF Init, IdleIsBlank, BackupsOwned, HandleJustified
<1>3. ReadyIsWhole /\ BackupIsWhole /\ RemovalsAsked
    BY DEF Init, ReadyIsWhole, BackupIsWhole, RemovalsAsked
<1>4. InstalledIsWhole
    BY JobsAssumption DEF Init, InstalledIsWhole, Dirs, Whole
<1> QED
    BY <1>1, <1>2, <1>3, <1>4 DEF IInv

LEMMA IInvStep == IInv /\ [Next]_vars => IInv'
<1> SUFFICES ASSUME IInv, [Next]_vars
             PROVE  IInv'
    OBVIOUS
<1>1. TypeOK'
    BY TypeStep DEF IInv
<1>2. CASE UNCHANGED vars
    BY <1>2 DEF vars, IInv, TypeOK, IdleIsBlank, BackupsOwned, ReadyIsWhole,
                BackupIsWhole, RemovalsAsked, HandleJustified, InstalledIsWhole,
                Whole
<1>3. CASE Next
    <2>1. PICK j \in Jobs :
              \/ \E n \in Plugins, v \in Versions : BeginInstall(j, n, v)
              \/ \E n \in Plugins : BeginRemove(j, n)
              \/ \E m \in Jobs : BeginRemoveOld(j, m)
              \/ \E f \in Files : CopyFile(j, f)
              \/ \E f \in Files : Unlink(j, f)
              \/ MkdirFails(j)
              \/ StatDest(j)
              \/ Publish(j)
              \/ SetAside(j)
              \/ SwapIn(j)
              \/ SwapInFails(j)
              \/ Rollback(j)
              \/ Abandon(j)
              \/ OpenVictim(j)
              \/ VictimAbsent(j)
              \/ Rmdir(j)
              \/ RemovalFails(j)
              \/ Crash(j)
        BY <1>3, NextCases
    <2>2. ASSUME NEW n \in Plugins, NEW v \in Versions, BeginInstall(j, n, v) PROVE IInv'
        BY <1>1, <2>2, BeginInstallKeeps
    <2>3. ASSUME NEW n \in Plugins, BeginRemove(j, n) PROVE IInv'
        BY <1>1, <2>3, BeginRemoveKeeps
    <2>4. ASSUME NEW m \in Jobs, BeginRemoveOld(j, m) PROVE IInv'
        BY <1>1, <2>4, BeginRemoveOldKeeps
    <2>5. ASSUME NEW f \in Files, CopyFile(j, f) PROVE IInv'
        BY <1>1, <2>5, CopyFileKeeps
    <2>6. ASSUME NEW f \in Files, Unlink(j, f) PROVE IInv'
        BY <1>1, <2>6, UnlinkKeeps
    <2>7. CASE MkdirFails(j)
        BY <1>1, <2>7, MkdirFailsKeeps
    <2>8. CASE StatDest(j)
        BY <1>1, <2>8, StatDestKeeps
    <2>9. CASE Publish(j)
        BY <1>1, <2>9, PublishKeeps
    <2>10. CASE SetAside(j)
        BY <1>1, <2>10, SetAsideKeeps
    <2>11. CASE SwapIn(j)
        BY <1>1, <2>11, SwapInKeeps
    <2>12. CASE SwapInFails(j)
        BY <1>1, <2>12, SwapInFailsKeeps
    <2>13. CASE Rollback(j)
        BY <1>1, <2>13, RollbackKeeps
    <2>14. CASE Abandon(j)
        BY <1>1, <2>14, AbandonKeeps
    <2>15. CASE OpenVictim(j)
        BY <1>1, <2>15, OpenVictimKeeps
    <2>16. CASE VictimAbsent(j)
        BY <1>1, <2>16, VictimAbsentKeeps
    <2>17. CASE Rmdir(j)
        BY <1>1, <2>17, RmdirKeeps
    <2>18. CASE RemovalFails(j)
        BY <1>1, <2>18, RemovalFailsKeeps
    <2>19. CASE Crash(j)
        BY <1>1, <2>19, CrashKeeps
    <2>99. QED
        BY <2>1, <2>2, <2>3, <2>4, <2>5, <2>6, <2>7, <2>8, <2>9, <2>10,
           <2>11, <2>12, <2>13, <2>14, <2>15, <2>16, <2>17, <2>18, <2>19
<1>4. QED
    BY <1>2, <1>3

(* The strengthened invariant holds in every behaviour. *)
THEOREM InductiveInvariant == Spec => []IInv
<1>1. Init => IInv
    BY IInvInit
<1>2. IInv /\ [Next]_vars => IInv'
    BY IInvStep
<1> QED
    BY <1>1, <1>2, PTL DEF Spec

(* Every variable keeps its type, in every behaviour. *)
THEOREM TypeCorrect == Spec => []TypeOK
<1>1. IInv => TypeOK
    BY DEF IInv
<1> QED
    BY <1>1, InductiveInvariant, PTL

(* copyBundleIntoPlace: whatever fails or is killed, for any number of     *)
(* concurrent calls, the directory a plugin is served from holds every     *)
(* file of one bundle, unless the user asked for its removal.              *)
THEOREM InstalledWhole == Spec => []InstalledIsWhole
<1>1. IInv => InstalledIsWhole
    BY DEF IInv
<1> QED
    BY <1>1, InductiveInvariant, PTL

-----------------------------------------------------------------------------
(* The last whole bundle of a plugin survives.                             *)

(* A whole bundle of n that nobody may delete: it is installed, or set     *)
(* aside by a job that has not replaced it yet, or no longer will.         *)
Secure(d, n) ==
    /\ bundle[d].plugin = n
    /\ Whole(d)
    /\ \/ place[d] = "dest"
       \/ /\ place[d] = "old"
          /\ \A k \in Jobs : d \in saved[k] => pc[k] # "dropOld"

(* A plugin that has a copy has one that nobody may delete. *)
CopiesSecure ==
    \A n \in Plugins :
        n \notin targeted /\ HasCopy(n) => \E d \in Dirs : Secure(d, n)

(* A copy nobody may delete is replaced at worst by another one. *)
LEMMA SecureKept ==
    ASSUME IInv, TypeOK', Next,
           NEW n \in Plugins, n \notin targeted',
           NEW d \in Dirs, Secure(d, n)
    PROVE  \E e \in Dirs : Secure(e, n)'
<1> DEFINE Secured == \E e \in Dirs : Secure(e, n)'
<1> SUFFICES Secured
    OBVIOUS
<1> USE DEF IInv, TypeOK, Running, Deleting, Ended, Bundles, Dirs, Goto, Whole, Secure
<1>1. PICK j \in Jobs :
          \/ \E m \in Plugins, v \in Versions : BeginInstall(j, m, v)
          \/ \E m \in Plugins : BeginRemove(j, m)
          \/ \E m \in Jobs : BeginRemoveOld(j, m)
          \/ \E f \in Files : CopyFile(j, f)
          \/ \E f \in Files : Unlink(j, f)
          \/ MkdirFails(j)
          \/ StatDest(j)
          \/ Publish(j)
          \/ SetAside(j)
          \/ SwapIn(j)
          \/ SwapInFails(j)
          \/ Rollback(j)
          \/ Abandon(j)
          \/ OpenVictim(j)
          \/ VictimAbsent(j)
          \/ Rmdir(j)
          \/ RemovalFails(j)
          \/ Crash(j)
    BY NextCases
<1>2. ASSUME NEW m \in Plugins, NEW v \in Versions, BeginInstall(j, m, v) PROVE Secured
    BY <1>2 DEF BeginInstall, IdleIsBlank, BackupsOwned
<1>3. ASSUME NEW m \in Plugins, BeginRemove(j, m) PROVE Secured
    BY <1>3 DEF BeginRemove, IdleIsBlank
<1>4. ASSUME NEW m \in Jobs, BeginRemoveOld(j, m) PROVE Secured
    BY <1>4 DEF BeginRemoveOld, IdleIsBlank
<1>5. ASSUME NEW f \in Files, CopyFile(j, f) PROVE Secured
    <2>1. d # j
        BY <1>5 DEF CopyFile
    <2>2. Secure(d, n)'
        BY <2>1, <1>5 DEF CopyFile
    <2> QED
        BY <2>2
<1>6. ASSUME NEW f \in Files, Unlink(j, f) PROVE Secured
    <2>1. PICK x \in handle[j] : files' = [files EXCEPT ![x] = @ \ {f}]
        BY <1>6 DEF Unlink
    <2>2. x # d
        <3>1. n \notin targeted
            BY <1>6 DEF Unlink
        <3>2. d \notin handle[j]
            BY <3>1 DEF HandleJustified, BackupsOwned
        <3> QED
            BY <3>2
    <2>3. Secure(d, n)'
        BY <1>6, <2>1, <2>2 DEF Unlink
    <2> QED
        BY <2>3
<1>7. CASE MkdirFails(j)
    BY <1>7 DEF MkdirFails
<1>8. CASE StatDest(j)
    BY <1>8 DEF StatDest
<1>9. CASE Publish(j)
    <2>1. d # j
        BY <1>9 DEF Publish, ReadyIsWhole
    <2>2. Secure(d, n)'
        BY <2>1, <1>9 DEF Publish
    <2> QED
        BY <2>2
<1>10. CASE SetAside(j)
    <2>1. PICK e \in InstalledAt(bundle[j].plugin) :
             /\ place' = [place EXCEPT ![e] = "old"]
             /\ saved' = [saved EXCEPT ![j] = {e}]
        BY <1>10 DEF SetAside
    <2>2. CASE d = e
        <3>1. \A k \in Jobs : d \notin saved[k]
            BY <2>2 DEF InstalledAt, BackupsOwned
        <3>2. Secure(d, n)'
            BY <1>10, <2>1, <2>2, <3>1 DEF SetAside
        <3> QED
            BY <3>2
    <2>3. CASE d # e
        <3>1. Secure(d, n)'
            BY <1>10, <2>1, <2>3 DEF SetAside
        <3> QED
            BY <3>1
    <2> QED
        BY <2>2, <2>3
<1>11. CASE SwapIn(j)
    <2>1. place[j] = "tmp" /\ (bundle[j].plugin = n => Whole(j))
        BY <1>11 DEF SwapIn, ReadyIsWhole
    <2>2. CASE d \in saved[j]
        <3>1. Secure(j, n)'
            BY <1>11, <2>1, <2>2 DEF SwapIn, BackupsOwned
        <3> QED
            BY <3>1
    <2>3. CASE d \notin saved[j]
        <3>1. Secure(d, n)'
            BY <1>11, <2>1, <2>3 DEF SwapIn
        <3> QED
            BY <3>1
    <2> QED
        BY <2>2, <2>3
<1>12. CASE SwapInFails(j)
    BY <1>12 DEF SwapInFails
<1>13. CASE Rollback(j)
    BY <1>13 DEF Rollback, BackupsOwned
<1>14. CASE Abandon(j)
    BY <1>14 DEF Abandon
<1>15. CASE OpenVictim(j)
    BY <1>15 DEF OpenVictim
<1>16. CASE VictimAbsent(j)
    BY <1>16 DEF VictimAbsent, RemovalDone
<1>17. CASE Rmdir(j)
    BY FilesAssumption, <1>17 DEF Rmdir, Victim, RemovalDone, InstalledAt
<1>18. CASE RemovalFails(j)
    BY <1>18 DEF RemovalFails
<1>19. CASE Crash(j)
    BY <1>19 DEF Crash
<1>99. QED
    BY <1>1, <1>2, <1>3, <1>4, <1>5, <1>6, <1>7, <1>8, <1>9, <1>10, <1>11,
       <1>12, <1>13, <1>14, <1>15, <1>16, <1>17, <1>18, <1>19
(* A step that brings the first copy of a plugin brings a secure one. *)
LEMMA CopyAppears ==
    ASSUME IInv, TypeOK', InstalledIsWhole', Next,
           NEW n \in Plugins, n \notin targeted', ~HasCopy(n), HasCopy(n)'
    PROVE  \E e \in Dirs : Secure(e, n)'
<1> DEFINE Secured == \E e \in Dirs : Secure(e, n)'
<1> SUFFICES Secured
    OBVIOUS
<1> USE DEF IInv, TypeOK, Running, Deleting, Ended, Bundles, Dirs, Goto, Whole, HasCopy
<1>1. PICK j \in Jobs :
          \/ \E m \in Plugins, v \in Versions : BeginInstall(j, m, v)
          \/ \E m \in Plugins : BeginRemove(j, m)
          \/ \E m \in Jobs : BeginRemoveOld(j, m)
          \/ \E f \in Files : CopyFile(j, f)
          \/ \E f \in Files : Unlink(j, f)
          \/ MkdirFails(j)
          \/ StatDest(j)
          \/ Publish(j)
          \/ SetAside(j)
          \/ SwapIn(j)
          \/ SwapInFails(j)
          \/ Rollback(j)
          \/ Abandon(j)
          \/ OpenVictim(j)
          \/ VictimAbsent(j)
          \/ Rmdir(j)
          \/ RemovalFails(j)
          \/ Crash(j)
    BY NextCases
<1>2. ASSUME NEW m \in Plugins, NEW v \in Versions, BeginInstall(j, m, v) PROVE Secured
    BY <1>2 DEF BeginInstall
<1>3. ASSUME NEW m \in Plugins, BeginRemove(j, m) PROVE Secured
    BY <1>3 DEF BeginRemove, IdleIsBlank
<1>4. ASSUME NEW m \in Jobs, BeginRemoveOld(j, m) PROVE Secured
    BY <1>4 DEF BeginRemoveOld
<1>5. ASSUME NEW f \in Files, CopyFile(j, f) PROVE Secured
    BY <1>5 DEF CopyFile, ReadyIsWhole
<1>6. ASSUME NEW f \in Files, Unlink(j, f) PROVE Secured
    BY <1>6 DEF Unlink
<1>7. CASE MkdirFails(j)
    BY <1>7 DEF MkdirFails
<1>8. CASE StatDest(j)
    BY <1>8 DEF StatDest
<1>9. CASE Publish(j)
    <2>1. place'[j] = "dest" /\ bundle[j].plugin = n
        BY <1>9 DEF Publish
    <2>2. Secure(j, n)'
        BY <2>1, <1>9 DEF Publish, Secure, InstalledIsWhole
    <2> QED
        BY <2>2
<1>10. CASE SetAside(j)
    BY <1>10 DEF SetAside, InstalledAt
<1>11. CASE SwapIn(j)
    <2>1. place'[j] = "dest" /\ bundle[j].plugin = n
        BY <1>11 DEF SwapIn
    <2>2. Secure(j, n)'
        BY <2>1, <1>11 DEF SwapIn, Secure, InstalledIsWhole
    <2> QED
        BY <2>2
<1>12. CASE SwapInFails(j)
    BY <1>12 DEF SwapInFails
<1>13. CASE Rollback(j)
    BY <1>13 DEF Rollback
<1>14. CASE Abandon(j)
    BY <1>14 DEF Abandon
<1>15. CASE OpenVictim(j)
    BY <1>15 DEF OpenVictim
<1>16. CASE VictimAbsent(j)
    BY <1>16 DEF VictimAbsent, RemovalDone
<1>17. CASE Rmdir(j)
    BY <1>17 DEF Rmdir, Victim, RemovalDone, InstalledAt
<1>18. CASE RemovalFails(j)
    BY <1>18 DEF RemovalFails
<1>19. CASE Crash(j)
    BY <1>19 DEF Crash
<1>99. QED
    BY <1>1, <1>2, <1>3, <1>4, <1>5, <1>6, <1>7, <1>8, <1>9, <1>10, <1>11,
       <1>12, <1>13, <1>14, <1>15, <1>16, <1>17, <1>18, <1>19

LEMMA CopiesSecureInit == Init => CopiesSecure
<1> SUFFICES ASSUME Init, NEW n \in Plugins, HasCopy(n)
             PROVE  \E d \in Dirs : Secure(d, n)
    BY DEF CopiesSecure
<1>1. PICK d \in Dirs : /\ bundle[d].plugin = n
                        /\ place[d] \in {"dest", "old"}
                        /\ Whole(d)
    BY DEF HasCopy
<1>2. place[d] = "dest"
    BY <1>1 DEF Init
<1> QED
    BY <1>1, <1>2 DEF Secure

LEMMA CopiesSecureStep == IInv /\ IInv' /\ CopiesSecure /\ [Next]_vars => CopiesSecure'
<1> SUFFICES ASSUME IInv, IInv', CopiesSecure, [Next]_vars,
                    NEW n \in Plugins, n \notin targeted', HasCopy(n)'
             PROVE  \E d \in Dirs : Secure(d, n)'
    BY DEF CopiesSecure
<1>1. TypeOK' /\ InstalledIsWhole'
    BY DEF IInv
<1>2. n \notin targeted
    BY DEF Next, Start, Step, vars, BeginInstall, BeginRemove, BeginRemoveOld,
           MkdirFails, CopyFile, StatDest, Publish, SetAside, SwapIn, SwapInFails,
           Rollback, Abandon, OpenVictim, VictimAbsent, Unlink, Rmdir,
           RemovalFails, Crash
<1>3. CASE UNCHANGED vars
    BY <1>2, <1>3 DEF vars, CopiesSecure, HasCopy, Secure, Whole
<1>4. CASE Next /\ HasCopy(n)
    <2>1. PICK d \in Dirs : Secure(d, n)
        BY <1>2, <1>4 DEF CopiesSecure
    <2> QED
        BY <1>1, <1>4, <2>1, SecureKept
<1>5. CASE Next /\ ~HasCopy(n)
    BY <1>1, <1>5, CopyAppears
<1> QED
    BY <1>3, <1>4, <1>5

(* replaceDir: no interleaving of replacements, failed renames, failed     *)
(* rollbacks, cleanups and kills, for any number of calls, destroys the    *)
(* last whole bundle of a plugin nobody asked to remove.                   *)
THEOREM LastCopySurvives == Spec => NoPluginLost
<1>1. Init => IInv /\ CopiesSecure
    BY IInvInit, CopiesSecureInit
<1>2. IInv /\ CopiesSecure /\ [Next]_vars => IInv' /\ CopiesSecure'
    BY IInvStep, CopiesSecureStep
<1>3. ASSUME IInv, CopiesSecure, [Next]_vars
      PROVE  [\A n \in Plugins : n \notin targeted' /\ HasCopy(n) => HasCopy(n)']_vars
    <2> SUFFICES ASSUME Next, NEW n \in Plugins, n \notin targeted', HasCopy(n)
                 PROVE  HasCopy(n)'
        BY <1>3
    <2>1. TypeOK'
        BY <1>3, TypeStep DEF IInv
    <2>2. n \notin targeted
        BY DEF Next, Start, Step, BeginInstall, BeginRemove, BeginRemoveOld,
               MkdirFails, CopyFile, StatDest, Publish, SetAside, SwapIn,
               SwapInFails, Rollback, Abandon, OpenVictim, VictimAbsent, Unlink,
               Rmdir, RemovalFails, Crash
    <2>3. PICK d \in Dirs : Secure(d, n)
        BY <1>3, <2>2 DEF CopiesSecure
    <2>4. PICK e \in Dirs : Secure(e, n)'
        BY <1>3, <2>1, <2>3, SecureKept
    <2> QED
        BY <2>4 DEF Secure, HasCopy
<1> QED
    BY <1>1, <1>2, <1>3, PTL DEF Spec, NoPluginLost

-----------------------------------------------------------------------------
(* What success leaves behind.                                             *)

(* A temporary name belongs to a job. *)
TmpIsJobs == \A d \in Dirs : place[d] = "tmp" => d \in Jobs

(* A directory with a backup name was set aside by some job. *)
BackupsKnown ==
    \A d \in Dirs : place[d] = "old" => \E j \in Jobs : d \in saved[j]

(* A job sets aside one directory, and none before it has found the name   *)
(* occupied.                                                               *)
SavedOnce ==
    \A j \in Jobs :
        /\ pc[j] \in {"copy", "publish", "setAside"} => saved[j] = {}
        /\ \A d, e \in saved[j] : d = e

(* A job that deletes for the user has no directory and no backup; one     *)
(* that deletes a backup has no temporary directory any more.              *)
OwnsNothing ==
    \A j \in Jobs :
        /\ pc[j] = "remove" \/ via[j] # j => place[j] = "absent" /\ saved[j] = {}
        /\ pc[j] = "dropOld" => place[j] # "tmp"

(* No call deletes from a temporary directory but the cleanup of its own   *)
(* job, so what is renamed into place is whole, asked to be removed or not. *)
CopiesWhole ==
    \A j \in Jobs :
        /\ pc[j] \in {"publish", "setAside", "swapIn"} => Whole(j)
        /\ \A k \in Jobs : j \in handle[k] /\ place[j] = "tmp"
                              => k = j /\ pc[j] = "cleanup"

(* The states of a call that will not report success. *)
Doomed == {"rollback", "cleanup", "failed", "crashed"}

Untroubled == \A j \in Jobs : pc[j] \notin Doomed

(* A removal holds a directory of the plugin it removes; a deleted backup  *)
(* is installed again only by a rollback.                                  *)
HandleWhere ==
    \A j \in Jobs : \A d \in handle[j] :
        /\ pc[j] = "remove" => bundle[d].plugin = bundle[j].plugin
        /\ pc[j] = "dropOld" /\ place[d] = "dest" => ~Untroubled

(* As long as no call has failed, an installed directory that has lost     *)
(* files is held by the call that deletes it.                              *)
DamageHeld ==
    \A d \in Dirs : place[d] = "dest" /\ ~Whole(d) /\ Untroubled
                       => \E j \in Jobs : d \in handle[j]

(* A plugin is served from one directory. *)
SlotUnique ==
    \A d, e \in Dirs :
        place[d] = "dest" /\ place[e] = "dest" /\ bundle[d].plugin = bundle[e].plugin
            => d = e

SInv == /\ TmpIsJobs
        /\ BackupsKnown
        /\ SavedOnce
        /\ OwnsNothing
        /\ CopiesWhole
        /\ HandleWhere
        /\ DamageHeld
        /\ SlotUnique
        /\ SuccessLeavesNothing

-----------------------------------------------------------------------------
(* The inductive step of SInv, one lemma per action and one step per       *)
(* conjunct.                                                               *)

LEMMA BeginInstallSettles ==
    ASSUME IInv, SInv, TypeOK', NEW j \in Jobs, NEW n \in Plugins, NEW v \in Versions, BeginInstall(j, n, v)
    PROVE  SInv'
<1> USE DEF IInv, SInv, TypeOK, Running, Deleting, Ended, Bundles, Dirs, Goto, Whole, BeginInstall
<1>1. TmpIsJobs'
    BY DEF TmpIsJobs, IdleIsBlank
<1>2. BackupsKnown'
    BY DEF BackupsKnown, IdleIsBlank, BackupsOwned, SavedOnce
<1>3. SavedOnce'
    BY DEF SavedOnce, IdleIsBlank
<1>4. OwnsNothing'
    BY DEF OwnsNothing, IdleIsBlank, ReadyIsWhole, BackupsOwned
<1>5. CopiesWhole'
    BY DEF CopiesWhole, IdleIsBlank, ReadyIsWhole, BackupsOwned, HandleJustified
<1>6. HandleWhere'
    <2>1. ~Untroubled => ~Untroubled'
        BY DEF Untroubled, Doomed
    <2> SUFFICES ASSUME NEW k \in Jobs, NEW d \in handle'[k]
                 PROVE  /\ pc'[k] = "remove" => bundle'[d].plugin = bundle'[k].plugin
                        /\ pc'[k] = "dropOld" /\ place'[d] = "dest" => ~Untroubled'
        BY DEF HandleWhere
    <2>2. d \in handle[k] /\ d \in Dirs
        OBVIOUS
    <2> QED
        BY <2>1, <2>2 DEF HandleWhere, IdleIsBlank
<1>7. DamageHeld'
    BY DEF DamageHeld, IdleIsBlank, HandleJustified, CopiesWhole, HandleWhere, ReadyIsWhole, Untroubled, Doomed
<1>8. SlotUnique'
    BY DEF SlotUnique, IdleIsBlank
<1>9. SuccessLeavesNothing'
    BY DEF SuccessLeavesNothing, IdleIsBlank, BackupsOwned, ReadyIsWhole, SavedOnce, OwnsNothing
<1> QED
    BY <1>1, <1>2, <1>3, <1>4, <1>5, <1>6, <1>7, <1>8, <1>9

LEMMA BeginRemoveSettles ==
    ASSUME IInv, SInv, TypeOK', NEW j \in Jobs, NEW n \in Plugins, BeginRemove(j, n)
    PROVE  SInv'
<1> USE DEF IInv, SInv, TypeOK, Running, Deleting, Ended, Bundles, Dirs, Goto, Whole, BeginRemove
<1>1. TmpIsJobs'
    BY DEF TmpIsJobs, IdleIsBlank
<1>2. BackupsKnown'
    BY DEF BackupsKnown, IdleIsBlank, BackupsOwned, SavedOnce
<1>3. SavedOnce'
    BY DEF SavedOnce, IdleIsBlank
<1>4. OwnsNothing'
    BY DEF OwnsNothing, IdleIsBlank, ReadyIsWhole, BackupsOwned
<1>5. CopiesWhole'
    BY DEF CopiesWhole, IdleIsBlank, ReadyIsWhole, BackupsOwned, HandleJustified
<1>6. HandleWhere'
    <2>1. ~Untroubled => ~Untroubled'
        BY DEF Untroubled, Doomed
    <2> SUFFICES ASSUME NEW k \in Jobs, NEW d \in handle'[k]
                 PROVE  /\ pc'[k] = "remove" => bundle'[d].plugin = bundle'[k].plugin
                        /\ pc'[k] = "dropOld" /\ place'[d] = "dest" => ~Untroubled'
        BY DEF HandleWhere
    <2>2. d \in handle[k] /\ d \in Dirs
        OBVIOUS
    <2> QED
        BY <2>1, <2>2 DEF HandleWhere, IdleIsBlank
<1>7. DamageHeld'
    BY DEF DamageHeld, IdleIsBlank, HandleJustified, CopiesWhole, HandleWhere, ReadyIsWhole, Untroubled, Doomed
<1>8. SlotUnique'
    BY DEF SlotUnique, IdleIsBlank
<1>9. SuccessLeavesNothing'
    BY DEF SuccessLeavesNothing, IdleIsBlank, BackupsOwned, ReadyIsWhole, SavedOnce, OwnsNothing
<1> QED
    BY <1>1, <1>2, <1>3, <1>4, <1>5, <1>6, <1>7, <1>8, <1>9

LEMMA BeginRemoveOldSettles ==
    ASSUME IInv, SInv, TypeOK', NEW j \in Jobs, NEW m \in Jobs, BeginRemoveOld(j, m)
    PROVE  SInv'
<1> USE DEF IInv, SInv, TypeOK, Running, Deleting, Ended, Bundles, Dirs, Goto, Whole, BeginRemoveOld
<1>1. TmpIsJobs'
    BY DEF TmpIsJobs, IdleIsBlank
<1>2. BackupsKnown'
    BY DEF BackupsKnown, IdleIsBlank, BackupsOwned, SavedOnce
<1>3. SavedOnce'
    BY DEF SavedOnce, IdleIsBlank
<1>4. OwnsNothing'
    BY DEF OwnsNothing, IdleIsBlank, ReadyIsWhole, BackupsOwned
<1>5. CopiesWhole'
    BY DEF CopiesWhole, IdleIsBlank, ReadyIsWhole, BackupsOwned, HandleJustified
<1>6. HandleWhere'
    <2>1. ~Untroubled => ~Untroubled'
        BY DEF Untroubled, Doomed
    <2> SUFFICES ASSUME NEW k \in Jobs, NEW d \in handle'[k]
                 PROVE  /\ pc'[k] = "remove" => bundle'[d].plugin = bundle'[k].plugin
                        /\ pc'[k] = "dropOld" /\ place'[d] = "dest" => ~Untroubled'
        BY DEF HandleWhere
    <2>2. d \in handle[k] /\ d \in Dirs
        OBVIOUS
    <2> QED
        BY <2>1, <2>2 DEF HandleWhere, IdleIsBlank
<1>7. DamageHeld'
    BY DEF DamageHeld, IdleIsBlank, HandleJustified, CopiesWhole, HandleWhere, ReadyIsWhole, Untroubled, Doomed
<1>8. SlotUnique'
    BY DEF SlotUnique, IdleIsBlank
<1>9. SuccessLeavesNothing'
    BY DEF SuccessLeavesNothing, IdleIsBlank, BackupsOwned, ReadyIsWhole, SavedOnce, OwnsNothing
<1> QED
    BY <1>1, <1>2, <1>3, <1>4, <1>5, <1>6, <1>7, <1>8, <1>9

LEMMA CopyFileSettles ==
    ASSUME IInv, SInv, TypeOK', NEW j \in Jobs, NEW f \in Files, CopyFile(j, f)
    PROVE  SInv'
<1> USE DEF IInv, SInv, TypeOK, Running, Deleting, Ended, Bundles, Dirs, Goto, Whole, CopyFile
<1>1. TmpIsJobs'
    BY DEF TmpIsJobs, IdleIsBlank
<1>2. BackupsKnown'
    BY DEF BackupsKnown, IdleIsBlank, BackupsOwned, SavedOnce
<1>3. SavedOnce'
    BY DEF SavedOnce, IdleIsBlank
<1>4. OwnsNothing'
    BY DEF OwnsNothing, IdleIsBlank, ReadyIsWhole, BackupsOwned
<1>5. CopiesWhole'
    BY DEF CopiesWhole, IdleIsBlank, ReadyIsWhole, BackupsOwned, HandleJustified
<1>6. HandleWhere'
    BY DEF HandleWhere, IdleIsBlank, HandleJustified, CopiesWhole, ReadyIsWhole, Untroubled, Doomed
<1>7. DamageHeld'
    BY DEF DamageHeld, IdleIsBlank, HandleJustified, CopiesWhole, HandleWhere, ReadyIsWhole, Untroubled, Doomed
<1>8. SlotUnique'
    BY DEF SlotUnique, IdleIsBlank
<1>9. SuccessLeavesNothing'
    BY DEF SuccessLeavesNothing, IdleIsBlank, BackupsOwned, ReadyIsWhole, SavedOnce, OwnsNothing
<1> QED
    BY <1>1, <1>2, <1>3, <1>4, <1>5, <1>6, <1>7, <1>8, <1>9

LEMMA UnlinkSettles ==
    ASSUME IInv, SInv, TypeOK', NEW j \in Jobs, NEW f \in Files, Unlink(j, f)
    PROVE  SInv'
<1> USE DEF IInv, SInv, TypeOK, Running, Deleting, Ended, Bundles, Dirs, Goto, Whole, Unlink
<1>1. TmpIsJobs'
    BY DEF TmpIsJobs, IdleIsBlank
<1>2. BackupsKnown'
    BY DEF BackupsKnown, IdleIsBlank, BackupsOwned, SavedOnce
<1>3. SavedOnce'
    BY DEF SavedOnce, IdleIsBlank
<1>4. OwnsNothing'
    BY DEF OwnsNothing, IdleIsBlank, ReadyIsWhole, BackupsOwned
<1>5. CopiesWhole'
    BY DEF CopiesWhole, IdleIsBlank, ReadyIsWhole, BackupsOwned, HandleJustified
<1>6. HandleWhere'
    BY DEF HandleWhere, IdleIsBlank, HandleJustified, CopiesWhole, ReadyIsWhole, Untroubled, Doomed
<1>7. DamageHeld'
    <2>1. Untroubled' => Untroubled
        BY DEF Untroubled
    <2> SUFFICES ASSUME NEW e \in Dirs, place'[e] = "dest", ~(Whole(e))', Untroubled'
                 PROVE  \E k \in Jobs : e \in handle'[k]
        BY DEF DamageHeld
    <2>2. e \in handle[j] \/ ~Whole(e)
        OBVIOUS
    <2>3. \E k \in Jobs : e \in handle[k]
        BY <2>1, <2>2 DEF DamageHeld
    <2> QED
        BY <2>3
<1>8. SlotUnique'
    BY DEF SlotUnique, IdleIsBlank
<1>9. SuccessLeavesNothing'
    BY DEF SuccessLeavesNothing, IdleIsBlank, BackupsOwned, ReadyIsWhole, SavedOnce, OwnsNothing
<1> QED
    BY <1>1, <1>2, <1>3, <1>4, <1>5, <1>6, <1>7, <1>8, <1>9

LEMMA MkdirFailsSettles ==
    ASSUME IInv, SInv, TypeOK', NEW j \in Jobs, MkdirFails(j)
    PROVE  SInv'
<1> USE DEF IInv, SInv, TypeOK, Running, Deleting, Ended, Bundles, Dirs, Goto, Whole, MkdirFails
<1>1. TmpIsJobs'
    BY DEF TmpIsJobs, IdleIsBlank
<1>2. BackupsKnown'
    BY DEF BackupsKnown, IdleIsBlank, BackupsOwned, SavedOnce
<1>3. SavedOnce'
    BY DEF SavedOnce, IdleIsBlank
<1>4. OwnsNothing'
    BY DEF OwnsNothing, IdleIsBlank, ReadyIsWhole, BackupsOwned
<1>5. CopiesWhole'
    BY DEF CopiesWhole, IdleIsBlank, ReadyIsWhole, BackupsOwned, HandleJustified
<1>6. HandleWhere'
    BY DEF HandleWhere, IdleIsBlank, HandleJustified, CopiesWhole, ReadyIsWhole, Untroubled, Doomed
<1>7. DamageHeld'
    BY DEF DamageHeld, IdleIsBlank, HandleJustified, CopiesWhole, HandleWhere, ReadyIsWhole, Untroubled, Doomed
<1>8. SlotUnique'
    BY DEF SlotUnique, IdleIsBlank
<1>9. SuccessLeavesNothing'
    BY DEF SuccessLeavesNothing, IdleIsBlank, BackupsOwned, ReadyIsWhole, SavedOnce, OwnsNothing
<1> QED
    BY <1>1, <1>2, <1>3, <1>4, <1>5, <1>6, <1>7, <1>8, <1>9

LEMMA StatDestSettles ==
    ASSUME IInv, SInv, TypeOK', NEW j \in Jobs, StatDest(j)
    PROVE  SInv'
<1> USE DEF IInv, SInv, TypeOK, Running, Deleting, Ended, Bundles, Dirs, Goto, Whole, StatDest, Copied
<1>1. TmpIsJobs'
    BY DEF TmpIsJobs, IdleIsBlank
<1>2. BackupsKnown'
    BY DEF BackupsKnown, IdleIsBlank, BackupsOwned, SavedOnce
<1>3. SavedOnce'
    BY DEF SavedOnce, IdleIsBlank
<1>4. OwnsNothing'
    BY DEF OwnsNothing, IdleIsBlank, ReadyIsWhole, BackupsOwned
<1>5. CopiesWhole'
    BY DEF CopiesWhole, IdleIsBlank, ReadyIsWhole, BackupsOwned, HandleJustified
<1>6. HandleWhere'
    <2>1. ~Untroubled => ~Untroubled'
        BY DEF Untroubled, Doomed
    <2> SUFFICES ASSUME NEW k \in Jobs, NEW d \in handle'[k]
                 PROVE  /\ pc'[k] = "remove" => bundle'[d].plugin = bundle'[k].plugin
                        /\ pc'[k] = "dropOld" /\ place'[d] = "dest" => ~Untroubled'
        BY DEF HandleWhere
    <2>2. d \in handle[k] /\ d \in Dirs
        OBVIOUS
    <2> QED
        BY <2>1, <2>2 DEF HandleWhere
<1>7. DamageHeld'
    BY DEF DamageHeld, IdleIsBlank, HandleJustified, CopiesWhole, HandleWhere, ReadyIsWhole, Untroubled, Doomed
<1>8. SlotUnique'
    BY DEF SlotUnique, IdleIsBlank
<1>9. SuccessLeavesNothing'
    BY DEF SuccessLeavesNothing, IdleIsBlank, BackupsOwned, ReadyIsWhole, SavedOnce, OwnsNothing
<1> QED
    BY <1>1, <1>2, <1>3, <1>4, <1>5, <1>6, <1>7, <1>8, <1>9

LEMMA PublishSettles ==
    ASSUME IInv, SInv, TypeOK', NEW j \in Jobs, Publish(j)
    PROVE  SInv'
<1> USE DEF IInv, SInv, TypeOK, Running, Deleting, Ended, Bundles, Dirs, Goto, Whole, Publish, Occupied, InstalledAt
<1>1. TmpIsJobs'
    BY DEF TmpIsJobs, IdleIsBlank
<1>2. BackupsKnown'
    BY DEF BackupsKnown, IdleIsBlank, BackupsOwned, SavedOnce
<1>3. SavedOnce'
    BY DEF SavedOnce, IdleIsBlank
<1>4. OwnsNothing'
    BY DEF OwnsNothing, IdleIsBlank, ReadyIsWhole, BackupsOwned
<1>5. CopiesWhole'
    BY DEF CopiesWhole, IdleIsBlank, ReadyIsWhole, BackupsOwned, HandleJustified
<1>6. HandleWhere'
    <2>1. ~Untroubled => ~Untroubled'
        BY DEF Untroubled, Doomed
    <2> SUFFICES ASSUME NEW k \in Jobs, NEW d \in handle'[k]
                 PROVE  /\ pc'[k] = "remove" => bundle'[d].plugin = bundle'[k].plugin
                        /\ pc'[k] = "dropOld" /\ place'[d] = "dest" => ~Untroubled'
        BY DEF HandleWhere
    <2>2. d \in handle[k] /\ d \in Dirs
        OBVIOUS
    <2>3. d # j
        BY <2>2 DEF CopiesWhole, ReadyIsWhole
    <2> QED
        BY <2>1, <2>2, <2>3 DEF HandleWhere
<1>7. DamageHeld'
    BY DEF DamageHeld, IdleIsBlank, HandleJustified, CopiesWhole, HandleWhere, ReadyIsWhole, Untroubled, Doomed
<1>8. SlotUnique'
    BY DEF SlotUnique, IdleIsBlank
<1>9. SuccessLeavesNothing'
    BY DEF SuccessLeavesNothing, IdleIsBlank, BackupsOwned, ReadyIsWhole, SavedOnce, OwnsNothing
<1> QED
    BY <1>1, <1>2, <1>3, <1>4, <1>5, <1>6, <1>7, <1>8, <1>9

LEMMA SetAsideSettles ==
    ASSUME IInv, SInv, TypeOK', NEW j \in Jobs, SetAside(j)
    PROVE  SInv'
<1> USE DEF IInv, SInv, TypeOK, Running, Deleting, Ended, Bundles, Dirs, Goto, Whole, SetAside, InstalledAt
<1>1. TmpIsJobs'
    BY DEF TmpIsJobs, IdleIsBlank
<1>2. BackupsKnown'
    BY DEF BackupsKnown, IdleIsBlank, BackupsOwned, SavedOnce
<1>3. SavedOnce'
    BY DEF SavedOnce, IdleIsBlank
<1>4. OwnsNothing'
    BY DEF OwnsNothing, IdleIsBlank, ReadyIsWhole, BackupsOwned
<1>5. CopiesWhole'
    BY DEF CopiesWhole, IdleIsBlank, ReadyIsWhole, BackupsOwned, HandleJustified
<1>6. HandleWhere'
    <2>1. ~Untroubled => ~Untroubled'
        BY DEF Untroubled, Doomed
    <2> SUFFICES ASSUME NEW k \in Jobs, NEW d \in handle'[k]
                 PROVE  /\ pc'[k] = "remove" => bundle'[d].plugin = bundle'[k].plugin
                        /\ pc'[k] = "dropOld" /\ place'[d] = "dest" => ~Untroubled'
        BY DEF HandleWhere
    <2>2. d \in handle[k] /\ d \in Dirs
        OBVIOUS
    <2> QED
        BY <2>1, <2>2 DEF HandleWhere
<1>7. DamageHeld'
    <2>1. ~Untroubled => ~Untroubled'
        BY DEF Untroubled, Doomed
    <2>2. \A d \in Dirs : place'[d] = "dest" => place[d] = "dest"
        OBVIOUS
    <2> QED
        BY <2>1, <2>2 DEF DamageHeld
<1>8. SlotUnique'
    BY DEF SlotUnique, IdleIsBlank
<1>9. SuccessLeavesNothing'
    BY DEF SuccessLeavesNothing, IdleIsBlank, BackupsOwned, ReadyIsWhole, SavedOnce, OwnsNothing
<1> QED
    BY <1>1, <1>2, <1>3, <1>4, <1>5, <1>6, <1>7, <1>8, <1>9

LEMMA SwapInSettles ==
    ASSUME IInv, SInv, TypeOK', NEW j \in Jobs, SwapIn(j)
    PROVE  SInv'
<1> USE DEF IInv, SInv, TypeOK, Running, Deleting, Ended, Bundles, Dirs, Goto, Whole, SwapIn, Occupied, InstalledAt
<1>1. TmpIsJobs'
    BY DEF TmpIsJobs, IdleIsBlank
<1>2. BackupsKnown'
    BY DEF BackupsKnown, IdleIsBlank, BackupsOwned, SavedOnce
<1>3. SavedOnce'
    BY DEF SavedOnce, IdleIsBlank
<1>4. OwnsNothing'
    <2>1. via[j] = j
        BY DEF OwnsNothing, ReadyIsWhole
    <2> QED
        BY <2>1 DEF OwnsNothing
<1>5. CopiesWhole'
    BY DEF CopiesWhole, IdleIsBlank, ReadyIsWhole, BackupsOwned, HandleJustified
<1>6. HandleWhere'
    <2>1. ~Untroubled => ~Untroubled'
        BY DEF Untroubled, Doomed
    <2> SUFFICES ASSUME NEW k \in Jobs, NEW d \in handle'[k]
                 PROVE  /\ pc'[k] = "remove" => bundle'[d].plugin = bundle'[k].plugin
                        /\ pc'[k] = "dropOld" /\ place'[d] = "dest" => ~Untroubled'
        BY DEF HandleWhere
    <2>2. d \in handle[k] /\ d \in Dirs
        OBVIOUS
    <2>3. d # j
        BY <2>2 DEF CopiesWhole, ReadyIsWhole
    <2> QED
        BY <2>1, <2>2, <2>3 DEF HandleWhere, HandleJustified
<1>7. DamageHeld'
    BY DEF DamageHeld, IdleIsBlank, HandleJustified, CopiesWhole, HandleWhere, ReadyIsWhole, Untroubled, Doomed
<1>8. SlotUnique'
    BY DEF SlotUnique, IdleIsBlank
<1>9. SuccessLeavesNothing'
    BY DEF SuccessLeavesNothing, IdleIsBlank, BackupsOwned, ReadyIsWhole, SavedOnce, OwnsNothing
<1> QED
    BY <1>1, <1>2, <1>3, <1>4, <1>5, <1>6, <1>7, <1>8, <1>9

LEMMA SwapInFailsSettles ==
    ASSUME IInv, SInv, TypeOK', NEW j \in Jobs, SwapInFails(j)
    PROVE  SInv'
<1> USE DEF IInv, SInv, TypeOK, Running, Deleting, Ended, Bundles, Dirs, Goto, Whole, SwapInFails
<1>1. TmpIsJobs'
    BY DEF TmpIsJobs, IdleIsBlank
<1>2. BackupsKnown'
    BY DEF BackupsKnown, IdleIsBlank, BackupsOwned, SavedOnce
<1>3. SavedOnce'
    BY DEF SavedOnce, IdleIsBlank
<1>4. OwnsNothing'
    BY DEF OwnsNothing, IdleIsBlank, ReadyIsWhole, BackupsOwned
<1>5. CopiesWhole'
    BY DEF CopiesWhole, IdleIsBlank, ReadyIsWhole, BackupsOwned, HandleJustified
<1>6. HandleWhere'
    BY DEF HandleWhere, IdleIsBlank, HandleJustified, CopiesWhole, ReadyIsWhole, Untroubled, Doomed
<1>7. DamageHeld'
    BY DEF DamageHeld, IdleIsBlank, HandleJustified, CopiesWhole, HandleWhere, ReadyIsWhole, Untroubled, Doomed
<1>8. SlotUnique'
    BY DEF SlotUnique, IdleIsBlank
<1>9. SuccessLeavesNothing'
    BY DEF SuccessLeavesNothing, IdleIsBlank, BackupsOwned, ReadyIsWhole, SavedOnce, OwnsNothing
<1> QED
    BY <1>1, <1>2, <1>3, <1>4, <1>5, <1>6, <1>7, <1>8, <1>9

LEMMA RollbackSettles ==
    ASSUME IInv, SInv, TypeOK', NEW j \in Jobs, Rollback(j)
    PROVE  SInv'
<1> USE DEF IInv, SInv, TypeOK, Running, Deleting, Ended, Bundles, Dirs, Goto, Whole, Rollback, Occupied, InstalledAt
<1>1. TmpIsJobs'
    BY DEF TmpIsJobs, IdleIsBlank
<1>2. BackupsKnown'
    BY DEF BackupsKnown, IdleIsBlank, BackupsOwned, SavedOnce
<1>3. SavedOnce'
    BY DEF SavedOnce, IdleIsBlank
<1>4. OwnsNothing'
    BY DEF OwnsNothing, IdleIsBlank, ReadyIsWhole, BackupsOwned
<1>5. CopiesWhole'
    BY DEF CopiesWhole, IdleIsBlank, ReadyIsWhole, BackupsOwned, HandleJustified
<1>6. HandleWhere'
    BY DEF HandleWhere, IdleIsBlank, HandleJustified, CopiesWhole, ReadyIsWhole, Untroubled, Doomed
<1>7. DamageHeld'
    BY DEF DamageHeld, IdleIsBlank, HandleJustified, CopiesWhole, HandleWhere, ReadyIsWhole, Untroubled, Doomed
<1>8. SlotUnique'
    <2>1. PICK d \in saved[j] : place' = [place EXCEPT ![d] = "dest"]
        OBVIOUS
    <2>2. \A e \in Dirs : place[e] = "dest" => bundle[e].plugin # bundle[d].plugin
        BY DEF BackupsOwned
    <2> QED
        BY <2>1, <2>2 DEF SlotUnique
<1>9. SuccessLeavesNothing'
    BY DEF SuccessLeavesNothing, IdleIsBlank, BackupsOwned, ReadyIsWhole, SavedOnce, OwnsNothing
<1> QED
    BY <1>1, <1>2, <1>3, <1>4, <1>5, <1>6, <1>7, <1>8, <1>9

LEMMA AbandonSettles ==
    ASSUME IInv, SInv, TypeOK', NEW j \in Jobs, Abandon(j)
    PROVE  SInv'
<1> USE DEF IInv, SInv, TypeOK, Running, Deleting, Ended, Bundles, Dirs, Goto, Whole, Abandon
<1>1. TmpIsJobs'
    BY DEF TmpIsJobs, IdleIsBlank
<1>2. BackupsKnown'
    BY DEF BackupsKnown, IdleIsBlank, BackupsOwned, SavedOnce
<1>3. SavedOnce'
    BY DEF SavedOnce, IdleIsBlank
<1>4. OwnsNothing'
    BY DEF OwnsNothing, IdleIsBlank, ReadyIsWhole, BackupsOwned
<1>5. CopiesWhole'
    BY DEF CopiesWhole, IdleIsBlank, ReadyIsWhole, BackupsOwned, HandleJustified
<1>6. HandleWhere'
    BY DEF HandleWhere, IdleIsBlank, HandleJustified, CopiesWhole, ReadyIsWhole, Untroubled, Doomed
<1>7. DamageHeld'
    BY DEF DamageHeld, IdleIsBlank, HandleJustified, CopiesWhole, HandleWhere, ReadyIsWhole, Untroubled, Doomed
<1>8. SlotUnique'
    BY DEF SlotUnique, IdleIsBlank
<1>9. SuccessLeavesNothing'
    BY DEF SuccessLeavesNothing, IdleIsBlank, BackupsOwned, ReadyIsWhole, SavedOnce, OwnsNothing
<1> QED
    BY <1>1, <1>2, <1>3, <1>4, <1>5, <1>6, <1>7, <1>8, <1>9

LEMMA OpenVictimSettles ==
    ASSUME IInv, SInv, TypeOK', NEW j \in Jobs, OpenVictim(j)
    PROVE  SInv'
<1> USE DEF IInv, SInv, TypeOK, Running, Deleting, Ended, Bundles, Dirs, Goto, Whole, OpenVictim, Victim, InstalledAt
<1>1. TmpIsJobs'
    BY DEF TmpIsJobs, IdleIsBlank
<1>2. BackupsKnown'
    BY DEF BackupsKnown, IdleIsBlank, BackupsOwned, SavedOnce
<1>3. SavedOnce'
    BY DEF SavedOnce, IdleIsBlank
<1>4. OwnsNothing'
    BY DEF OwnsNothing, IdleIsBlank, ReadyIsWhole, BackupsOwned
<1>5. CopiesWhole'
    BY DEF CopiesWhole, IdleIsBlank, ReadyIsWhole, BackupsOwned, HandleJustified
<1>6. HandleWhere'
    BY DEF HandleWhere, IdleIsBlank, HandleJustified, CopiesWhole, ReadyIsWhole, Untroubled, Doomed
<1>7. DamageHeld'
    BY DEF DamageHeld, IdleIsBlank, HandleJustified, CopiesWhole, HandleWhere, ReadyIsWhole, Untroubled, Doomed
<1>8. SlotUnique'
    BY DEF SlotUnique, IdleIsBlank
<1>9. SuccessLeavesNothing'
    BY DEF SuccessLeavesNothing, IdleIsBlank, BackupsOwned, ReadyIsWhole, SavedOnce, OwnsNothing
<1> QED
    BY <1>1, <1>2, <1>3, <1>4, <1>5, <1>6, <1>7, <1>8, <1>9

LEMMA VictimAbsentSettles ==
    ASSUME IInv, SInv, TypeOK', NEW j \in Jobs, VictimAbsent(j)
    PROVE  SInv'
<1> USE DEF IInv, SInv, TypeOK, Running, Deleting, Ended, Bundles, Dirs, Goto, Whole, VictimAbsent, Victim, RemovalDone, InstalledAt
<1>1. TmpIsJobs'
    BY DEF TmpIsJobs, IdleIsBlank
<1>2. BackupsKnown'
    BY DEF BackupsKnown, IdleIsBlank, BackupsOwned, SavedOnce
<1>3. SavedOnce'
    BY DEF SavedOnce, IdleIsBlank
<1>4. OwnsNothing'
    BY DEF OwnsNothing, IdleIsBlank, ReadyIsWhole, BackupsOwned
<1>5. CopiesWhole'
    BY DEF CopiesWhole, IdleIsBlank, ReadyIsWhole, BackupsOwned, HandleJustified
<1>6. HandleWhere'
    <2>1. ~Untroubled => ~Untroubled'
        BY DEF Untroubled, Doomed
    <2> SUFFICES ASSUME NEW k \in Jobs, NEW d \in handle'[k]
                 PROVE  /\ pc'[k] = "remove" => bundle'[d].plugin = bundle'[k].plugin
                        /\ pc'[k] = "dropOld" /\ place'[d] = "dest" => ~Untroubled'
        BY DEF HandleWhere
    <2>2. d \in handle[k] /\ d \in Dirs
        OBVIOUS
    <2> QED
        BY <2>1, <2>2 DEF HandleWhere
<1>7. DamageHeld'
    BY DEF DamageHeld, IdleIsBlank, HandleJustified, CopiesWhole, HandleWhere, ReadyIsWhole, Untroubled, Doomed
<1>8. SlotUnique'
    BY DEF SlotUnique, IdleIsBlank
<1>9. SuccessLeavesNothing'
    BY DEF SuccessLeavesNothing, IdleIsBlank, BackupsOwned, ReadyIsWhole, SavedOnce, OwnsNothing
<1> QED
    BY <1>1, <1>2, <1>3, <1>4, <1>5, <1>6, <1>7, <1>8, <1>9

LEMMA RmdirSettles ==
    ASSUME IInv, SInv, TypeOK', NEW j \in Jobs, Rmdir(j)
    PROVE  SInv'
<1> USE DEF IInv, SInv, TypeOK, Running, Deleting, Ended, Bundles, Dirs, Goto, Whole, Rmdir, Victim, RemovalDone, InstalledAt
<1>1. TmpIsJobs'
    BY DEF TmpIsJobs, IdleIsBlank
<1>2. BackupsKnown'
    BY DEF BackupsKnown, IdleIsBlank, BackupsOwned, SavedOnce
<1>3. SavedOnce'
    BY DEF SavedOnce, IdleIsBlank
<1>4. OwnsNothing'
    BY DEF OwnsNothing, IdleIsBlank, ReadyIsWhole, BackupsOwned
<1>5. CopiesWhole'
    BY DEF CopiesWhole, IdleIsBlank, ReadyIsWhole, BackupsOwned, HandleJustified
<1>6. HandleWhere'
    BY DEF HandleWhere, IdleIsBlank, HandleJustified, CopiesWhole, ReadyIsWhole, Untroubled, Doomed
<1>7. DamageHeld'
    <2>1. ~Untroubled => ~Untroubled'
        BY DEF Untroubled, Doomed
    <2> SUFFICES ASSUME NEW d \in Dirs, place'[d] = "dest", ~Whole(d), Untroubled
                 PROVE  \E k \in Jobs : d \in handle'[k]
        BY <2>1 DEF DamageHeld
    <2>2. place[d] = "dest" /\ d \notin Victim(j)
        OBVIOUS
    <2>3. PICK k \in Jobs : d \in handle[k]
        BY <2>2 DEF DamageHeld
    <2>4. k # j
        BY <2>2, <2>3 DEF HandleWhere, Untroubled, Doomed
    <2> QED
        BY <2>3, <2>4
<1>8. SlotUnique'
    BY DEF SlotUnique, IdleIsBlank
<1>9. SuccessLeavesNothing'
    BY DEF SuccessLeavesNothing, IdleIsBlank, BackupsOwned, ReadyIsWhole, SavedOnce, OwnsNothing
<1> QED
    BY <1>1, <1>2, <1>3, <1>4, <1>5, <1>6, <1>7, <1>8, <1>9

LEMMA RemovalFailsSettles ==
    ASSUME IInv, SInv, TypeOK', NEW j \in Jobs, RemovalFails(j)
    PROVE  SInv'
<1> USE DEF IInv, SInv, TypeOK, Running, Deleting, Ended, Bundles, Dirs, Goto, Whole, RemovalFails
<1>1. TmpIsJobs'
    BY DEF TmpIsJobs, IdleIsBlank
<1>2. BackupsKnown'
    BY DEF BackupsKnown, IdleIsBlank, BackupsOwned, SavedOnce
<1>3. SavedOnce'
    BY DEF SavedOnce, IdleIsBlank
<1>4. OwnsNothing'
    BY DEF OwnsNothing, IdleIsBlank, ReadyIsWhole, BackupsOwned
<1>5. CopiesWhole'
    BY DEF CopiesWhole, IdleIsBlank, ReadyIsWhole, BackupsOwned, HandleJustified
<1>6. HandleWhere'
    BY DEF HandleWhere, IdleIsBlank, HandleJustified, CopiesWhole, ReadyIsWhole, Untroubled, Doomed
<1>7. DamageHeld'
    BY DEF DamageHeld, IdleIsBlank, HandleJustified, CopiesWhole, HandleWhere, ReadyIsWhole, Untroubled, Doomed
<1>8. SlotUnique'
    BY DEF SlotUnique, IdleIsBlank
<1>9. SuccessLeavesNothing'
    BY DEF SuccessLeavesNothing, IdleIsBlank, BackupsOwned, ReadyIsWhole, SavedOnce, OwnsNothing
<1> QED
    BY <1>1, <1>2, <1>3, <1>4, <1>5, <1>6, <1>7, <1>8, <1>9

LEMMA CrashSettles ==
    ASSUME IInv, SInv, TypeOK', NEW j \in Jobs, Crash(j)
    PROVE  SInv'
<1> USE DEF IInv, SInv, TypeOK, Running, Deleting, Ended, Bundles, Dirs, Goto, Whole, Crash
<1>1. TmpIsJobs'
    BY DEF TmpIsJobs, IdleIsBlank
<1>2. BackupsKnown'
    BY DEF BackupsKnown, IdleIsBlank, BackupsOwned, SavedOnce
<1>3. SavedOnce'
    BY DEF SavedOnce, IdleIsBlank
<1>4. OwnsNothing'
    BY DEF OwnsNothing, IdleIsBlank, ReadyIsWhole, BackupsOwned
<1>5. CopiesWhole'
    BY DEF CopiesWhole, IdleIsBlank, ReadyIsWhole, BackupsOwned, HandleJustified
<1>6. HandleWhere'
    BY DEF HandleWhere, IdleIsBlank, HandleJustified, CopiesWhole, ReadyIsWhole, Untroubled, Doomed
<1>7. DamageHeld'
    BY DEF DamageHeld, IdleIsBlank, HandleJustified, CopiesWhole, HandleWhere, ReadyIsWhole, Untroubled, Doomed
<1>8. SlotUnique'
    BY DEF SlotUnique, IdleIsBlank
<1>9. SuccessLeavesNothing'
    BY DEF SuccessLeavesNothing, IdleIsBlank, BackupsOwned, ReadyIsWhole, SavedOnce, OwnsNothing
<1> QED
    BY <1>1, <1>2, <1>3, <1>4, <1>5, <1>6, <1>7, <1>8, <1>9

-----------------------------------------------------------------------------
(* SInv is inductive relative to IInv.                                     *)
LEMMA SInvInit == Init => SInv
<1> SUFFICES ASSUME Init PROVE SInv
    OBVIOUS
<1> USE DEF Init, Dirs
<1>1. TmpIsJobs /\ BackupsKnown /\ SavedOnce /\ OwnsNothing
    BY DEF TmpIsJobs, BackupsKnown, SavedOnce, OwnsNothing
<1>2. CopiesWhole /\ HandleWhere
    BY DEF CopiesWhole, HandleWhere
<1>3. \A d \in Dirs : place[d] = "dest" => d \in Plugins
    OBVIOUS
<1>4. DamageHeld
    BY <1>3 DEF DamageHeld, Whole
<1>5. \A n \in Plugins : bundle[n].plugin = n
    OBVIOUS
<1>6. SlotUnique
    BY <1>3, <1>5 DEF SlotUnique
<1>7. SuccessLeavesNothing
    BY DEF SuccessLeavesNothing
<1> QED
    BY <1>1, <1>2, <1>4, <1>6, <1>7 DEF SInv

LEMMA SInvStep == IInv /\ SInv /\ [Next]_vars => SInv'
<1> SUFFICES ASSUME IInv, SInv, [Next]_vars
             PROVE  SInv'
    OBVIOUS
<1>1. TypeOK'
    BY TypeStep DEF IInv
<1>2. CASE UNCHANGED vars
    BY <1>2 DEF vars, SInv, TmpIsJobs, BackupsKnown, SavedOnce, OwnsNothing,
                CopiesWhole, HandleWhere, DamageHeld, SlotUnique,
                SuccessLeavesNothing, Untroubled, Whole
<1>3. CASE Next
    <2>1. PICK j \in Jobs :
              \/ \E n \in Plugins, v \in Versions : BeginInstall(j, n, v)
              \/ \E n \in Plugins : BeginRemove(j, n)
              \/ \E m \in Jobs : BeginRemoveOld(j, m)
              \/ \E f \in Files : CopyFile(j, f)
              \/ \E f \in Files : Unlink(j, f)
              \/ MkdirFails(j)
              \/ StatDest(j)
              \/ Publish(j)
              \/ SetAside(j)
              \/ SwapIn(j)
              \/ SwapInFails(j)
              \/ Rollback(j)
              \/ Abandon(j)
              \/ OpenVictim(j)
              \/ VictimAbsent(j)
              \/ Rmdir(j)
              \/ RemovalFails(j)
              \/ Crash(j)
        BY <1>3, NextCases
    <2>2. ASSUME NEW n \in Plugins, NEW v \in Versions, BeginInstall(j, n, v) PROVE SInv'
        BY <1>1, <2>2, BeginInstallSettles
    <2>3. ASSUME NEW n \in Plugins, BeginRemove(j, n) PROVE SInv'
        BY <1>1, <2>3, BeginRemoveSettles
    <2>4. ASSUME NEW m \in Jobs, BeginRemoveOld(j, m) PROVE SInv'
        BY <1>1, <2>4, BeginRemoveOldSettles
    <2>5. ASSUME NEW f \in Files, CopyFile(j, f) PROVE SInv'
        BY <1>1, <2>5, CopyFileSettles
    <2>6. ASSUME NEW f \in Files, Unlink(j, f) PROVE SInv'
        BY <1>1, <2>6, UnlinkSettles
    <2>7. CASE MkdirFails(j)
        BY <1>1, <2>7, MkdirFailsSettles
    <2>8. CASE StatDest(j)
        BY <1>1, <2>8, StatDestSettles
    <2>9. CASE Publish(j)
        BY <1>1, <2>9, PublishSettles
    <2>10. CASE SetAside(j)
        BY <1>1, <2>10, SetAsideSettles
    <2>11. CASE SwapIn(j)
        BY <1>1, <2>11, SwapInSettles
    <2>12. CASE SwapInFails(j)
        BY <1>1, <2>12, SwapInFailsSettles
    <2>13. CASE Rollback(j)
        BY <1>1, <2>13, RollbackSettles
    <2>14. CASE Abandon(j)
        BY <1>1, <2>14, AbandonSettles
    <2>15. CASE OpenVictim(j)
        BY <1>1, <2>15, OpenVictimSettles
    <2>16. CASE VictimAbsent(j)
        BY <1>1, <2>16, VictimAbsentSettles
    <2>17. CASE Rmdir(j)
        BY <1>1, <2>17, RmdirSettles
    <2>18. CASE RemovalFails(j)
        BY <1>1, <2>18, RemovalFailsSettles
    <2>19. CASE Crash(j)
        BY <1>1, <2>19, CrashSettles
    <2>99. QED
        BY <2>1, <2>2, <2>3, <2>4, <2>5, <2>6, <2>7, <2>8, <2>9, <2>10,
           <2>11, <2>12, <2>13, <2>14, <2>15, <2>16, <2>17, <2>18, <2>19
<1>4. QED
    BY <1>2, <1>3

(* Both invariants hold in every behaviour. *)
THEOREM SuccessInvariant == Spec => [](IInv /\ SInv)
<1>1. Init => IInv /\ SInv
    BY IInvInit, SInvInit
<1>2. IInv /\ SInv /\ [Next]_vars => IInv' /\ SInv'
    BY IInvStep, SInvStep
<1> QED
    BY <1>1, <1>2, PTL DEF Spec

(* replaceDir and removePlugins: for any number of concurrent calls, a     *)
(* call that returns no error has left neither its temporary directory     *)
(* nor its backup, whatever other calls failed on or deleted.              *)
THEOREM SuccessIsClean == Spec => []SuccessLeavesNothing
<1>1. SInv => SuccessLeavesNothing
    BY DEF SInv
<1> QED
    BY <1>1, SuccessInvariant, PTL

(* Without a failed call, a directory that is left is installed and whole. *)
LEMMA RootIsClean == IInv /\ SInv => CleanRoot
<1> SUFFICES ASSUME IInv, SInv, \A j \in Jobs : pc[j] \in {"idle", "changed"},
                    NEW d \in Dirs, place[d] # "absent"
             PROVE  place[d] = "dest" /\ Whole(d)
    BY DEF CleanRoot
<1> USE DEF IInv, SInv
<1>1. place[d] # "tmp"
    BY DEF TmpIsJobs, IdleIsBlank, SuccessLeavesNothing
<1>2. place[d] # "old"
    BY DEF BackupsKnown, IdleIsBlank, SuccessLeavesNothing
<1>3. place[d] = "dest"
    BY <1>1, <1>2 DEF TypeOK, Places
<1>4. \A j \in Jobs : d \notin handle[j]
    BY DEF HandleJustified, Deleting
<1>5. Whole(d)
    BY <1>3, <1>4 DEF DamageHeld, Untroubled, Doomed
<1> QED
    BY <1>3, <1>5

(* When every call that started has returned no error, whole installed     *)
(* bundles are all that is left: pluginDirs lists nothing else.            *)
THEOREM RootComesClean == Spec => []CleanRoot
    BY RootIsClean, SuccessInvariant, PTL

-----------------------------------------------------------------------------
(* PluginStore implements PluginSlots: every system call of every job is a *)
(* step on the slots, or leaves them as they are.                          *)

(* What the mapping relies on. *)
RInv == IInv /\ SInv /\ CopiesSecure

(* A directory that counts for the slots as it did before the step. *)
Counts(d) ==
    /\ place'[d] = "dest" <=> place[d] = "dest"
    /\ (place[d] = "old" /\ Whole(d))' <=> (place[d] = "old" /\ Whole(d))
    /\ place[d] \in {"dest", "old"} => bundle'[d] = bundle[d]

-----------------------------------------------------------------------------
(* What the mapping yields.                                                *)

(* The slot of a plugin is the version of the directory it is served from. *)
ServedIsSlot ==
    \A d \in Dirs : place[d] = "dest" /\ bundle[d].plugin \notin targeted
                       => SlotOf(bundle[d].plugin) = bundle[d].version

LEMMA SlotOfServed == TypeOK /\ SlotUnique => ServedIsSlot
<1> SUFFICES ASSUME TypeOK, SlotUnique, NEW d \in Dirs, place[d] = "dest",
                    bundle[d].plugin \notin targeted
             PROVE  SlotOf(bundle[d].plugin) = bundle[d].version
    BY DEF ServedIsSlot
<1>1. InstalledAt(bundle[d].plugin) = {d}
    BY DEF SlotUnique, InstalledAt
<1>2. (CHOOSE e \in InstalledAt(bundle[d].plugin) : TRUE) = d
    BY <1>1
<1> QED
    BY <1>1, <1>2 DEF SlotOf, Occupied

(* It is vacant when nothing is installed, or the user gave the plugin up. *)
LEMMA SlotOfVacant ==
    ASSUME NEW n, n \in targeted \/ ~Occupied(n)
    PROVE  SlotOf(n) = 0
BY DEF SlotOf

(* An occupied slot is not vacant: no version is 0. *)
LEMMA SlotOfOccupied ==
    ASSUME TypeOK, SlotUnique, NEW n, n \notin targeted, Occupied(n)
    PROVE  SlotOf(n) # 0
<1>1. PICK d \in Dirs : place[d] = "dest" /\ bundle[d].plugin = n
    BY DEF Occupied, InstalledAt
<1>2. bundle[d].version \in Nat \ {0}
    BY VersionsAssumption DEF TypeOK, Bundles
<1> QED
    BY <1>1, <1>2, SlotOfServed DEF ServedIsSlot

(* A plugin given up stays so, and has neither a slot nor copies. *)
LEMMA GivenUp ==
    ASSUME NEW n \in targeted, targeted \subseteq targeted'
    PROVE  SlotOf(n)' = SlotOf(n) /\ KeptOf(n)' = KeptOf(n)
BY DEF SlotOf, KeptOf

(* A slot changes only with the directories of its plugin. *)
LEMMA SlotSame ==
    ASSUME TypeOK, NEW n, n \notin targeted, n \notin targeted',
           \A d \in Dirs : bundle[d].plugin = n \/ bundle'[d].plugin = n => Counts(d)
    PROVE  SlotOf(n)' = SlotOf(n)
<1>1. InstalledAt(n)' = InstalledAt(n)
    BY DEF InstalledAt, Counts
<1>2. \A d \in InstalledAt(n) : bundle'[d] = bundle[d]
    BY DEF InstalledAt, Counts
<1>3. CASE Occupied(n)
    <2>1. (CHOOSE d \in InstalledAt(n) : TRUE) \in InstalledAt(n)
        BY <1>3 DEF Occupied
    <2> QED
        BY <1>1, <1>2, <1>3, <2>1 DEF SlotOf, Occupied
<1>4. CASE ~Occupied(n)
    BY <1>1, <1>4 DEF SlotOf, Occupied
<1> QED
    BY <1>3, <1>4

(* And so do its copies. *)
LEMMA KeptSame ==
    ASSUME TypeOK, NEW n, n \notin targeted, n \notin targeted',
           \A d \in Dirs : bundle[d].plugin = n \/ bundle'[d].plugin = n => Counts(d)
    PROVE  KeptOf(n)' = KeptOf(n)
<1> DEFINE S == {d \in Dirs : place[d] = "old" /\ bundle[d].plugin = n /\ Whole(d)}
<1>1. S' = S
    BY DEF Counts
<1>2. \A d \in S : bundle'[d] = bundle[d]
    BY DEF Counts
<1>3. KeptOf(n) = {<<d, bundle[d].version>> : d \in S}
    BY DEF KeptOf
<1>4. KeptOf(n)' = {<<d, bundle'[d].version>> : d \in S'}
    BY DEF KeptOf
<1> HIDE DEF S
<1> QED
    BY <1>1, <1>2, <1>3, <1>4

(* A step that leaves every directory of the plugins not given up as it    *)
(* counts, and gives up none, does not touch the slots.                    *)
LEMMA Stutters ==
    ASSUME TypeOK, targeted' = targeted,
           \A d \in Dirs : bundle[d].plugin \notin targeted
                           \/ bundle'[d].plugin \notin targeted => Counts(d)
    PROVE  UNCHANGED Slots!vars
<1>1. \A n \in Plugins : SlotOf(n)' = SlotOf(n) /\ KeptOf(n)' = KeptOf(n)
    BY GivenUp, SlotSame, KeptSame
<1> QED
    BY <1>1 DEF Slots!vars

(* A step that gives up one plugin at most, and moves no directory. *)
LEMMA Releases ==
    ASSUME TypeOK, NEW n \in Plugins, targeted' = targeted \cup {n},
           \A d \in Dirs : Counts(d)
    PROVE  Slots!Next \/ UNCHANGED Slots!vars
<1>1. CASE n \in targeted
    <2>1. targeted' = targeted
        BY <1>1
    <2> QED
        BY <2>1, Stutters
<1>2. CASE n \notin targeted
    <2>1. \A m \in Plugins \ {n} : SlotOf(m)' = SlotOf(m) /\ KeptOf(m)' = KeptOf(m)
        BY GivenUp, SlotSame, KeptSame
    <2>2. SlotOf(n)' = 0 /\ KeptOf(n)' = {}
        BY DEF SlotOf, KeptOf
    <2>3. Slots!Release(n)
        BY <1>2, <2>1, <2>2 DEF Slots!Release, Slots!Vacant
    <2> QED
        BY <2>3 DEF Slots!Next
<1> QED
    BY <1>1, <1>2

-----------------------------------------------------------------------------
(* The steps that move or damage a directory, one lemma each.              *)

(* A bundle that takes the vacant name is an Install, whether replaceDir   *)
(* published it or swapped it in.                                          *)
LEMMA Installs ==
    ASSUME RInv, TypeOK', SlotUnique', NEW j \in Jobs,
           place[j] = "tmp", ~Occupied(bundle[j].plugin),
           place' = [place EXCEPT ![j] = "dest"],
           UNCHANGED <<files, bundle, targeted>>
    PROVE  Slots!Next \/ UNCHANGED Slots!vars
<1> DEFINE n == bundle[j].plugin
           v == bundle[j].version
<1>1. TypeOK /\ n \in Plugins /\ v \in Versions /\ j \in Dirs
    BY DEF RInv, IInv, TypeOK, Bundles, Dirs
<1>2. \A d \in Dirs \ {j} : Counts(d)
    BY <1>1 DEF TypeOK, Counts, Whole
<1>3. CASE n \in targeted
    BY <1>1, <1>2, <1>3, Stutters
<1>4. CASE n \notin targeted
    <2>1. \A m \in Plugins \ {n} : SlotOf(m)' = SlotOf(m) /\ KeptOf(m)' = KeptOf(m)
        BY <1>1, <1>2, GivenUp, SlotSame, KeptSame
    <2>2. SlotOf(n) = 0
        BY SlotOfVacant
    <2>3. SlotOf(n)' = v
        <3>1. place'[j] = "dest" /\ bundle'[j] = bundle[j] /\ targeted' = targeted
            BY <1>1 DEF TypeOK
        <3>2. (TypeOK /\ SlotUnique => ServedIsSlot)'
            BY SlotOfServed, PTL
        <3> QED
            BY <1>1, <1>4, <3>1, <3>2 DEF ServedIsSlot
    <2>4. KeptOf(n)' = KeptOf(n)
        BY <1>1 DEF KeptOf, TypeOK, Whole
    <2>5. Slots!Install(n, v)
        BY <1>1, <1>4, <2>1, <2>2, <2>3, <2>4 DEF Slots!Install, Slots!Vacant
    <2> QED
        BY <1>1, <2>5 DEF Slots!Next
<1> QED
    BY <1>3, <1>4

(* Renaming an installed directory to a backup name is a SetAside.         *)
LEMMA SetsAside ==
    ASSUME RInv, TypeOK', NEW j \in Jobs, SetAside(j)
    PROVE  Slots!Next \/ UNCHANGED Slots!vars
<1> DEFINE n == bundle[j].plugin
<1> USE DEF SetAside
<1>1. TypeOK /\ SlotUnique /\ n \in Plugins
    BY DEF RInv, IInv, SInv, TypeOK, Bundles, Dirs
<1>2. PICK d \in InstalledAt(n) : place' = [place EXCEPT ![d] = "old"]
    OBVIOUS
<1> DEFINE v == bundle[d].version
<1>3. /\ d \in Dirs /\ place[d] = "dest" /\ bundle[d].plugin = n /\ v \in Versions
      /\ \A e \in Dirs : place[e] = "dest" /\ bundle[e].plugin = n => e = d
    BY <1>1 DEF InstalledAt, TypeOK, Bundles, SlotUnique
<1>4. \A e \in Dirs \ {d} : Counts(e)
    BY <1>1, <1>2 DEF TypeOK, Counts, Whole
<1>5. CASE n \in targeted
    BY <1>1, <1>3, <1>4, <1>5, Stutters
<1>6. CASE n \notin targeted
    <2>1. \A m \in Plugins \ {n} : SlotOf(m)' = SlotOf(m) /\ KeptOf(m)' = KeptOf(m)
        BY <1>1, <1>3, <1>4, GivenUp, SlotSame, KeptSame
    <2>2. SlotOf(n) = v
        BY <1>1, <1>3, <1>6, SlotOfServed DEF ServedIsSlot
    <2>3. SlotOf(n)' = 0
        BY <1>1, <1>2, <1>3 DEF SlotOf, Occupied, InstalledAt, TypeOK
    <2>4. Whole(d)
        BY <1>3, <1>6 DEF RInv, IInv, InstalledIsWhole
    <2>5. KeptOf(n)' = KeptOf(n) \cup {<<d, v>>}
        BY <1>1, <1>2, <1>3, <1>6, <2>4 DEF KeptOf, TypeOK, Whole
    <2>6. v # 0
        BY <1>3, VersionsAssumption
    <2>7. Slots!SetAside(n, d)
        <3>1. [m \in Plugins |-> SlotOf(m)]' = [[m \in Plugins |-> SlotOf(m)] EXCEPT ![n] = 0]
            BY <2>1, <2>3
        <3>2. [m \in Plugins |-> KeptOf(m)]'
                 = [[m \in Plugins |-> KeptOf(m)] EXCEPT ![n] = KeptOf(n) \cup {<<d, v>>}]
            BY <2>1, <2>5
        <3> QED
            BY <1>1, <1>6, <2>2, <2>6, <3>1, <3>2 DEF Slots!SetAside, Slots!Vacant
    <2> QED
        BY <1>1, <1>3, <2>7 DEF Slots!Next
<1> QED
    BY <1>5, <1>6

(* Renaming a backup to the vacant name is a Restore.                      *)
LEMMA Restores ==
    ASSUME RInv, TypeOK', SlotUnique', NEW j \in Jobs, Rollback(j)
    PROVE  Slots!Next \/ UNCHANGED Slots!vars
<1> DEFINE n == bundle[j].plugin
<1> USE DEF Rollback
<1>1. TypeOK /\ n \in Plugins
    BY DEF RInv, IInv, TypeOK, Bundles, Dirs
<1>2. PICK d \in saved[j] : place[d] = "old" /\ place' = [place EXCEPT ![d] = "dest"]
    OBVIOUS
<1> DEFINE v == bundle[d].version
<1>3. d \in Dirs /\ bundle[d].plugin = n /\ v \in Versions
    BY <1>1 DEF TypeOK, Bundles, RInv, IInv, BackupsOwned
<1>4. \A e \in Dirs \ {d} : Counts(e)
    BY <1>1, <1>2 DEF TypeOK, Counts, Whole
<1>5. CASE n \in targeted
    BY <1>1, <1>3, <1>4, <1>5, Stutters
<1>6. CASE n \notin targeted
    <2>1. \A m \in Plugins \ {n} : SlotOf(m)' = SlotOf(m) /\ KeptOf(m)' = KeptOf(m)
        BY <1>1, <1>3, <1>4, GivenUp, SlotSame, KeptSame
    <2>2. SlotOf(n) = 0
        BY SlotOfVacant
    <2>3. SlotOf(n)' = v
        <3>1. place'[d] = "dest" /\ bundle'[d] = bundle[d] /\ targeted' = targeted
            BY <1>1, <1>2, <1>3 DEF TypeOK
        <3>2. (TypeOK /\ SlotUnique => ServedIsSlot)'
            BY SlotOfServed, PTL
        <3> QED
            BY <1>3, <1>6, <3>1, <3>2 DEF ServedIsSlot
    <2>4. Whole(d)
        BY <1>2, <1>3, <1>6 DEF RInv, IInv, BackupIsWhole
    <2>5. <<d, v>> \in KeptOf(n)
        BY <1>2, <1>3, <1>6, <2>4 DEF KeptOf
    <2>6. KeptOf(n)' = KeptOf(n) \ {<<d, v>>}
        BY <1>1, <1>2, <1>3, <1>6 DEF KeptOf, TypeOK, Whole
    <2>7. Slots!Restore(n, d, v)
        BY <1>1, <1>3, <1>6, <2>1, <2>2, <2>3, <2>5, <2>6
           DEF Slots!Restore, Slots!Vacant
    <2> QED
        BY <1>1, <1>3, <2>7 DEF Slots!Next
<1> QED
    BY <1>5, <1>6

(* The first file unlinked from a backup is its Discard: the plugin is     *)
(* served, or has another copy that nobody may delete.                     *)
LEMMA Discards ==
    ASSUME RInv, TypeOK', NEW j \in Jobs, NEW f \in Files, Unlink(j, f)
    PROVE  Slots!Next \/ UNCHANGED Slots!vars
<1> USE DEF Unlink
<1>1. TypeOK /\ SlotUnique
    BY DEF RInv, IInv, SInv
<1>2. PICK d \in handle[j] : f \in files[d] /\ files' = [files EXCEPT ![d] = @ \ {f}]
    OBVIOUS
<1> DEFINE n == bundle[d].plugin
           v == bundle[d].version
<1>3. d \in Dirs /\ n \in Plugins /\ v \in Versions
    BY <1>1 DEF TypeOK, Bundles
<1>4. ~Whole(d)' /\ \A e \in Dirs \ {d} : Counts(e)
    BY <1>1, <1>2, <1>3 DEF TypeOK, Counts, Whole
<1>5. CASE n \in targeted \/ place[d] # "old" \/ ~Whole(d)
    <2>1. n \notin targeted => Counts(d)
        BY <1>4, <1>5 DEF Counts
    <2> QED
        BY <1>1, <1>4, <2>1, Stutters
<1>6. CASE n \notin targeted /\ place[d] = "old" /\ Whole(d)
    <2>1. \A m \in Plugins \ {n} : SlotOf(m)' = SlotOf(m) /\ KeptOf(m)' = KeptOf(m)
        BY <1>1, <1>4, GivenUp, SlotSame, KeptSame
    <2>2. InstalledAt(n)' = InstalledAt(n) /\ \A e \in InstalledAt(n) : bundle'[e] = bundle[e]
        BY DEF InstalledAt
    <2>3. SlotOf(n)' = SlotOf(n)
        BY <2>2 DEF SlotOf, Occupied
    <2>4. <<d, v>> \in KeptOf(n) /\ KeptOf(n)' = KeptOf(n) \ {<<d, v>>}
        BY <1>1, <1>2, <1>3, <1>6 DEF KeptOf, TypeOK, Whole
    <2>5. pc[j] = "dropOld" /\ d \in saved[j]
        BY <1>6 DEF RInv, IInv, HandleJustified
    <2>6. PICK e \in Dirs : Secure(e, n)
        BY <1>3, <1>6 DEF RInv, CopiesSecure, HasCopy
    <2>7. SlotOf(n) # 0 \/ KeptOf(n) # {<<d, v>>}
        <3>1. CASE place[e] = "dest"
            BY <1>1, <1>6, <2>6, <3>1, SlotOfOccupied DEF Secure, Occupied, InstalledAt
        <3>2. CASE place[e] = "old"
            <4>1. e # d
                BY <1>6, <2>5, <2>6, <3>2 DEF Secure
            <4>2. <<e, bundle[e].version>> \in KeptOf(n)
                BY <1>6, <2>6, <3>2 DEF KeptOf, Secure
            <4> QED
                BY <4>1, <4>2
        <3> QED
            BY <2>6, <3>1, <3>2 DEF Secure
    <2>8. Slots!Discard(n, d, v)
        BY <1>3, <1>6, <2>1, <2>3, <2>4, <2>7 DEF Slots!Discard, Slots!Vacant
    <2> QED
        BY <1>3, <2>8 DEF Slots!Next
<1> QED
    BY <1>5, <1>6

(* rmdir removes directories that have no file left: of the slots it takes *)
(* only those of plugins given up.                                         *)
LEMMA Erases ==
    ASSUME RInv, TypeOK', NEW j \in Jobs, Rmdir(j)
    PROVE  UNCHANGED Slots!vars
<1> USE DEF Rmdir
<1>1. TypeOK /\ RemovalsAsked
    BY DEF RInv, IInv
<1>2. \A d \in Victim(j) : ~Whole(d)
    BY FilesAssumption DEF Whole
<1>3. \A d \in Victim(j) : bundle[d].plugin \notin targeted => place[d] \in {"old", "tmp"}
    BY <1>1 DEF Victim, InstalledAt, RemovalsAsked
<1>4. \A d \in Dirs : bundle[d].plugin \notin targeted \/ bundle'[d].plugin \notin targeted
                         => Counts(d)
    BY <1>1, <1>2, <1>3 DEF Counts, Whole
<1> QED
    BY <1>1, <1>4, Stutters

-----------------------------------------------------------------------------
(* Initial states map to initial states.                                   *)
LEMMA SlotsInit == Init => Slots!Init
<1> SUFFICES ASSUME Init PROVE Slots!Init
    OBVIOUS
<1>1. TypeOK /\ SlotUnique
    BY IInvInit, SInvInit DEF IInv, SInv
<1>2. \A n \in Plugins : KeptOf(n) = {}
    BY <1>1 DEF Init, KeptOf, TypeOK
<1>3. \A n \in Plugins : SlotOf(n) \in Versions \cup {0}
    <2> SUFFICES ASSUME NEW n \in Plugins PROVE SlotOf(n) \in Versions \cup {0}
        OBVIOUS
    <2>1. CASE ~Occupied(n)
        BY <2>1, SlotOfVacant
    <2>2. CASE Occupied(n)
        <3>1. PICK d \in Dirs : place[d] = "dest" /\ bundle[d].plugin = n
            BY <2>2 DEF Occupied, InstalledAt
        <3>2. bundle[d].plugin \notin targeted /\ bundle[d].version \in Versions
            BY <1>1 DEF Init, TypeOK, Bundles
        <3> QED
            BY <1>1, <3>1, <3>2, SlotOfServed DEF ServedIsSlot
    <2> QED
        BY <2>1, <2>2
<1> QED
    BY <1>2, <1>3 DEF Init, Slots!Init, Slots!Vacant

(* Every step maps to a step, or leaves the slots as they are.             *)
LEMMA SlotsStep ==
    ASSUME RInv, TypeOK', SlotUnique', Next
    PROVE  Slots!Next \/ UNCHANGED Slots!vars
<1> DEFINE Mapped == Slots!Next \/ UNCHANGED Slots!vars
<1> SUFFICES Mapped
    OBVIOUS
<1>1. TypeOK /\ IdleIsBlank /\ ReadyIsWhole
    BY DEF RInv, IInv
<1> USE <1>1 DEF TypeOK, Dirs, Goto, Whole, Counts
<1>2. PICK j \in Jobs :
          \/ \E m \in Plugins, v \in Versions : BeginInstall(j, m, v)
          \/ \E m \in Plugins : BeginRemove(j, m)
          \/ \E m \in Jobs : BeginRemoveOld(j, m)
          \/ \E f \in Files : CopyFile(j, f)
          \/ \E f \in Files : Unlink(j, f)
          \/ MkdirFails(j)
          \/ StatDest(j)
          \/ Publish(j)
          \/ SetAside(j)
          \/ SwapIn(j)
          \/ SwapInFails(j)
          \/ Rollback(j)
          \/ Abandon(j)
          \/ OpenVictim(j)
          \/ VictimAbsent(j)
          \/ Rmdir(j)
          \/ RemovalFails(j)
          \/ Crash(j)
    BY NextCases
<1>3. ASSUME NEW m \in Plugins, NEW v \in Versions, BeginInstall(j, m, v) PROVE Mapped
    <2>1. place[j] = "absent" /\ place'[j] = "tmp" /\ targeted' = targeted
        BY <1>3 DEF BeginInstall, IdleIsBlank
    <2>2. \A d \in Dirs : Counts(d)
        BY <1>3, <2>1 DEF BeginInstall
    <2> QED
        BY <2>1, <2>2, Stutters
<1>4. ASSUME NEW m \in Plugins, BeginRemove(j, m) PROVE Mapped
    <2>1. place[j] = "absent"
        BY <1>4 DEF BeginRemove, IdleIsBlank
    <2>2. \A d \in Dirs : Counts(d)
        BY <1>4, <2>1 DEF BeginRemove
    <2>3. targeted' = targeted \cup {m}
        BY <1>4 DEF BeginRemove
    <2> QED
        BY <2>2, <2>3, Releases
<1>5. ASSUME NEW m \in Jobs, BeginRemoveOld(j, m) PROVE Mapped
    <2>1. targeted' = targeted \cup {bundle[m].plugin} /\ bundle[m].plugin \in Plugins
        BY <1>5 DEF BeginRemoveOld, Bundles
    <2>2. \A d \in Dirs : Counts(d)
        BY <1>5 DEF BeginRemoveOld
    <2> QED
        BY <2>1, <2>2, Releases
<1>6. ASSUME NEW f \in Files, CopyFile(j, f) PROVE Mapped
    <2>1. place[j] = "tmp" /\ targeted' = targeted
        BY <1>6 DEF CopyFile, ReadyIsWhole
    <2>2. \A d \in Dirs : Counts(d)
        BY <1>6, <2>1 DEF CopyFile
    <2> QED
        BY <2>1, <2>2, Stutters
<1>7. ASSUME NEW f \in Files, Unlink(j, f) PROVE Mapped
    BY <1>7, Discards
<1>8. CASE Publish(j)
    BY <1>8, Installs DEF Publish, ReadyIsWhole
<1>9. CASE SetAside(j)
    BY <1>9, SetsAside
<1>10. CASE SwapIn(j)
    BY <1>10, Installs DEF SwapIn, ReadyIsWhole
<1>11. CASE Rollback(j)
    BY <1>11, Restores
<1>12. CASE Rmdir(j)
    BY <1>12, Erases
<1>13. CASE \/ MkdirFails(j) \/ StatDest(j) \/ SwapInFails(j) \/ Abandon(j)
            \/ OpenVictim(j) \/ VictimAbsent(j) \/ RemovalFails(j) \/ Crash(j)
    <2>1. UNCHANGED <<place, files, bundle, targeted>>
        BY <1>13 DEF MkdirFails, StatDest, SwapInFails, Abandon, OpenVictim,
                     VictimAbsent, RemovalFails, Crash
    <2>2. \A d \in Dirs : Counts(d)
        BY <2>1
    <2> QED
        BY <2>1, <2>2, Stutters
<1> QED
    BY <1>2, <1>3, <1>4, <1>5, <1>6, <1>7, <1>8, <1>9, <1>10, <1>11, <1>12, <1>13

(* copyBundleIntoPlace, replaceDir and os.RemoveAll, interleaved at every  *)
(* system call, failing or killed anywhere, implement the slots: a plugin  *)
(* nobody gave up is served in one piece or kept in one piece, and its     *)
(* last copy is never given up while it is not served.                     *)
THEOREM StoreImplementsSlots == Spec => ImplementsSlots
<1>1. Init => Slots!Init /\ RInv
    BY SlotsInit, IInvInit, SInvInit, CopiesSecureInit DEF RInv
<1>2. RInv /\ [Next]_vars => RInv'
    BY IInvStep, SInvStep, CopiesSecureStep DEF RInv
<1>3. RInv /\ [Next]_vars => [Slots!Next]_(Slots!vars)
    <2> SUFFICES ASSUME RInv, [Next]_vars
                 PROVE  Slots!Next \/ UNCHANGED Slots!vars
        OBVIOUS
    <2>1. RInv'
        BY <1>2
    <2>2. CASE Next
        BY <2>1, <2>2, SlotsStep DEF RInv, IInv, SInv
    <2>3. CASE UNCHANGED vars
        <3>1. TypeOK /\ targeted' = targeted /\ \A d \in Dirs : Counts(d)
            BY <2>3 DEF RInv, IInv, vars, Counts, Whole
        <3> QED
            BY <3>1, Stutters
    <2> QED
        BY <2>2, <2>3
<1> QED
    BY <1>1, <1>2, <1>3, PTL DEF Spec, ImplementsSlots, Slots!Spec
-----------------------------------------------------------------------------
(* The plugin commands.                                                    *)


Commands ==
    [stage : {"ready", "done", "killed"} \cup Active, op : Ops, all : BOOLEAN,
     bundled : BOOLEAN, names : Seq(Entries), checks : Seq(Checks),
     index : Indexes, results : Seq(Outcomes), ok : BOOLEAN]

(* A command has as many targets as it may, and a result for each one it   *)
(* is past.                                                                *)
Counted(c) ==
    /\ Len(c.names) <= MaxTargets
    /\ Len(c.results) <= Len(c.names)
    /\ c.stage \in {"fetch", "apply"} => Len(c.results) < Len(c.names)
    /\ c.stage \in {"ready", "check", "index"} => c.results = <<>>
    /\ c.stage = "ready" => c.names = <<>> /\ ~c.ok

(* Who looks its targets up beforehand: every reinstall and update, and an *)
(* install of names from the registry.                                     *)
Prechecks(c) ==
    c.op \in {"reinstall", "update"} \/ (c.op = "install" /\ ~c.all /\ ~c.bundled)

(* It has looked all of them up when it reads the index or runs a task.    *)
ChecksDone(c) ==
    /\ Len(c.checks) <= Len(c.names)
    /\ ~Prechecks(c) => c.checks = <<>> /\ c.stage # "check"
    /\ Prechecks(c) /\ c.stage \in {"index", "task", "fetch", "apply"}
          => Len(c.checks) = Len(c.names)

(* A check speaks of the plugin named; an install names plugins only.      *)
ChecksMatch(c) ==
    /\ \A i \in 1..Len(c.checks) :
          c.names[i][1] = "dest" => c.checks[i].plugin = c.names[i][2]
    /\ c.op = "install" => \A i \in 1..Len(c.names) : c.names[i][1] = "dest"

(* What the current task works on, and that a version of it is known.      *)
GoalOf(c) == LET i == Len(c.results) + 1
             IN  IF c.op = "install" THEN c.names[i][2] ELSE c.checks[i].plugin

GoalKnown(c) ==
    /\ c.stage = "fetch" => c.index[GoalOf(c)] # 0
    /\ c.stage \in {"check", "index", "fetch"} => c.op # "remove"

Proper(c) == Counted(c) /\ ChecksDone(c) /\ ChecksMatch(c) /\ GoalKnown(c)

(* The invariant under which a command only makes calls of PluginStore.    *)
CInv == cmd \in [Procs -> Commands] /\ \A p \in Procs : Proper(cmd[p])

-----------------------------------------------------------------------------
(* The directory can be listed: it has finitely many entries.              *)
LEMMA PresentFinite == IsFiniteSet(Present)
<1>1. IsFiniteSet(1..MaxTargets)
    BY TasksAssumption, FS_Interval
<1>2. IsFiniteSet(Jobs)
    BY <1>1, FinitenessAssumption, TasksAssumption, FS_Product
<1>3. IsFiniteSet({"dest"}) /\ IsFiniteSet({"old"}) /\ IsFiniteSet({"tmp"})
    BY FS_Singleton
<1>4. IsFiniteSet({"old", "tmp"})
    BY <1>3, FS_Union, {"old"} \cup {"tmp"} = {"old", "tmp"}
<1>5. IsFiniteSet({"dest"} \X Plugins) /\ IsFiniteSet({"old", "tmp"} \X Jobs)
    BY <1>2, <1>3, <1>4, FinitenessAssumption, FS_Product
<1>6. IsFiniteSet(Entries)
    BY <1>5, FS_Union DEF Entries
<1> QED
    BY <1>6, FS_Subset DEF Present

(* An ordering of a finite set is a sequence of its elements. *)
LEMMA OrderingsAreSequences ==
    ASSUME NEW S, IsFiniteSet(S), NEW s \in SetToSeqs(S)
    PROVE  s \in Seq(S)
<1>1. Cardinality(S) \in Nat
    BY FS_CardinalityType
<1>2. s \in [1..Cardinality(S) -> S]
    BY DEF SetToSeqs
<1> QED
    BY <1>1, <1>2

LEMMA ListingsAreSequences == ASSUME NEW s \in Listings PROVE s \in Seq(Entries)
<1>1. s \in Seq(Present)
    BY PresentFinite, OrderingsAreSequences, EmptySeq DEF Listings
<1> QED
    BY <1>1, SeqMonotonic DEF Present

(* The job of a task is one of the jobs. *)
LEMMA JobsOfTasks ==
    ASSUME CInv, NEW p \in Procs, Len(cmd[p].results) < Len(cmd[p].names)
    PROVE  Job(p) \in Jobs /\ At(p) \in 1..MaxTargets /\ At(p) \in 1..Len(cmd[p].names)
<1>1. Len(cmd[p].results) \in Nat /\ Len(cmd[p].names) \in Nat
    BY LenProperties DEF CInv, Commands
<1>2. Len(cmd[p].names) <= MaxTargets
    BY DEF CInv, Proper, Counted
<1> QED
    BY <1>1, <1>2, TasksAssumption DEF Job, At

(* What a look-up says is well formed, and speaks of the plugin named.     *)
LEMMA LookupsTyped ==
    ASSUME TypeOK, NEW e \in Entries, NEW c \in Lookups(e)
    PROVE  c \in Checks /\ (e[1] = "dest" => c.plugin = e[2])
<1>1. PluginOf(e) \in Plugins
    BY DEF PluginOf, Entries, TypeOK, Bundles, Dirs
<1>2. CASE c = Check("error", PluginOf(e), 0) \/ c = Check("absent", PluginOf(e), 0)
    BY <1>1, <1>2 DEF Check, Checks, PluginOf
<1>3. CASE \E d \in Named(e) : c = Check("loaded", bundle[d].plugin, bundle[d].version)
    <2>1. PICK d \in Named(e) : c = Check("loaded", bundle[d].plugin, bundle[d].version)
        BY <1>3
    <2>2. d \in Dirs /\ (e[1] = "dest" => d \in InstalledAt(e[2]))
        BY DEF Named
    <2>3. bundle[d].plugin \in Plugins /\ bundle[d].version \in Versions
        BY <2>2 DEF TypeOK, Bundles
    <2> QED
        BY <2>1, <2>2, <2>3 DEF Check, Checks, InstalledAt
<1> QED
    BY <1>2, <1>3 DEF Lookups

(* The plugin a task works on is a plugin. *)
LEMMA GoalIsPlugin ==
    ASSUME CInv, NEW p \in Procs, cmd[p].stage \in {"task", "fetch", "apply"},
           cmd[p].op # "remove", At(p) \in 1..Len(cmd[p].names)
    PROVE  Goal(p) \in Plugins
<1>1. CASE cmd[p].op = "install"
    <2>1. cmd[p].names[At(p)] \in Entries /\ cmd[p].names[At(p)][1] = "dest"
        BY <1>1, ElementOfSeq DEF CInv, Commands, Proper, ChecksMatch
    <2> QED
        BY <1>1, <2>1 DEF Goal, Entries
<1>2. CASE cmd[p].op # "install"
    <2>1. cmd[p].op \in {"reinstall", "update"}
        BY <1>2 DEF CInv, Commands, Ops
    <2>2. At(p) \in 1..Len(cmd[p].checks)
        BY <2>1 DEF CInv, Proper, ChecksDone, Prechecks
    <2>3. cmd[p].checks[At(p)] \in Checks
        BY <2>2, ElementOfSeq DEF CInv, Commands
    <2> QED
        BY <1>2, <2>3 DEF Goal, Checks
<1> QED
    BY <1>1, <1>2

(* Whatever a command does, the plugin directory takes a step of           *)
(* PluginStore or none.                                                    *)
LEMMA StoreStep ==
    ASSUME CInv, [CmdNext]_cvars
    PROVE  [Next]_vars
<1>1. CASE UNCHANGED cvars
    BY <1>1 DEF cvars
<1>2. CASE CmdNext
    <2>1. PICK p \in Procs :
              \/ \E r \in Requests : Launch(p, r) \/ Refuse(p, r)
              \/ Proceed(p)
              \/ Kill(p)
        BY <1>2 DEF CmdNext
    <2>2. CASE \E r \in Requests : Launch(p, r) \/ Refuse(p, r)
        BY <2>2 DEF Launch, Refuse
    <2>3. CASE \/ CheckTarget(p) \/ EndChecks(p) \/ ReadIndexFails(p)
               \/ \E idx \in Indexes : ReadIndex(p, idx)
               \/ Decide(p) \/ FetchFails(p) \/ Collect(p) \/ Report(p) \/ DisplayFails(p)
        BY <2>3 DEF CheckTarget, EndChecks, ReadIndexFails, ReadIndex, Decide,
                    FetchFails, Collect, Report, DisplayFails
    <2>4. CASE StartInstall(p)
        <3>1. cmd[p].stage = "fetch" /\ cmd[p].op # "remove"
            BY <2>4 DEF StartInstall, CInv, Proper, GoalKnown
        <3>2. Job(p) \in Jobs /\ At(p) \in 1..Len(cmd[p].names)
            BY <3>1, JobsOfTasks DEF CInv, Proper, Counted
        <3>3. Goal(p) \in Plugins
            BY <3>1, <3>2, GoalIsPlugin
        <3>4. cmd[p].index[Goal(p)] \in Versions
            BY <3>1, <3>3 DEF CInv, Proper, GoalKnown, GoalOf, Goal, At, Commands, Indexes
        <3>5. Start(Job(p))
            BY <2>4, <3>3, <3>4 DEF StartInstall, Start
        <3> QED
            BY <3>2, <3>5 DEF Next
    <2>5. CASE StartRemove(p)
        <3>1. Len(cmd[p].results) < Len(cmd[p].names)
            BY <2>5, LenProperties DEF StartRemove, At, CInv, Commands
        <3>2. Job(p) \in Jobs /\ At(p) \in 1..Len(cmd[p].names)
            BY <3>1, JobsOfTasks
        <3> DEFINE e == cmd[p].names[At(p)]
        <3>3. e \in Entries
            BY <3>2, ElementOfSeq DEF CInv, Commands
        <3>4. \/ UNCHANGED vars
              \/ e[1] = "dest" /\ BeginRemove(Job(p), e[2])
              \/ e[1] = "old" /\ BeginRemoveOld(Job(p), e[2])
            BY <2>5 DEF StartRemove
        <3>5. UNCHANGED vars \/ Start(Job(p))
            BY <3>3, <3>4 DEF Start, Entries
        <3> QED
            BY <3>2, <3>5 DEF Next
    <2>6. CASE Apply(p)
        <3>1. Job(p) \in Jobs
            BY <2>6, JobsOfTasks DEF Apply, CInv, Proper, Counted
        <3> QED
            BY <2>6, <3>1 DEF Apply, Next
    <2>7. CASE Kill(p)
        <3>1. cmd[p].stage = "apply" => Job(p) \in Jobs
            BY JobsOfTasks DEF CInv, Proper, Counted
        <3> QED
            BY <2>7, <3>1 DEF Kill, Next
    <2> QED
        BY <2>1, <2>2, <2>3, <2>4, <2>5, <2>6, <2>7 DEF Proceed
<1> QED
    BY <1>1, <1>2

-----------------------------------------------------------------------------
(* CInv is inductive, given the types of the directory.                    *)

(* A step of one command that leaves it proper keeps the invariant.        *)
LEMMA OneCommand ==
    ASSUME CInv, NEW p \in Procs, NEW x \in Commands, Proper(x),
           cmd' = [cmd EXCEPT ![p] = x]
    PROVE  CInv'
<1>1. cmd' \in [Procs -> Commands]
    BY DEF CInv
<1>2. \A q \in Procs : Proper(cmd'[q])
    BY DEF CInv
<1>3. \A q \in Procs : Proper(cmd'[q]) <=> Proper(cmd[q])'
    BY DEF Proper, Counted, ChecksDone, Prechecks, ChecksMatch, GoalKnown, GoalOf
<1> QED
    BY <1>1, <1>2, <1>3 DEF CInv

LEMMA CInvInit == CmdInit => CInv
<1> SUFFICES ASSUME CmdInit PROVE CInv
    OBVIOUS
<1>1. cmd = [p \in Procs |-> Idle]
    BY DEF CmdInit
<1>2. Idle \in Commands
    BY EmptySeq DEF Idle, Commands, Ops, Indexes
<1>3. Len(<<>>) = 0 /\ MaxTargets \in Nat
    BY EmptySeq, TasksAssumption
<1>4. Proper(Idle)
    BY <1>3 DEF Idle, Proper, Counted, ChecksDone, Prechecks, ChecksMatch, GoalKnown
<1> QED
    BY <1>1, <1>2, <1>4 DEF CInv

(* A command that only moves to another stage, in one of the ways it may.  *)
LEMMA StageMoves ==
    ASSUME CInv, NEW p \in Procs, NEW s \in {"done", "killed", "task", "index", "apply", "fetch"},
           NEW b \in BOOLEAN, cmd' = [cmd EXCEPT ![p].stage = s, ![p].ok = b]
                           \/ cmd' = [cmd EXCEPT ![p].stage = s],
           s = "task" => cmd[p].stage = "check",
           s = "index" => cmd[p].stage = "check",
           s \in {"task", "index"} => Len(cmd[p].checks) = Len(cmd[p].names),
           s = "fetch" => /\ cmd[p].stage = "task" /\ cmd[p].op # "remove"
                          /\ Len(cmd[p].results) < Len(cmd[p].names)
                          /\ cmd[p].index[GoalOf(cmd[p])] # 0,
           s = "apply" => cmd[p].stage \in {"task", "fetch"}
                          /\ Len(cmd[p].results) < Len(cmd[p].names)
    PROVE  CInv'
<1> DEFINE c == cmd[p]
<1>1. PICK x : x \in {[c EXCEPT !.stage = s], [c EXCEPT !.stage = s, !.ok = b]}
               /\ cmd' = [cmd EXCEPT ![p] = x]
    BY DEF CInv
<1>2. c \in Commands /\ Proper(c)
    BY DEF CInv
<1>3. /\ x \in Commands /\ x.stage = s /\ x.names = c.names /\ x.checks = c.checks
      /\ x.results = c.results /\ x.index = c.index /\ x.op = c.op
      /\ x.all = c.all /\ x.bundled = c.bundled
    BY <1>1, <1>2 DEF Commands, Active
<1>4. Proper(x)
    BY <1>2, <1>3 DEF Proper, Counted, ChecksDone, Prechecks, ChecksMatch, GoalKnown, GoalOf
<1> QED
    BY <1>1, <1>3, <1>4, OneCommand

(* A task that ends hands over to the next one. *)
LEMMA TaskEnds ==
    ASSUME CInv, NEW p \in Procs, NEW o \in Outcomes, Result(p, o),
           cmd[p].stage \in {"task", "fetch", "apply"},
           Len(cmd[p].results) < Len(cmd[p].names)
    PROVE  CInv'
<1> DEFINE c == cmd[p]
           x == [c EXCEPT !.stage = "task", !.results = Append(@, o)]
<1>1. cmd' = [cmd EXCEPT ![p] = x]
    BY DEF CInv, Result
<1>2. c \in Commands /\ Proper(c)
    BY DEF CInv
<1>3. /\ Append(c.results, o) \in Seq(Outcomes)
      /\ Len(Append(c.results, o)) = Len(c.results) + 1
      /\ Len(c.results) \in Nat /\ Len(c.names) \in Nat
    BY <1>2, AppendProperties, LenProperties DEF Commands
<1>4. /\ x \in Commands /\ x.stage = "task" /\ x.names = c.names /\ x.checks = c.checks
      /\ x.results = Append(c.results, o) /\ x.index = c.index /\ x.op = c.op
      /\ x.all = c.all /\ x.bundled = c.bundled
    BY <1>2, <1>3 DEF Commands, Active
<1> HIDE DEF x
<1>5. Proper(x)
    BY <1>2, <1>3, <1>4 DEF Proper, Counted, ChecksDone, Prechecks, ChecksMatch, GoalKnown
<1> QED
    BY <1>1, <1>4, <1>5, OneCommand

(* Entering a command. *)
LEMMA LaunchProper ==
    ASSUME CInv, NEW p \in Procs, NEW r \in Requests, Launch(p, r)
    PROVE  /\ CInv'
           /\ cmd'[p].stage \in {"task", "index", "check"}
           /\ cmd'[p].checks = <<>> /\ cmd'[p].results = <<>>
<1>1. /\ r.op \in Ops /\ r.all \in BOOLEAN /\ r.bundled \in BOOLEAN
      /\ r.names \in Seq(Plugins) /\ Len(r.names) <= MaxTargets
    BY RequestsAssumption
<1> DEFINE named == [i \in 1..Len(r.names) |-> <<"dest", r.names[i]>>]
<1>2. named \in Seq(Entries) /\ \A i \in 1..Len(named) : named[i][1] = "dest"
    <2>1. Len(r.names) \in Nat /\ \A i \in 1..Len(r.names) : r.names[i] \in Plugins
        BY <1>1, LenProperties, ElementOfSeq
    <2>2. \A i \in 1..Len(r.names) : <<"dest", r.names[i]>> \in Entries
        BY <2>1 DEF Entries
    <2>3. named \in [1..Len(r.names) -> Entries]
        BY <2>2
    <2>4. \A i \in 1..Len(r.names) : named[i][1] = "dest"
        OBVIOUS
    <2> HIDE DEF named
    <2>5. named \in Seq(Entries)
        BY <2>1, <2>3
    <2>6. Len(named) = Len(r.names)
        BY <2>1, <2>3, <2>5, LenProperties
    <2> QED
        BY <2>4, <2>5, <2>6
<1> DEFINE s == IF r.op = "remove" THEN "task"
                ELSE IF r.op = "install" /\ (r.all \/ r.bundled) THEN "index" ELSE "check"
<1>3. PICK names \in IF r.all /\ r.op # "install" THEN Listings ELSE {named} :
          /\ Len(names) <= MaxTargets
          /\ cmd' = [cmd EXCEPT ![p] = [Idle EXCEPT !.op = r.op, !.all = r.all,
                        !.bundled = r.bundled, !.names = names, !.stage = s]]
    BY DEF Launch
<1> DEFINE x == [Idle EXCEPT !.op = r.op, !.all = r.all, !.bundled = r.bundled,
                             !.names = names, !.stage = s]
<1> HIDE DEF named, s
<1>4. names \in Seq(Entries) /\ (r.op = "install" => names = named)
    BY <1>2, <1>3, ListingsAreSequences
<1>5. s \in {"task", "index", "check"}
    BY DEF s
<1> DEFINE y == [Idle EXCEPT !.op = r.op, !.all = r.all]
           z == [y EXCEPT !.bundled = r.bundled, !.names = names]
<1>6. Idle \in Commands
    BY EmptySeq DEF Idle, Commands, Ops, Indexes
<1>7. /\ y \in Commands /\ y.op = r.op /\ y.all = r.all
      /\ y.checks = <<>> /\ y.results = <<>>
    BY <1>1, <1>6 DEF Idle, Commands
<1> HIDE DEF y
<1>8. /\ z \in Commands /\ z.op = r.op /\ z.all = r.all /\ z.bundled = r.bundled
      /\ z.names = names /\ z.checks = <<>> /\ z.results = <<>>
    BY <1>1, <1>4, <1>7 DEF Commands
<1>9. x = [z EXCEPT !.stage = s]
    BY DEF y
<1> HIDE DEF z, x
<1>10. /\ x \in Commands /\ x.stage = s /\ x.op = r.op /\ x.all = r.all
       /\ x.bundled = r.bundled /\ x.names = names /\ x.checks = <<>> /\ x.results = <<>>
    BY <1>5, <1>8, <1>9 DEF Commands, Active
<1>11. Len(<<>>) = 0 /\ Len(names) \in Nat
    BY <1>4, EmptySeq, LenProperties
<1>12. Proper(x)
    BY <1>1, <1>2, <1>3, <1>4, <1>10, <1>11
       DEF s, Proper, Counted, ChecksDone, Prechecks, ChecksMatch, GoalKnown, Ops
<1>13. cmd'[p] = x
    BY <1>3 DEF x, CInv
<1> QED
    BY <1>3, <1>5, <1>10, <1>12, <1>13, OneCommand DEF x

(* Declining a removal. *)
LEMMA RefuseProper ==
    ASSUME CInv, NEW p \in Procs, NEW r \in Requests, Refuse(p, r)
    PROVE  /\ CInv'
           /\ cmd'[p].stage = "done" /\ ~cmd'[p].ok
           /\ cmd'[p].checks = <<>> /\ cmd'[p].results = <<>>
<1> DEFINE x == [Idle EXCEPT !.op = r.op, !.stage = "done"]
<1>1. cmd' = [cmd EXCEPT ![p] = x] /\ r.op = "remove"
    BY DEF Refuse
<1>2. Idle \in Commands
    BY EmptySeq DEF Idle, Commands, Ops, Indexes
<1>3. /\ x \in Commands /\ x.stage = "done" /\ x.op = "remove"
      /\ x.names = <<>> /\ x.checks = <<>> /\ x.results = <<>> /\ ~x.ok
    BY <1>1, <1>2 DEF Idle, Commands, Ops
<1> HIDE DEF x
<1>4. Len(<<>>) = 0 /\ MaxTargets \in Nat
    BY EmptySeq, TasksAssumption
<1>5. Proper(x)
    BY <1>3, <1>4 DEF Proper, Counted, ChecksDone, Prechecks, ChecksMatch, GoalKnown
<1>6. cmd'[p] = x
    BY <1>1 DEF CInv
<1> QED
    BY <1>1, <1>3, <1>5, <1>6, OneCommand

(* Looking up one more target. *)
LEMMA CheckProper ==
    ASSUME CInv, TypeOK, NEW p \in Procs, CheckTarget(p)
    PROVE  CInv'
<1> DEFINE c == cmd[p]
           i == Len(c.checks) + 1
<1>1. c \in Commands /\ Proper(c) /\ c.stage = "check"
    BY DEF CInv, CheckTarget
<1>2. Len(c.checks) \in Nat /\ Len(c.names) \in Nat /\ i \in 1..Len(c.names)
    BY <1>1, LenProperties DEF Commands, CheckTarget
<1>3. c.names[i] \in Entries
    BY <1>1, <1>2, ElementOfSeq DEF Commands
<1>4. PICK k \in Lookups(c.names[i]) : cmd' = [cmd EXCEPT ![p].checks = Append(@, k)]
    BY DEF CheckTarget
<1>5. k \in Checks /\ (c.names[i][1] = "dest" => k.plugin = c.names[i][2])
    BY <1>3, LookupsTyped
<1> DEFINE s == Append(c.checks, k)
           x == [c EXCEPT !.checks = s]
<1>6. /\ s \in Seq(Checks) /\ Len(s) = i /\ s[i] = k
      /\ \A m \in 1..Len(c.checks) : s[m] = c.checks[m]
    BY <1>1, <1>5, AppendProperties DEF Commands
<1>7. cmd' = [cmd EXCEPT ![p] = x]
    BY <1>4 DEF CInv
<1> HIDE DEF s
<1>8. /\ x \in Commands /\ x.stage = "check" /\ x.names = c.names /\ x.checks = s
      /\ x.results = c.results /\ x.index = c.index /\ x.op = c.op
      /\ x.all = c.all /\ x.bundled = c.bundled
    BY <1>1, <1>6 DEF Commands
<1> HIDE DEF x
<1>9. Counted(x) /\ ChecksDone(x) /\ GoalKnown(x)
    BY <1>1, <1>2, <1>6, <1>8 DEF Proper, Counted, ChecksDone, Prechecks, GoalKnown
<1>10. ChecksMatch(x)
    <2>1. \A m \in 1..Len(s) : m \in 1..Len(c.checks) \/ m = i
        BY <1>2, <1>6
    <2> QED
        BY <1>1, <1>5, <1>6, <1>8, <2>1 DEF Proper, ChecksMatch
<1> QED
    BY <1>7, <1>8, <1>9, <1>10, OneCommand DEF Proper

(* Reading the index; install --all takes its targets from it. *)
LEMMA ReadIndexProper ==
    ASSUME CInv, NEW p \in Procs, NEW idx \in Indexes, ReadIndex(p, idx)
    PROVE  CInv'
<1> DEFINE c == cmd[p]
           offers == {<<"dest", n>> : n \in {m \in Plugins : idx[m] # 0}}
<1>1. c \in Commands /\ Proper(c) /\ c.stage = "index"
    BY DEF CInv, ReadIndex
<1>2. PICK names \in IF c.op = "install" /\ c.all THEN SetToSeqs(offers) ELSE {c.names} :
          /\ Len(names) <= MaxTargets
          /\ cmd' = [cmd EXCEPT ![p].stage = "task", ![p].index = idx, ![p].names = names]
    BY DEF ReadIndex
<1>3. /\ names \in Seq(Entries)
      /\ c.op = "install" => \A i \in 1..Len(names) : names[i][1] = "dest"
      /\ names = c.names \/ (c.op = "install" /\ c.all)
    <2>1. CASE c.op = "install" /\ c.all
        <3>1. IsFiniteSet({"dest"} \X Plugins)
            BY FinitenessAssumption, FS_Singleton, FS_Product
        <3>2. IsFiniteSet(offers) /\ offers \subseteq {"dest"} \X Plugins
            <4>1. offers \subseteq {"dest"} \X Plugins
                OBVIOUS
            <4> QED
                BY <3>1, <4>1, FS_Subset
        <3>3. names \in Seq(offers)
            BY <1>2, <2>1, <3>2, OrderingsAreSequences
        <3>4. names \in Seq({"dest"} \X Plugins)
            BY <3>2, <3>3, SeqMonotonic
        <3>5. names \in Seq(Entries)
            BY <3>4, SeqMonotonic DEF Entries
        <3>6. \A i \in 1..Len(names) : names[i] \in {"dest"} \X Plugins
            BY <3>4, ElementOfSeq
        <3> QED
            BY <2>1, <3>5, <3>6
    <2>2. CASE ~(c.op = "install" /\ c.all)
        BY <1>1, <1>2, <2>2 DEF Commands, Proper, ChecksMatch
    <2> QED
        BY <2>1, <2>2
<1> DEFINE x == [c EXCEPT !.stage = "task", !.index = idx, !.names = names]
<1>4. cmd' = [cmd EXCEPT ![p] = x]
    BY <1>2 DEF CInv
<1>5. /\ x \in Commands /\ x.stage = "task" /\ x.names = names /\ x.checks = c.checks
      /\ x.results = c.results /\ x.index = idx /\ x.op = c.op
      /\ x.all = c.all /\ x.bundled = c.bundled
    BY <1>1, <1>3 DEF Commands, Active
<1> HIDE DEF x
<1>6. Len(<<>>) = 0 /\ Len(names) \in Nat
    BY <1>3, EmptySeq, LenProperties
<1>7. Proper(x)
    BY <1>1, <1>2, <1>3, <1>5, <1>6
       DEF Proper, Counted, ChecksDone, Prechecks, ChecksMatch, GoalKnown
<1> QED
    BY <1>4, <1>5, <1>7, OneCommand

(* The check a task relies on is about the plugin it works on, unless it   *)
(* is an install of something already loaded.                              *)
LEMMA ReliedIsGoal ==
    ASSUME CInv, TypeOK, NEW p \in Procs, NEW k \in Relied(p),
           cmd[p].stage = "task", cmd[p].op # "remove",
           At(p) \in 1..Len(cmd[p].names)
    PROVE  /\ k \in Checks /\ k.plugin = Goal(p)
           /\ cmd[p].op # "install" => k = cmd[p].checks[At(p)]
           /\ cmd[p].op = "install" =>
                 \/ k \in Lookups(cmd[p].names[At(p)])
                 \/ \E i \in 1..Len(cmd[p].checks) :
                       k = cmd[p].checks[i] /\ cmd[p].names[i] = cmd[p].names[At(p)]
<1> DEFINE c == cmd[p]
           e == c.names[At(p)]
<1>1. c \in Commands /\ Proper(c) /\ e \in Entries
    BY ElementOfSeq DEF CInv, Commands
<1>2. CASE c.op # "install"
    <2>1. Prechecks(c)
        BY <1>1, <1>2 DEF Prechecks, Commands, Ops
    <2>2. k = c.checks[At(p)] /\ At(p) \in 1..Len(c.checks)
        BY <1>1, <1>2, <2>1 DEF Relied, Proper, ChecksDone
    <2> QED
        BY <1>1, <1>2, <2>2, ElementOfSeq DEF Goal, Commands
<1>3. CASE c.op = "install" /\ (c.all \/ c.bundled)
    <2>1. k \in Lookups(e) /\ e[1] = "dest"
        BY <1>1, <1>3 DEF Relied, Proper, ChecksMatch
    <2> QED
        BY <1>1, <1>3, <2>1, LookupsTyped DEF Goal
<1>4. CASE c.op = "install" /\ ~(c.all \/ c.bundled)
    <2>1. PICK i \in 1..Len(c.names) : k = c.checks[i] /\ c.names[i] = e
        BY <1>4 DEF Relied
    <2>2. i \in 1..Len(c.checks)
        BY <1>1, <1>4 DEF Proper, ChecksDone, Prechecks
    <2>3. k \in Checks /\ k.plugin = c.names[i][2] /\ c.names[i][1] = "dest"
        BY <1>1, <1>4, <2>1, <2>2, ElementOfSeq DEF Commands, Proper, ChecksMatch
    <2> QED
        BY <1>4, <2>1, <2>2, <2>3 DEF Goal
<1> QED
    BY <1>2, <1>3, <1>4

(* Deciding what a task is to do. *)
LEMMA DecideProper ==
    ASSUME CInv, TypeOK, NEW p \in Procs, Decide(p)
    PROVE  CInv'
<1>1. cmd[p] \in Commands /\ Proper(cmd[p])
    BY DEF CInv
<1>2. cmd[p].stage = "task" /\ cmd[p].op # "remove" /\ At(p) \in 1..Len(cmd[p].names)
    BY <1>1, LenProperties DEF Decide, At, Commands
<1>3. PICK k \in Relied(p) : IF Verdict(p, k) = "fetch" THEN Enter(p, "fetch")
                             ELSE Result(p, Verdict(p, k))
    BY DEF Decide
<1>4. Len(cmd[p].results) < Len(cmd[p].names)
    BY <1>1, <1>2, LenProperties DEF At, Commands
<1>5. CASE Verdict(p, k) = "fetch"
    <2>1. cmd[p].index[k.plugin] # 0
        BY <1>5 DEF Verdict
    <2>2. k.plugin = GoalOf(cmd[p])
        BY <1>2, ReliedIsGoal DEF Goal, GoalOf, At
    <2>3. cmd' = [cmd EXCEPT ![p].stage = "fetch"]
        BY <1>3, <1>5 DEF Enter
    <2> QED
        BY <1>2, <1>4, <2>1, <2>2, <2>3, StageMoves
<1>6. CASE Verdict(p, k) # "fetch"
    <2>1. Verdict(p, k) \in Outcomes
        BY <1>6 DEF Verdict, Outcomes
    <2> QED
        BY <1>2, <1>3, <1>4, <1>6, <2>1, TaskEnds
<1> QED
    BY <1>5, <1>6

LEMMA CInvStep == CInv /\ TypeOK /\ [CmdNext]_cvars => CInv'
<1> SUFFICES ASSUME CInv, TypeOK, [CmdNext]_cvars PROVE CInv'
    OBVIOUS
<1>1. CASE UNCHANGED cvars
    BY <1>1 DEF cvars, CInv, Proper, Counted, ChecksDone, Prechecks, ChecksMatch,
                GoalKnown, GoalOf
<1>2. CASE CmdNext
    <2>1. PICK p \in Procs :
              \/ \E r \in Requests : Launch(p, r) \/ Refuse(p, r)
              \/ Proceed(p)
              \/ Kill(p)
        BY <1>2 DEF CmdNext
    <2>2. cmd[p] \in Commands /\ Proper(cmd[p])
        BY DEF CInv
    <2>3. Len(cmd[p].results) \in Nat /\ Len(cmd[p].names) \in Nat
        BY <2>2, LenProperties DEF Commands
    <2>4. CASE \E r \in Requests : Launch(p, r) \/ Refuse(p, r)
        BY <2>4, LaunchProper, RefuseProper
    <2>5. CASE CheckTarget(p)
        BY <2>5, CheckProper
    <2>6. CASE EndChecks(p)
        <3>1. PICK s \in {"index", "task"} : cmd' = [cmd EXCEPT ![p].stage = s]
            BY <2>6 DEF EndChecks, Enter
        <3> QED
            BY <2>6, <3>1, StageMoves DEF EndChecks
    <2>7. CASE \E idx \in Indexes : ReadIndex(p, idx)
        BY <2>7, ReadIndexProper
    <2>8. CASE ReadIndexFails(p) \/ DisplayFails(p)
        BY <2>8, StageMoves DEF ReadIndexFails, DisplayFails, Finish
    <2>9. CASE Report(p)
        <3>1. PICK b \in BOOLEAN : Finish(p, b)
            BY <2>9 DEF Report
        <3> QED
            BY <3>1, StageMoves DEF Finish
    <2>10. CASE Decide(p)
        BY <2>10, DecideProper
    <2>11. CASE FetchFails(p)
        BY <2>2, <2>11, TaskEnds DEF FetchFails, Proper, Counted, Outcomes
    <2>12. CASE StartInstall(p)
        BY <2>2, <2>12, StageMoves DEF StartInstall, Enter, Proper, Counted
    <2>13. CASE StartRemove(p)
        <3>1. Len(cmd[p].results) < Len(cmd[p].names) /\ cmd[p].stage = "task"
            BY <2>3, <2>13 DEF StartRemove, At
        <3>2. Result(p, "failed") \/ Enter(p, "apply")
            BY <2>13 DEF StartRemove
        <3>3. CASE Result(p, "failed")
            BY <3>1, <3>3, TaskEnds DEF Outcomes
        <3>4. CASE Enter(p, "apply")
            BY <3>1, <3>4, StageMoves DEF Enter
        <3> QED
            BY <3>2, <3>3, <3>4
    <2>14. CASE Apply(p)
        BY <2>14 DEF Apply, CInv, Proper, Counted, ChecksDone, Prechecks, ChecksMatch,
                     GoalKnown, GoalOf
    <2>15. CASE Collect(p)
        BY <2>2, <2>15, TaskEnds DEF Collect, Proper, Counted, Outcomes
    <2>16. CASE Kill(p)
        BY <2>16, StageMoves DEF Kill, Enter
    <2> QED
        BY <2>1, <2>4, <2>5, <2>6, <2>7, <2>8, <2>9, <2>10, <2>11, <2>12, <2>13,
           <2>14, <2>15, <2>16 DEF Proceed
<1> QED
    BY <1>1, <1>2

(* The commands change the plugin directory only by the calls PluginStore  *)
(* describes, with arguments it allows: everything proved of any number of *)
(* concurrent calls holds of any number of concurrent commands.            *)
THEOREM CommandsAreCalls == CmdSpec => Spec
<1>1. CmdInit => Init /\ IInv /\ CInv
    BY IInvInit, CInvInit DEF CmdInit
<1>2. IInv /\ CInv /\ [CmdNext]_cvars => IInv' /\ CInv' /\ [Next]_vars
    <2> SUFFICES ASSUME IInv, CInv, [CmdNext]_cvars
                 PROVE  IInv' /\ CInv' /\ [Next]_vars
        OBVIOUS
    <2>1. [Next]_vars
        BY StoreStep
    <2> QED
        BY <2>1, IInvStep, CInvStep DEF IInv
<1> QED
    BY <1>1, <1>2, PTL DEF CmdSpec, Spec

-----------------------------------------------------------------------------
(* Commands that overlapped and all succeeded.                             *)

(* The directory has plugin n, or the user gave it up. *)
Promised(n) == n \in targeted \/ HasCopy(n)

(* The results tell what the jobs did; later jobs have not started.        *)
JobsFollow ==
    \A p \in Procs : \A i \in 1..MaxTargets :
        LET c == cmd[p]
            j == <<p, i>>
        IN  /\ i > Len(c.results) + 1 => pc[j] = "idle"
            /\ i = Len(c.results) + 1 /\ c.stage \notin {"apply", "killed"} => pc[j] = "idle"
            /\ i <= Len(c.results) =>
                  /\ c.results[i] = "changed" => pc[j] = "changed"
                  /\ c.results[i] \in {"skipped", "unchanged"} => pc[j] = "idle"

(* The job of an install, reinstall or update: it is about the plugin of   *)
(* the task, and has put it in place when it deletes the backup.           *)
InstallsFollow ==
    \A p \in Procs : cmd[p].stage = "apply" /\ cmd[p].op # "remove" =>
        LET j == Job(p)
        IN  /\ bundle[j].plugin = Goal(p) \/ pc[j] = "failed"
            /\ via[j] = j /\ pc[j] \notin {"idle", "remove"}
            /\ pc[j] \in {"dropOld", "changed"} => Promised(Goal(p))

(* What was found installed, or was dealt with, is there. *)
TargetsMet ==
    \A p \in Procs : cmd[p].op # "remove" =>
        \A i \in 1..Len(cmd[p].names) : cmd[p].names[i][1] = "dest" =>
            /\ i <= Len(cmd[p].checks) /\ cmd[p].checks[i].state = "loaded"
                  => Promised(cmd[p].names[i][2])
            /\ i <= Len(cmd[p].results) /\ cmd[p].results[i] # "failed"
                  => Promised(cmd[p].names[i][2])

(* Who reports success has a result for every target, and no failure.      *)
ReportsTrue ==
    \A p \in Procs : cmd[p].stage = "done" /\ cmd[p].ok =>
        /\ Len(cmd[p].results) = Len(cmd[p].names)
        /\ \A i \in 1..Len(cmd[p].results) : cmd[p].results[i] # "failed"

OInv == JobsFollow /\ InstallsFollow /\ TargetsMet /\ ReportsTrue

(* A call changes the state and the goal of no other job. *)
LEMMA OwnStep ==
    ASSUME TypeOK, NEW j \in Jobs, Start(j) \/ Step(j) \/ Crash(j)
    PROVE  \A k \in Jobs \ {j} : pc'[k] = pc[k] /\ bundle'[k] = bundle[k] /\ via'[k] = via[k]
<1> USE DEF TypeOK, Goto, RemovalDone, Dirs
<1>1. CASE Start(j)
    BY <1>1 DEF Start, BeginInstall, MkdirFails, BeginRemove, BeginRemoveOld
<1>2. CASE Step(j)
    BY <1>2 DEF Step, CopyFile, StatDest, Publish, SetAside, SwapIn, SwapInFails,
                Rollback, Abandon, OpenVictim, VictimAbsent, Unlink, Rmdir, RemovalFails
<1>3. CASE Crash(j)
    BY <1>3 DEF Crash
<1> QED
    BY <1>1, <1>2, <1>3

(* A plugin that is there stays, unless the user gives it up. *)
LEMMA PromiseKept ==
    ASSUME IInv, CopiesSecure, [Next]_vars, NEW n \in Plugins, Promised(n)
    PROVE  Promised(n)'
<1>1. targeted \subseteq targeted'
    BY DEF Next, Start, Step, vars, BeginInstall, BeginRemove, BeginRemoveOld,
           MkdirFails, CopyFile, StatDest, Publish, SetAside, SwapIn, SwapInFails,
           Rollback, Abandon, OpenVictim, VictimAbsent, Unlink, Rmdir,
           RemovalFails, Crash
<1>2. CASE n \in targeted
    BY <1>1, <1>2 DEF Promised
<1>3. CASE n \notin targeted'
    <2>1. HasCopy(n) /\ n \notin targeted
        BY <1>1, <1>3 DEF Promised
    <2>2. CASE UNCHANGED vars
        BY <2>1, <2>2 DEF vars, HasCopy, Whole, Promised
    <2>3. CASE Next
        <3>1. PICK d \in Dirs : Secure(d, n)
            BY <2>1 DEF CopiesSecure
        <3>2. TypeOK'
            BY TypeStep DEF IInv
        <3>3. PICK d2 \in Dirs : Secure(d2, n)'
            BY <1>3, <2>3, <3>1, <3>2, SecureKept
        <3> QED
            BY <3>3 DEF Secure, HasCopy, Promised
    <2> QED
        BY <2>2, <2>3
<1>4. CASE n \in targeted'
    BY <1>4 DEF Promised
<1> QED
    BY <1>3, <1>4

(* A job that comes to delete the backup, or succeeds without deleting for *)
(* the user, has put its plugin in place.                                  *)
LEMMA PromiseMade ==
    ASSUME IInv, SInv, CopiesSecure, TypeOK', NEW j \in Jobs, Step(j), via[j] = j,
           pc[j] \notin {"idle", "remove"},
           pc[j] \in {"dropOld", "changed"} => Promised(bundle[j].plugin)
    PROVE  /\ bundle'[j] = bundle[j] /\ via'[j] = j /\ pc'[j] \notin {"idle", "remove"}
           /\ pc[j] # "failed"
           /\ pc'[j] \in {"dropOld", "changed"} => Promised(bundle[j].plugin)'
<1> USE DEF TypeOK, Goto, RemovalDone, Dirs, Deleting
<1>1. TypeOK
    BY DEF IInv
<1>2. /\ bundle'[j] = bundle[j] /\ via'[j] = j /\ pc'[j] \notin {"idle", "remove"}
      /\ pc[j] # "failed"
    BY <1>1 DEF Step, CopyFile, StatDest, Publish, SetAside, SwapIn, SwapInFails,
                Rollback, Abandon, OpenVictim, VictimAbsent, Unlink, Rmdir, RemovalFails
<1>3. CASE Publish(j) \/ SwapIn(j)
    <2>1. Whole(j) /\ files' = files
        BY <1>3 DEF Publish, SwapIn, SInv, CopiesWhole
    <2>2. place'[j] = "dest"
        BY <1>1, <1>3 DEF Publish, SwapIn
    <2> QED
        BY <1>2, <2>1, <2>2 DEF Promised, HasCopy, Whole
<1>4. CASE ~(Publish(j) \/ SwapIn(j))
    <2>1. pc'[j] \in {"dropOld", "changed"} => pc[j] = "dropOld"
        BY <1>1, <1>4 DEF Step, CopyFile, StatDest, SetAside, SwapInFails, Rollback,
                    Abandon, OpenVictim, VictimAbsent, Unlink, Rmdir, RemovalFails
    <2>2. [Next]_vars /\ bundle[j].plugin \in Plugins
        BY <1>1 DEF Next, Bundles
    <2> QED
        BY <1>2, <2>1, <2>2, PromiseKept
<1> QED
    BY <1>2, <1>3, <1>4

(* A step of command p touches no other command, and no job but the one of *)
(* its current task.                                                       *)
LEMMA OwnCommand ==
    ASSUME CInv, TypeOK, NEW p \in Procs,
           \/ \E r \in Requests : Launch(p, r) \/ Refuse(p, r)
           \/ Proceed(p)
           \/ Kill(p)
    PROVE  /\ \A q \in Procs \ {p} : cmd'[q] = cmd[q]
           /\ \/ UNCHANGED vars
              \/ /\ Job(p) \in Jobs
                 /\ \A k \in Jobs \ {Job(p)} : pc'[k] = pc[k] /\ bundle'[k] = bundle[k]
                                               /\ via'[k] = via[k]
<1>1. CASE \E r \in Requests : Launch(p, r) \/ Refuse(p, r)
    BY <1>1 DEF Launch, Refuse, CInv
<1>2. CASE \/ CheckTarget(p) \/ EndChecks(p) \/ ReadIndexFails(p)
           \/ \E idx \in Indexes : ReadIndex(p, idx)
           \/ Decide(p) \/ FetchFails(p) \/ Collect(p) \/ Report(p) \/ DisplayFails(p)
    BY <1>2 DEF CheckTarget, EndChecks, ReadIndexFails, ReadIndex, Decide, FetchFails,
                Collect, Report, DisplayFails, Enter, Result, Finish, CInv
<1>3. CASE StartInstall(p)
    <2>1. Job(p) \in Jobs /\ Goal(p) \in Plugins /\ cmd[p].index[Goal(p)] \in Versions
        <3>1. cmd[p].stage = "fetch" /\ cmd[p].op # "remove"
            BY <1>3 DEF StartInstall, CInv, Proper, GoalKnown
        <3>2. Job(p) \in Jobs /\ At(p) \in 1..Len(cmd[p].names)
            BY <3>1, JobsOfTasks DEF CInv, Proper, Counted
        <3>3. Goal(p) \in Plugins
            BY <3>1, <3>2, GoalIsPlugin
        <3>4. cmd[p].index[Goal(p)] \in Versions
            BY <3>1, <3>3 DEF CInv, Proper, GoalKnown, GoalOf, Goal, At, Commands, Indexes
        <3> QED
            BY <3>2, <3>3, <3>4
    <2>2. Start(Job(p))
        BY <1>3, <2>1 DEF StartInstall, Start
    <2>3. \A q \in Procs \ {p} : cmd'[q] = cmd[q]
        BY <1>3 DEF StartInstall, Enter, CInv
    <2> QED
        BY <2>1, <2>2, <2>3, OwnStep
<1>4. CASE StartRemove(p)
    <2>1. Job(p) \in Jobs /\ cmd[p].names[At(p)] \in Entries
        <3>1. Len(cmd[p].results) < Len(cmd[p].names)
            BY <1>4, LenProperties DEF StartRemove, At, CInv, Commands
        <3>2. Job(p) \in Jobs /\ At(p) \in 1..Len(cmd[p].names)
            BY <3>1, JobsOfTasks
        <3> QED
            BY <3>2, ElementOfSeq DEF CInv, Commands
    <2>2. UNCHANGED vars \/ Start(Job(p))
        BY <1>4, <2>1 DEF StartRemove, Start, Entries
    <2>3. \A q \in Procs \ {p} : cmd'[q] = cmd[q]
        BY <1>4 DEF StartRemove, Enter, Result, CInv
    <2> QED
        BY <2>1, <2>2, <2>3, OwnStep
<1>5. CASE Apply(p) \/ Kill(p)
    <2>1. cmd[p].stage = "apply" => Job(p) \in Jobs
        BY JobsOfTasks DEF CInv, Proper, Counted
    <2>2. UNCHANGED vars \/ (Job(p) \in Jobs /\ (Step(Job(p)) \/ Crash(Job(p))))
        BY <1>5, <2>1 DEF Apply, Kill
    <2>3. \A q \in Procs \ {p} : cmd'[q] = cmd[q]
        BY <1>5 DEF Apply, Kill, Enter, CInv
    <2> QED
        BY <2>2, <2>3, OwnStep
<1> QED
    BY <1>1, <1>2, <1>3, <1>4, <1>5 DEF Proceed

(* How a step of command p relates its results to its jobs. *)
LEMMA ResultsMove ==
    ASSUME CInv, TypeOK, JobsFollow, NEW p \in Procs,
           \/ \E r \in Requests : Launch(p, r) \/ Refuse(p, r)
           \/ Proceed(p)
           \/ Kill(p)
    PROVE  LET c == cmd[p]
               d == cmd'[p]
               j == Job(p)
           IN  \/ /\ d.results = c.results /\ UNCHANGED vars
                  /\ d.stage \notin {"apply", "killed"} => c.stage \notin {"apply", "killed"}
               \/ d.results = c.results /\ d.stage \in {"apply", "killed"}
               \/ \E o \in Outcomes :
                     /\ d.results = Append(c.results, o) /\ UNCHANGED vars
                     /\ d.stage = "task" /\ Len(c.results) < Len(c.names)
                     /\ o = "changed" => pc[j] = "changed"
                     /\ o \in {"skipped", "unchanged"} => pc[j] = "idle"
<1> DEFINE c == cmd[p]
           d == cmd'[p]
<1>1. c \in Commands /\ Proper(c) /\ Len(c.results) \in Nat /\ Len(c.names) \in Nat
    BY LenProperties DEF CInv, Commands
<1>2. CASE \E r \in Requests : Launch(p, r) \/ Refuse(p, r)
    <2>1. UNCHANGED vars /\ c.stage = "ready" /\ c.results = <<>>
        BY <1>1, <1>2 DEF Launch, Refuse, Proper, Counted
    <2>2. d.results = <<>>
        BY <1>2, LaunchProper, RefuseProper
    <2> QED
        BY <2>1, <2>2
<1>3. CASE \/ CheckTarget(p) \/ EndChecks(p) \/ ReadIndexFails(p)
           \/ \E idx \in Indexes : ReadIndex(p, idx)
           \/ Report(p) \/ DisplayFails(p)
    <2>1. CASE CheckTarget(p)
        BY <1>1, <2>1 DEF CheckTarget, CInv, Commands
    <2>2. CASE EndChecks(p) \/ ReadIndexFails(p) \/ Report(p) \/ DisplayFails(p)
        BY <1>1, <2>2 DEF EndChecks, ReadIndexFails, Report, DisplayFails, Enter, Finish,
                          CInv, Commands
    <2>3. CASE \E idx \in Indexes : ReadIndex(p, idx)
        BY <1>1, <2>3 DEF ReadIndex, CInv, Commands
    <2> QED
        BY <1>3, <2>1, <2>2, <2>3
<1>4. CASE Decide(p)
    <2>1. PICK k \in Relied(p) : IF Verdict(p, k) = "fetch" THEN Enter(p, "fetch")
                                 ELSE Result(p, Verdict(p, k))
        BY <1>4 DEF Decide
    <2>2. c.stage = "task" /\ Len(c.results) < Len(c.names) /\ UNCHANGED vars
        BY <1>1, <1>4 DEF Decide, At
    <2>3. CASE Verdict(p, k) = "fetch"
        BY <1>1, <2>1, <2>2, <2>3 DEF Enter, CInv, Commands
    <2>4. CASE Verdict(p, k) # "fetch"
        <3>1. Verdict(p, k) \in Outcomes \ {"changed"}
            BY <2>4 DEF Verdict, Outcomes
        <3>2. d.results = Append(c.results, Verdict(p, k)) /\ d.stage = "task"
            BY <1>1, <2>1, <2>4 DEF Result, CInv, Commands
        <3>3. pc[Job(p)] = "idle"
            <4>1. At(p) \in 1..MaxTargets
                BY <2>2, JobsOfTasks
            <4> QED
                BY <1>1, <2>2, <4>1 DEF JobsFollow, At, Job
        <3> QED
            BY <2>2, <3>1, <3>2, <3>3
    <2> QED
        BY <2>3, <2>4
<1>5. CASE FetchFails(p)
    <2>1. d.results = Append(c.results, "failed") /\ d.stage = "task"
        BY <1>1, <1>5 DEF FetchFails, Result, CInv, Commands
    <2> QED
        BY <1>1, <1>5, <2>1 DEF FetchFails, Proper, Counted, Outcomes
<1>6. CASE Collect(p)
    <2>1. d.results = Append(c.results, pc[Job(p)]) /\ d.stage = "task"
        BY <1>1, <1>6 DEF Collect, Result, CInv, Commands
    <2> QED
        BY <1>1, <1>6, <2>1 DEF Collect, Proper, Counted, Outcomes
<1>7. CASE StartInstall(p) \/ Apply(p) \/ Kill(p)
    BY <1>1, <1>7 DEF StartInstall, Apply, Kill, Enter, CInv, Commands
<1>8. CASE StartRemove(p)
    <2>1. CASE Enter(p, "apply")
        BY <1>1, <2>1 DEF Enter, CInv, Commands
    <2>2. CASE Result(p, "failed") /\ UNCHANGED vars
        <3>1. d.results = Append(c.results, "failed") /\ d.stage = "task"
            BY <1>1, <2>2 DEF Result, CInv, Commands
        <3> QED
            BY <1>1, <1>8, <2>2, <3>1 DEF StartRemove, At, Outcomes
    <2> QED
        BY <1>8, <2>1, <2>2 DEF StartRemove
<1> QED
    BY <1>2, <1>3, <1>4, <1>5, <1>6, <1>7, <1>8 DEF Proceed

(* What the results of a command say of its jobs stays true. *)
LEMMA JobsFollowStep ==
    ASSUME CInv, TypeOK, JobsFollow, NEW p \in Procs,
           \/ \E r \in Requests : Launch(p, r) \/ Refuse(p, r)
           \/ Proceed(p)
           \/ Kill(p)
    PROVE  JobsFollow'
<1> SUFFICES ASSUME NEW q \in Procs, NEW i \in 1..MaxTargets
             PROVE  LET c == cmd'[q]
                        j == <<q, i>>
                    IN  /\ i > Len(c.results) + 1 => pc'[j] = "idle"
                        /\ i = Len(c.results) + 1 /\ c.stage \notin {"apply", "killed"}
                              => pc'[j] = "idle"
                        /\ i <= Len(c.results) =>
                              /\ c.results[i] = "changed" => pc'[j] = "changed"
                              /\ c.results[i] \in {"skipped", "unchanged"} => pc'[j] = "idle"
    BY DEF JobsFollow
<1> DEFINE j == <<q, i>>
<1>1. j \in Jobs /\ i \in Nat /\ Len(cmd[q].results) \in Nat
    BY TasksAssumption, LenProperties DEF CInv, Commands
<1>2. CASE q # p \/ i # At(p)
    <2>1. pc'[j] = pc[j]
        <3>1. j # Job(p)
            BY <1>2 DEF Job
        <3> QED
            BY <1>1, <3>1, OwnCommand DEF vars
    <2>2. CASE q # p
        <3>1. cmd'[q] = cmd[q]
            BY <2>2, OwnCommand
        <3> QED
            BY <2>1, <3>1 DEF JobsFollow
    <2>3. CASE q = p /\ cmd'[p].results = cmd[p].results
        BY <1>1, <1>2, <2>1, <2>3 DEF JobsFollow, At
    <2>4. CASE q = p /\ \E o \in Outcomes :
                   /\ cmd'[p].results = Append(cmd[p].results, o)
        <3>1. PICK o \in Outcomes : cmd'[p].results = Append(cmd[p].results, o)
            BY <2>4
        <3>2. /\ Len(cmd'[p].results) = Len(cmd[p].results) + 1
              /\ \A k \in 1..Len(cmd[p].results) : cmd'[p].results[k] = cmd[p].results[k]
            BY <3>1, AppendProperties DEF CInv, Commands
        <3> DEFINE l == Len(cmd[p].results)
        <3>3. /\ i > l + 1 => pc[j] = "idle"
              /\ i <= l => /\ cmd[p].results[i] = "changed" => pc[j] = "changed"
                           /\ cmd[p].results[i] \in {"skipped", "unchanged"} => pc[j] = "idle"
            BY <2>4 DEF JobsFollow
        <3>4. i # l + 1
            BY <1>2, <2>4 DEF At
        <3>5. l \in Nat /\ Len(cmd'[q].results) = l + 1 /\ i \in Nat
            BY <1>1, <2>4, <3>2
        <3>6. i >= l + 2 \/ i \in 1..l
            BY <3>4, <3>5
        <3>7. CASE i >= l + 2
            BY <2>1, <3>3, <3>5, <3>7
        <3>8. CASE i \in 1..l
            <4>1. cmd'[q].results[i] = cmd[p].results[i]
                BY <2>4, <3>2, <3>8
            <4>2. ~(i > Len(cmd'[q].results) + 1) /\ i # Len(cmd'[q].results) + 1 /\ i <= l
                BY <3>5, <3>8
            <4> HIDE DEF l
            <4> QED
                BY <2>1, <3>3, <4>1, <4>2
        <3> QED
            BY <3>6, <3>7, <3>8
    <2> QED
        BY <2>2, <2>3, <2>4, ResultsMove
<1>3. CASE q = p /\ i = At(p)
    <2>1. CASE /\ cmd'[p].results = cmd[p].results /\ UNCHANGED vars
               /\ cmd'[p].stage \notin {"apply", "killed"} =>
                     cmd[p].stage \notin {"apply", "killed"}
        BY <1>1, <1>3, <2>1 DEF JobsFollow, At, vars
    <2>2. CASE cmd'[p].results = cmd[p].results /\ cmd'[p].stage \in {"apply", "killed"}
        BY <1>1, <1>3, <2>2 DEF At
    <2>3. CASE \E o \in Outcomes :
                  /\ cmd'[p].results = Append(cmd[p].results, o) /\ UNCHANGED vars
                  /\ o = "changed" => pc[Job(p)] = "changed"
                  /\ o \in {"skipped", "unchanged"} => pc[Job(p)] = "idle"
        <3>1. PICK o \in Outcomes :
                  /\ cmd'[p].results = Append(cmd[p].results, o) /\ UNCHANGED vars
                  /\ o = "changed" => pc[Job(p)] = "changed"
                  /\ o \in {"skipped", "unchanged"} => pc[Job(p)] = "idle"
            BY <2>3
        <3>2. /\ Len(cmd'[p].results) = Len(cmd[p].results) + 1
              /\ cmd'[p].results[Len(cmd[p].results) + 1] = o
            BY <3>1, AppendProperties DEF CInv, Commands
        <3> QED
            BY <1>1, <1>3, <3>1, <3>2 DEF At, Job, vars
    <2> QED
        BY <1>3, <2>1, <2>2, <2>3, ResultsMove
<1> QED
    BY <1>2, <1>3

(* Who is in a call to replace a plugin has made it, or makes it now. *)
LEMMA CallsHow ==
    ASSUME CInv, NEW p \in Procs, cmd'[p].stage = "apply", cmd'[p].op # "remove",
           \/ \E r \in Requests : Launch(p, r) \/ Refuse(p, r)
           \/ Proceed(p)
           \/ Kill(p)
    PROVE  \/ Apply(p)
           \/ /\ StartInstall(p) /\ cmd'[p].names = cmd[p].names
              /\ cmd'[p].checks = cmd[p].checks /\ cmd'[p].results = cmd[p].results
              /\ cmd'[p].op = cmd[p].op
<1>1. cmd[p] \in Commands
    BY DEF CInv
<1>2. ~(\E r \in Requests : Launch(p, r) \/ Refuse(p, r))
    BY LaunchProper, RefuseProper
<1>3. ~(CheckTarget(p) \/ EndChecks(p) \/ ReadIndexFails(p)
        \/ Report(p) \/ DisplayFails(p) \/ Kill(p))
    BY <1>1 DEF CheckTarget, EndChecks, ReadIndexFails, Report, DisplayFails, Kill,
                Enter, Finish, CInv, Commands
<1>4. ~(\E idx \in Indexes : ReadIndex(p, idx))
    <2> SUFFICES ASSUME NEW idx \in Indexes, ReadIndex(p, idx) PROVE FALSE
        OBVIOUS
    <2>1. PICK names : cmd' = [cmd EXCEPT ![p].stage = "task", ![p].index = idx, ![p].names = names]
        BY DEF ReadIndex
    <2>2. cmd'[p].stage = "task"
        BY <1>1, <2>1 DEF CInv, Commands
    <2> QED
        BY <2>2
<1>5. ~(Decide(p) \/ FetchFails(p) \/ Collect(p))
    BY <1>1 DEF Decide, FetchFails, Collect, Enter, Result, CInv, Commands
<1>6. ~StartRemove(p)
    BY <1>1 DEF StartRemove, Enter, Result, CInv, Commands
<1>7. StartInstall(p) => /\ cmd'[p].names = cmd[p].names
                         /\ cmd'[p].checks = cmd[p].checks
                         /\ cmd'[p].results = cmd[p].results
                         /\ cmd'[p].op = cmd[p].op
    BY <1>1 DEF StartInstall, Enter, CInv, Commands
<1> QED
    BY <1>2, <1>3, <1>4, <1>5, <1>6, <1>7 DEF Proceed

(* A command whose call is under way made it for its task. *)
LEMMA InstallsFollowStep ==
    ASSUME IInv, SInv, CopiesSecure, CInv, TypeOK', InstallsFollow, NEW p \in Procs,
           \/ \E r \in Requests : Launch(p, r) \/ Refuse(p, r)
           \/ Proceed(p)
           \/ Kill(p)
    PROVE  InstallsFollow'
<1>1. TypeOK /\ [Next]_vars
    BY StoreStep DEF IInv, CmdNext
<1>2. ASSUME NEW n \in Plugins PROVE Promised(n) => Promised(n)'
    BY <1>1, <1>2, PromiseKept
<1> DEFINE Follows(q) == LET j == Job(q)
                         IN  /\ bundle[j].plugin = Goal(q) \/ pc[j] = "failed"
                             /\ via[j] = j /\ pc[j] \notin {"idle", "remove"}
                             /\ pc[j] \in {"dropOld", "changed"} => Promised(Goal(q))
<1> SUFFICES ASSUME NEW q \in Procs, cmd'[q].stage = "apply", cmd'[q].op # "remove"
             PROVE  Follows(q)'
    BY DEF InstallsFollow
<1>3. CASE cmd'[q] = cmd[q]
    <2>1. Job(q)' = Job(q) /\ Goal(q)' = Goal(q)
        BY <1>3 DEF Job, Goal, At
    <2>2. Job(q) \in Jobs /\ Goal(q) \in Plugins
        <3>1. Job(q) \in Jobs /\ At(q) \in 1..Len(cmd[q].names)
            BY <1>3, JobsOfTasks DEF CInv, Proper, Counted
        <3> QED
            BY <1>3, <3>1, GoalIsPlugin
    <2>3. Follows(q)
        BY <1>3 DEF InstallsFollow
    <2>4. Promised(Goal(q)) => Promised(Goal(q))'
        <3>1. PICK n \in Plugins : n = Goal(q)
            BY <2>2
        <3>2. Promised(n) => Promised(n)'
            BY <1>2
        <3> QED
            BY <2>1, <3>1, <3>2 DEF Promised, HasCopy, Whole
    <2>5. CASE /\ pc'[Job(q)] = pc[Job(q)] /\ bundle'[Job(q)] = bundle[Job(q)]
               /\ via'[Job(q)] = via[Job(q)]
        BY <2>1, <2>3, <2>4, <2>5
    <2>6. CASE q = p /\ Apply(p)
        <3>1. PICK j \in Jobs : j = Job(q)
            BY <2>2
        <3>2. Step(j)
            BY <2>6, <3>1 DEF Apply
        <3>3. pc[j] # "failed"
            BY <3>2 DEF Step, CopyFile, StatDest, Publish, SetAside, SwapIn, SwapInFails,
                        Rollback, Abandon, OpenVictim, VictimAbsent, Unlink, Rmdir,
                        RemovalFails, Deleting
        <3>4. bundle[j].plugin = Goal(q)
            BY <2>3, <3>1, <3>3
        <3>5. /\ bundle'[j] = bundle[j] /\ via'[j] = j /\ pc'[j] \notin {"idle", "remove"}
              /\ pc'[j] \in {"dropOld", "changed"} => Promised(bundle[j].plugin)'
            BY <1>1, <2>3, <3>1, <3>2, <3>4, PromiseMade
        <3>6. bundle'[j].plugin = Goal(q)'
            BY <2>1, <3>4, <3>5
        <3>7. Promised(bundle[j].plugin)' <=> Promised(Goal(q))'
            BY <3>6 DEF Promised, HasCopy
        <3> QED
            BY <2>1, <3>1, <3>5, <3>6, <3>7
    <2>7. CASE q # p
        <3>1. Job(q) # Job(p)
            BY <2>7 DEF Job
        <3> QED
            BY <1>1, <2>2, <2>5, <3>1, OwnCommand DEF vars
    <2>8. CASE q = p /\ StartInstall(p)
        BY <1>3, <2>8 DEF StartInstall, Enter
    <2> QED
        BY <2>6, <2>7, <2>8, CallsHow
<1>4. CASE q = p /\ StartInstall(p)
    <2>1. /\ cmd'[p].names = cmd[p].names /\ cmd'[p].checks = cmd[p].checks
          /\ cmd'[p].results = cmd[p].results /\ cmd'[p].op = cmd[p].op
        BY <1>4, CallsHow DEF StartInstall, Apply
    <2>2. Job(p)' = Job(p) /\ Goal(p)' = Goal(p)
        BY <2>1 DEF Job, Goal, At
    <2>3. Job(p) \in Jobs
        BY <1>4, JobsOfTasks DEF StartInstall, CInv, Proper, Counted
    <2>4. /\ pc[Job(p)] = "idle" /\ via[Job(p)] = Job(p)
          /\ via' = via
          /\ \/ pc'[Job(p)] = "copy" /\ bundle'[Job(p)].plugin = Goal(p)
             \/ pc'[Job(p)] = "failed"
        BY <1>1, <1>4, <2>3 DEF StartInstall, BeginInstall, MkdirFails, Goto, IInv,
                                IdleIsBlank, TypeOK, Dirs
    <2> QED
        BY <1>4, <2>2, <2>4
<1>5. CASE q = p /\ Apply(p)
    BY <1>3, <1>5 DEF Apply
<1>6. CASE q # p
    BY <1>1, <1>3, <1>6, OwnCommand
<1> QED
    BY <1>4, <1>5, <1>6, CallsHow

(* A plugin that a look-up loads is there. *)
LEMMA FoundIsPromised ==
    ASSUME IInv, NEW n \in Plugins, NEW k \in Lookups(<<"dest", n>>), k.state = "loaded"
    PROVE  Promised(n)
<1>1. PICK d \in Named(<<"dest", n>>) : TRUE
    BY DEF Lookups, Check
<1>2. d \in Dirs /\ place[d] = "dest" /\ bundle[d].plugin = n
    BY DEF Named, InstalledAt
<1> QED
    BY <1>2 DEF IInv, InstalledIsWhole, Promised, HasCopy

(* What a task says of a target it did not fail is so. *)
LEMMA DealtWith ==
    ASSUME IInv, CInv, InstallsFollow, TargetsMet, NEW p \in Procs, NEW o \in Outcomes,
           Decide(p) \/ FetchFails(p) \/ Collect(p), Result(p, o),
           o # "failed", cmd[p].op # "remove",
           At(p) \in 1..Len(cmd[p].names), cmd[p].names[At(p)][1] = "dest"
    PROVE  Promised(cmd[p].names[At(p)][2])
<1> DEFINE c == cmd[p]
           e == c.names[At(p)]
<1>1. /\ c \in Commands /\ Proper(c) /\ TypeOK /\ e \in Entries
      /\ Len(c.results) \in Nat /\ Len(c.checks) \in Nat
    BY LenProperties, ElementOfSeq DEF CInv, Commands, IInv
<1>2. e[2] \in Plugins /\ e = <<"dest", e[2]>>
    BY <1>1 DEF Entries
<1>3. cmd'[p].results = Append(c.results, o) /\ cmd'[p].stage = "task"
    BY <1>1 DEF Result, CInv, Commands
<1>4. ASSUME NEW x \in Outcomes, Result(p, x) \/ cmd'[p].results = Append(c.results, x)
      PROVE  x = o
    <2>1. c.results \in Seq(Outcomes) /\ cmd'[p].results = Append(c.results, x)
        <3>1. Result(p, x) => cmd'[p].results = Append(c.results, x)
            BY <1>1 DEF Result, CInv, Commands
        <3> QED
            BY <1>1, <1>4, <3>1 DEF Commands
    <2>2. /\ Append(c.results, x)[Len(c.results) + 1] = x
          /\ Append(c.results, o)[Len(c.results) + 1] = o
        BY <2>1, AppendProperties
    <2> QED
        BY <1>3, <2>1, <2>2
<1>5. CASE Decide(p)
    <2>1. PICK k \in Relied(p) : IF Verdict(p, k) = "fetch" THEN Enter(p, "fetch")
                                 ELSE Result(p, Verdict(p, k))
        BY <1>5 DEF Decide
    <2>2. c.stage = "task"
        BY <1>5 DEF Decide
    <2>3. Verdict(p, k) # "fetch"
        BY <1>1, <1>3, <2>1 DEF Enter, CInv, Commands
    <2>4. Verdict(p, k) \in Outcomes
        BY <2>3 DEF Verdict, Outcomes
    <2>5. Verdict(p, k) = o
        <3>1. Result(p, Verdict(p, k))
            BY <2>1, <2>3
        <3> QED
            BY <1>4, <2>4, <3>1
    <2>6. /\ k \in Checks
          /\ c.op # "install" => k = c.checks[At(p)]
          /\ c.op = "install" =>
                \/ k \in Lookups(e)
                \/ \E i \in 1..Len(c.checks) : k = c.checks[i] /\ c.names[i] = e
        BY <1>1, <2>2, ReliedIsGoal
    <2>7. k.state = "loaded"
        <3>1. k.state \in {"absent", "loaded", "error"}
            BY <2>6 DEF Checks
        <3> QED
            BY <2>3, <2>5, <3>1 DEF Verdict
    <2>8. CASE k \in Lookups(e)
        BY <1>2, <2>7, <2>8, FoundIsPromised
    <2>9. CASE \E i \in 1..Len(c.checks) : k = c.checks[i] /\ c.names[i] = e
        <3>1. PICK i \in 1..Len(c.checks) : k = c.checks[i] /\ c.names[i] = e
            BY <2>9
        <3>2. i \in 1..Len(c.names) /\ i <= Len(c.checks)
            BY <1>1, <3>1, LenProperties DEF Proper, ChecksDone, Commands
        <3> QED
            BY <2>7, <3>1, <3>2 DEF TargetsMet
    <2>10. CASE c.op # "install"
        <3>1. Prechecks(c)
            BY <1>1, <2>10 DEF Prechecks, Commands, Ops
        <3>2. At(p) <= Len(c.checks)
            BY <1>1, <2>2, <3>1 DEF Proper, ChecksDone
        <3> QED
            BY <2>6, <2>7, <2>10, <3>2 DEF TargetsMet
    <2> QED
        BY <2>6, <2>8, <2>9, <2>10
<1>6. CASE FetchFails(p)
    <2>1. cmd'[p].results = Append(c.results, "failed")
        BY <1>1, <1>6 DEF FetchFails, Result, CInv, Commands
    <2> QED
        BY <1>4, <2>1 DEF Outcomes
<1>7. CASE Collect(p)
    <2>1. /\ cmd'[p].results = Append(c.results, pc[Job(p)])
          /\ pc[Job(p)] \in {"changed", "failed"} /\ c.stage = "apply"
        BY <1>1, <1>7 DEF Collect, Result, CInv, Commands
    <2>2. pc[Job(p)] = "changed"
        BY <1>4, <2>1 DEF Outcomes
    <2>3. Promised(Goal(p))
        BY <2>1, <2>2 DEF InstallsFollow
    <2>4. Goal(p) = e[2]
        <3>1. CASE c.op # "install"
            <4>1. Prechecks(c)
                BY <1>1, <3>1 DEF Prechecks, Commands, Ops
            <4>2. At(p) \in 1..Len(c.checks)
                BY <1>1, <2>1, <4>1 DEF Proper, ChecksDone
            <4> QED
                BY <1>1, <3>1, <4>2 DEF Proper, ChecksMatch, Goal
        <3>2. CASE c.op = "install"
            BY <3>2 DEF Goal
        <3> QED
            BY <3>1, <3>2
    <2> QED
        BY <2>3, <2>4
<1> QED
    BY <1>5, <1>6, <1>7

(* The ways in which a step changes the targets, checks and results of a   *)
(* command.                                                                *)
LEMMA TargetsMove ==
    ASSUME CInv, NEW p \in Procs,
           \/ \E r \in Requests : Launch(p, r) \/ Refuse(p, r)
           \/ Proceed(p)
           \/ Kill(p)
    PROVE  LET c == cmd[p]
               d == cmd'[p]
           IN  \/ d.checks = <<>> /\ d.results = <<>>
               \/ /\ d.names = c.names /\ d.op = c.op
                  /\ \/ d.checks = c.checks /\ d.results = c.results
                     \/ /\ CheckTarget(p) /\ d.results = c.results
                        /\ \E k \in Lookups(c.names[Len(c.checks) + 1]) :
                              d.checks = Append(c.checks, k)
                     \/ /\ d.checks = c.checks
                        /\ Len(c.results) < Len(c.names)
                        /\ \E o \in Outcomes :
                              /\ Result(p, o) /\ d.results = Append(c.results, o)
                              /\ \/ Decide(p) \/ FetchFails(p) \/ Collect(p)
                                 \/ c.op = "remove"
<1> DEFINE c == cmd[p]
           d == cmd'[p]
<1>1. c \in Commands /\ Proper(c) /\ Len(c.results) \in Nat /\ Len(c.names) \in Nat
    BY LenProperties DEF CInv, Commands
<1>2. CASE \E r \in Requests : Launch(p, r) \/ Refuse(p, r)
    BY <1>2, LaunchProper, RefuseProper
<1>3. CASE CheckTarget(p)
    BY <1>1, <1>3 DEF CheckTarget, CInv, Commands
<1>4. CASE \/ EndChecks(p) \/ ReadIndexFails(p) \/ Report(p) \/ DisplayFails(p)
           \/ StartInstall(p) \/ Apply(p) \/ Kill(p)
    BY <1>1, <1>4 DEF EndChecks, ReadIndexFails, Report, DisplayFails, StartInstall, Apply,
                      Kill, Enter, Finish, CInv, Commands
<1>5. CASE \E idx \in Indexes : ReadIndex(p, idx)
    <2>1. PICK idx \in Indexes : ReadIndex(p, idx)
        BY <1>5
    <2>2. PICK names \in IF c.op = "install" /\ c.all
                         THEN SetToSeqs({<<"dest", n>> : n \in {m \in Plugins : idx[m] # 0}})
                         ELSE {c.names} :
              cmd' = [cmd EXCEPT ![p].stage = "task", ![p].index = idx, ![p].names = names]
        BY <2>1 DEF ReadIndex
    <2>3. /\ d.names = names /\ d.op = c.op
          /\ d.checks = c.checks /\ d.results = c.results
        BY <1>1, <2>2 DEF CInv, Commands
    <2>4. CASE c.op = "install" /\ c.all
        <3>1. c.stage = "index"
            BY <2>1 DEF ReadIndex
        <3>2. c.checks = <<>> /\ c.results = <<>>
            BY <1>1, <2>4, <3>1 DEF Proper, Counted, ChecksDone, Prechecks
        <3> QED
            BY <2>3, <3>2
    <2>5. CASE ~(c.op = "install" /\ c.all)
        BY <2>2, <2>3, <2>5
    <2> QED
        BY <2>4, <2>5
<1>6. ASSUME NEW o \in Outcomes, Result(p, o)
      PROVE  /\ d.names = c.names /\ d.op = c.op /\ d.checks = c.checks
             /\ d.results = Append(c.results, o)
    BY <1>1, <1>6 DEF Result, CInv, Commands
<1>7. CASE Decide(p)
    <2>1. PICK k \in Relied(p) : IF Verdict(p, k) = "fetch" THEN Enter(p, "fetch")
                                 ELSE Result(p, Verdict(p, k))
        BY <1>7 DEF Decide
    <2>2. Len(c.results) < Len(c.names)
        BY <1>1, <1>7 DEF Decide, At
    <2>3. CASE Verdict(p, k) = "fetch"
        BY <1>1, <2>1, <2>3 DEF Enter, CInv, Commands
    <2>4. CASE Verdict(p, k) # "fetch"
        <3>1. Verdict(p, k) \in Outcomes
            BY <2>4 DEF Verdict, Outcomes
        <3> QED
            BY <1>6, <1>7, <2>1, <2>2, <2>4, <3>1
    <2> QED
        BY <2>3, <2>4
<1>8. CASE FetchFails(p)
    <2>1. Result(p, "failed") /\ "failed" \in Outcomes /\ Len(c.results) < Len(c.names)
        BY <1>1, <1>8 DEF FetchFails, Outcomes, Proper, Counted
    <2> QED
        BY <1>6, <1>8, <2>1
<1>9. CASE Collect(p)
    <2>1. /\ Result(p, pc[Job(p)]) /\ pc[Job(p)] \in Outcomes
          /\ Len(c.results) < Len(c.names)
        BY <1>1, <1>9 DEF Collect, Outcomes, Proper, Counted
    <2> QED
        BY <1>6, <1>9, <2>1
<1>10. CASE StartRemove(p)
    <2>1. CASE Enter(p, "apply")
        BY <1>1, <2>1 DEF Enter, CInv, Commands
    <2>2. CASE Result(p, "failed")
        <3>1. /\ "failed" \in Outcomes /\ Len(c.results) < Len(c.names)
              /\ c.op = "remove"
            BY <1>1, <1>10 DEF StartRemove, At, Outcomes
        <3> QED
            BY <1>6, <2>2, <3>1
    <2> QED
        BY <1>10, <2>1, <2>2 DEF StartRemove
<1> QED
    BY <1>2, <1>3, <1>4, <1>5, <1>7, <1>8, <1>9, <1>10 DEF Proceed

(* Targets that were met stay met, and those newly dealt with are met.     *)
LEMMA TargetsMetStep ==
    ASSUME IInv, CopiesSecure, CInv, CInv', InstallsFollow, TargetsMet, NEW p \in Procs,
           \/ \E r \in Requests : Launch(p, r) \/ Refuse(p, r)
           \/ Proceed(p)
           \/ Kill(p)
    PROVE  TargetsMet'
<1>1. TypeOK /\ [Next]_vars
    BY StoreStep DEF IInv, CmdNext
<1>2. ASSUME NEW n \in Plugins PROVE Promised(n) => Promised(n)'
    BY <1>1, <1>2, PromiseKept
<1> SUFFICES ASSUME NEW q \in Procs, cmd'[q].op # "remove",
                    NEW i \in 1..Len(cmd'[q].names), cmd'[q].names[i][1] = "dest",
                    \/ i <= Len(cmd'[q].checks) /\ cmd'[q].checks[i].state = "loaded"
                    \/ i <= Len(cmd'[q].results) /\ cmd'[q].results[i] # "failed"
             PROVE  Promised(cmd[q].names[i][2])'
    BY DEF TargetsMet
<1> DEFINE c == cmd[q]
           d == cmd'[q]
<1>3. d \in Commands /\ c \in Commands /\ Proper(c) /\ Proper(d)
    BY DEF CInv, Proper, Counted, ChecksDone, Prechecks, ChecksMatch, GoalKnown, GoalOf
<1>4. /\ Len(d.names) \in Nat /\ Len(d.results) \in Nat /\ Len(d.checks) \in Nat
      /\ Len(c.names) \in Nat /\ Len(c.results) \in Nat /\ Len(c.checks) \in Nat
      /\ i \in Nat /\ i > 0
    BY <1>3, LenProperties DEF Commands
<1>5. d.names[i] \in Entries /\ d.names[i][2] \in Plugins
    <2>1. d.names[i] \in Entries
        BY <1>3, ElementOfSeq DEF Commands
    <2> QED
        BY <2>1 DEF Entries
<1>6. SUFFICES Promised(d.names[i][2])
    <2>1. PICK n \in Plugins : n = d.names[i][2]
        BY <1>5
    <2>2. Promised(n)'
        BY <1>2, <1>6, <2>1
    <2> QED
        BY <2>1, <2>2 DEF Promised, HasCopy
<1>7. CASE d.names = c.names /\ d.op = c.op /\ d.checks = c.checks /\ d.results = c.results
    BY <1>7 DEF TargetsMet
<1>8. CASE q # p
    BY <1>1, <1>7, <1>8, OwnCommand
<1>9. CASE q = p /\ d.checks = <<>> /\ d.results = <<>>
    BY <1>4, <1>9, EmptySeq
<1>10. CASE /\ q = p /\ d.names = c.names /\ d.op = c.op
            /\ CheckTarget(p) /\ d.results = c.results
            /\ \E k \in Lookups(c.names[Len(c.checks) + 1]) :
                  d.checks = Append(c.checks, k)
    <2>1. PICK k \in Lookups(c.names[Len(c.checks) + 1]) : d.checks = Append(c.checks, k)
        BY <1>10
    <2>2. Len(c.checks) + 1 \in 1..Len(c.names)
        BY <1>4, <1>10 DEF CheckTarget
    <2>3. c.names[Len(c.checks) + 1] \in Entries
        BY <1>3, <2>2, ElementOfSeq DEF Commands
    <2>4. k \in Checks
        BY <1>1, <2>3, LookupsTyped
    <2>5. /\ Len(d.checks) = Len(c.checks) + 1 /\ d.checks[Len(c.checks) + 1] = k
          /\ \A m \in 1..Len(c.checks) : d.checks[m] = c.checks[m]
        BY <1>3, <2>1, <2>4, AppendProperties DEF Commands
    <2>6. CASE i = Len(c.checks) + 1 /\ k.state = "loaded"
        <3>1. d.names[i] = <<"dest", d.names[i][2]>>
            BY <1>5 DEF Entries
        <3> QED
            BY <1>5, <1>10, <2>1, <2>6, <3>1, FoundIsPromised
    <2>7. CASE ~(i = Len(c.checks) + 1 /\ k.state = "loaded")
        BY <1>4, <1>10, <2>5, <2>7 DEF TargetsMet
    <2> QED
        BY <2>6, <2>7
<1>11. CASE /\ q = p /\ d.names = c.names /\ d.op = c.op /\ d.checks = c.checks
            /\ Len(c.results) < Len(c.names)
            /\ \E o \in Outcomes :
                  /\ Result(p, o) /\ d.results = Append(c.results, o)
                  /\ \/ Decide(p) \/ FetchFails(p) \/ Collect(p)
                     \/ c.op = "remove"
    <2>1. PICK o \in Outcomes :
              /\ Result(p, o) /\ d.results = Append(c.results, o)
              /\ Decide(p) \/ FetchFails(p) \/ Collect(p)
        BY <1>11
    <2>2. /\ Len(d.results) = Len(c.results) + 1 /\ d.results[Len(c.results) + 1] = o
          /\ \A m \in 1..Len(c.results) : d.results[m] = c.results[m]
        <3>1. c.results \in Seq(Outcomes)
            BY <1>3 DEF Commands
        <3> QED
            BY <2>1, <3>1, AppendProperties
    <2>3. CASE i = Len(c.results) + 1 /\ o # "failed"
        <3>1. At(p) = i /\ cmd[p].op # "remove" /\ cmd[p].names[At(p)][1] = "dest"
            BY <1>11, <2>3 DEF At
        <3>2. At(p) \in 1..Len(cmd[p].names)
            BY <1>11, <3>1
        <3>3. Promised(cmd[p].names[At(p)][2])
            BY <2>1, <2>3, <3>1, <3>2, DealtWith
        <3> QED
            BY <1>11, <3>1, <3>3
    <2>4. CASE ~(i = Len(c.results) + 1 /\ o # "failed")
        BY <1>4, <1>11, <2>2, <2>4 DEF TargetsMet
    <2> QED
        BY <2>3, <2>4
<1> QED
    BY <1>7, <1>8, <1>9, <1>10, <1>11, TargetsMove

(* A success is reported only by a look at every result. *)
LEMMA ReportsTrueStep ==
    ASSUME CInv, TypeOK, ReportsTrue, NEW p \in Procs,
           \/ \E r \in Requests : Launch(p, r) \/ Refuse(p, r)
           \/ Proceed(p)
           \/ Kill(p)
    PROVE  ReportsTrue'
<1> SUFFICES ASSUME NEW q \in Procs, cmd'[q].stage = "done", cmd'[q].ok
             PROVE  /\ Len(cmd'[q].results) = Len(cmd'[q].names)
                    /\ \A i \in 1..Len(cmd'[q].results) : cmd'[q].results[i] # "failed"
    BY DEF ReportsTrue
<1> DEFINE c == cmd[q]
           d == cmd'[q]
<1>1. c \in Commands /\ Proper(c) /\ Len(c.results) \in Nat /\ Len(c.names) \in Nat
    BY LenProperties DEF CInv, Commands
<1>2. CASE d = c
    BY <1>2 DEF ReportsTrue
<1>3. CASE q # p
    BY <1>2, <1>3, OwnCommand
<1>4. CASE q = p
    <2>1. ~(\E r \in Requests : Launch(p, r) \/ Refuse(p, r))
        BY <1>4, LaunchProper, RefuseProper
    <2>2. ~(\E idx \in Indexes : ReadIndex(p, idx))
        <3> SUFFICES ASSUME NEW idx \in Indexes, ReadIndex(p, idx) PROVE FALSE
            OBVIOUS
        <3>1. PICK names : cmd' = [cmd EXCEPT ![p].stage = "task", ![p].index = idx,
                                              ![p].names = names]
            BY DEF ReadIndex
        <3> QED
            BY <1>1, <1>4, <3>1 DEF CInv, Commands
    <2>3. ~(CheckTarget(p) \/ EndChecks(p) \/ StartInstall(p) \/ Kill(p))
        BY <1>1, <1>4 DEF CheckTarget, EndChecks, StartInstall, Kill, Enter, CInv, Commands
    <2>4. ~(ReadIndexFails(p) \/ DisplayFails(p))
        BY <1>1, <1>4 DEF ReadIndexFails, DisplayFails, Finish, CInv, Commands
    <2>5. ~(Decide(p) \/ FetchFails(p) \/ Collect(p) \/ StartRemove(p))
        BY <1>1, <1>4 DEF Decide, FetchFails, Collect, StartRemove, Enter, Result, CInv, Commands
    <2>6. CASE Apply(p)
        BY <1>2, <2>6 DEF Apply
    <2>7. CASE Report(p)
        <3>1. /\ d.results = c.results /\ d.names = c.names
              /\ d.ok = (\A i \in 1..Len(c.results) : c.results[i] # "failed")
            BY <1>1, <1>4, <2>7 DEF Report, Finish, CInv, Commands
        <3>2. Len(c.results) = Len(c.names)
            BY <1>1, <1>4, <2>7 DEF Report, At, Proper, Counted
        <3> QED
            BY <3>1, <3>2
    <2> QED
        BY <2>1, <2>2, <2>3, <2>4, <2>5, <2>6, <2>7 DEF Proceed
<1> QED
    BY <1>3, <1>4

LEMMA OInvInit == CmdInit => OInv
<1> SUFFICES ASSUME CmdInit PROVE OInv
    OBVIOUS
<1>1. /\ \A p \in Procs : cmd[p] = Idle
      /\ \A j \in Jobs : pc[j] = "idle"
    BY DEF CmdInit, Init
<1>2. /\ Idle.stage = "ready" /\ Idle.names = <<>> /\ Idle.checks = <<>>
      /\ Idle.results = <<>>
    BY DEF Idle
<1>3. Len(<<>>) = 0
    BY EmptySeq
<1>4. JobsFollow
    BY <1>1, <1>2, <1>3, TasksAssumption DEF JobsFollow
<1>5. InstallsFollow /\ ReportsTrue
    BY <1>1, <1>2 DEF InstallsFollow, ReportsTrue
<1>6. TargetsMet
    BY <1>1, <1>2, <1>3 DEF TargetsMet
<1> QED
    BY <1>4, <1>5, <1>6 DEF OInv

LEMMA OInvStep ==
    IInv /\ IInv' /\ SInv /\ CopiesSecure /\ CInv /\ CInv' /\ OInv /\ [CmdNext]_cvars => OInv'
<1> SUFFICES ASSUME IInv, IInv', SInv, CopiesSecure, CInv, CInv', OInv, [CmdNext]_cvars
             PROVE  OInv'
    OBVIOUS
<1>1. CASE UNCHANGED cvars
    BY <1>1 DEF cvars, vars, OInv, JobsFollow, InstallsFollow, TargetsMet, ReportsTrue,
                Promised, HasCopy, Whole, Goal, Job, At
<1>2. CASE CmdNext
    <2>1. PICK p \in Procs :
              \/ \E r \in Requests : Launch(p, r) \/ Refuse(p, r)
              \/ Proceed(p)
              \/ Kill(p)
        BY <1>2 DEF CmdNext
    <2>2. TypeOK /\ TypeOK'
        BY DEF IInv
    <2>3. JobsFollow' /\ InstallsFollow' /\ TargetsMet' /\ ReportsTrue'
        BY <2>1, <2>2, JobsFollowStep, InstallsFollowStep, TargetsMetStep, ReportsTrueStep
           DEF OInv
    <2> QED
        BY <2>3 DEF OInv
<1> QED
    BY <1>1, <1>2

(* When every command that ran has reported success, no call is left that  *)
(* failed or that still runs.                                              *)
LEMMA SuccessIsQuiet ==
    ASSUME CInv, JobsFollow, ReportsTrue, TypeOK,
           \A p \in Procs : cmd[p].stage = "ready" \/ (cmd[p].stage = "done" /\ cmd[p].ok)
    PROVE  \A j \in Jobs : pc[j] \in {"idle", "changed"}
<1> SUFFICES ASSUME NEW p \in Procs, NEW i \in 1..MaxTargets
             PROVE  pc[<<p, i>>] \in {"idle", "changed"}
    BY TasksAssumption
<1> DEFINE c == cmd[p]
<1>1. /\ c \in Commands /\ Proper(c) /\ Len(c.results) \in Nat
      /\ i \in Nat /\ i > 0
    BY TasksAssumption, LenProperties DEF CInv, Commands
<1>2. CASE i <= Len(c.results)
    <2>1. c.stage # "ready"
        BY <1>1, <1>2, EmptySeq DEF Proper, Counted
    <2>2. i \in 1..Len(c.results)
        BY <1>1, <1>2
    <2>3. c.results[i] # "failed" /\ c.results[i] \in Outcomes
        BY <1>1, <2>1, <2>2, ElementOfSeq DEF ReportsTrue, Commands
    <2> QED
        BY <1>2, <2>3 DEF JobsFollow, Outcomes
<1>3. CASE i > Len(c.results)
    BY <1>1, <1>3 DEF JobsFollow
<1> QED
    BY <1>1, <1>2, <1>3

(* plugin install, reinstall, update and remove, run by any number of      *)
(* users at once: when all of them report success, the plugin directory    *)
(* holds whole plugins and nothing else, and every plugin that a command   *)
(* said it installed, reinstalled, updated or found is served, unless a    *)
(* removal of it was asked for.                                            *)
THEOREM OverlapIsDelivered == CmdSpec => []OverlapDelivers
<1>1. CmdInit => IInv /\ SInv /\ CopiesSecure /\ CInv /\ OInv
    BY IInvInit, SInvInit, CopiesSecureInit, CInvInit, OInvInit DEF CmdInit
<1>2. IInv /\ SInv /\ CopiesSecure /\ CInv /\ OInv /\ [CmdNext]_cvars
        => IInv' /\ SInv' /\ CopiesSecure' /\ CInv' /\ OInv'
    <2> SUFFICES ASSUME IInv, SInv, CopiesSecure, CInv, OInv, [CmdNext]_cvars
                 PROVE  IInv' /\ SInv' /\ CopiesSecure' /\ CInv' /\ OInv'
        OBVIOUS
    <2>1. [Next]_vars
        BY StoreStep
    <2>2. IInv' /\ SInv'
        BY <2>1, IInvStep, SInvStep
    <2>3. CopiesSecure'
        BY <2>1, <2>2, CopiesSecureStep
    <2>4. CInv'
        BY CInvStep DEF IInv
    <2> QED
        BY <2>2, <2>3, <2>4, OInvStep
<1>3. ASSUME IInv, SInv, CInv, OInv PROVE OverlapDelivers
    <2> SUFFICES ASSUME \A p \in Procs : \/ cmd[p].stage = "ready"
                                         \/ cmd[p].stage = "done" /\ cmd[p].ok
                 PROVE  /\ Tidy
                        /\ \A p \in Procs : cmd[p].op # "remove" =>
                              \A i \in Targets(p) : cmd[p].names[i][2] \in targeted
                                                    \/ Occupied(cmd[p].names[i][2])
        BY DEF OverlapDelivers
    <2>1. \A d \in Dirs : place[d] # "absent" => place[d] = "dest" /\ Whole(d)
        BY <1>3, SuccessIsQuiet, RootIsClean DEF IInv, OInv, CleanRoot
    <2>2. Tidy
        BY <2>1 DEF Tidy, Present, Named, InstalledAt, Entries, Dirs
    <2>3. ASSUME NEW p \in Procs, cmd[p].op # "remove", NEW i \in Targets(p)
          PROVE  cmd[p].names[i][2] \in targeted \/ Occupied(cmd[p].names[i][2])
        <3>1. i \in 1..Len(cmd[p].names) /\ cmd[p].names[i][1] = "dest"
            BY <2>3 DEF Targets
        <3>2. cmd[p].stage # "ready"
            BY <1>3, <3>1, EmptySeq DEF CInv, Proper, Counted
        <3>3. i <= Len(cmd[p].results) /\ cmd[p].results[i] # "failed"
            BY <1>3, <3>1, <3>2 DEF OInv, ReportsTrue
        <3>4. Promised(cmd[p].names[i][2])
            BY <1>3, <2>3, <3>1, <3>3 DEF OInv, TargetsMet
        <3> QED
            BY <2>1, <3>4 DEF Promised, HasCopy, Occupied, InstalledAt
    <2> QED
        BY <2>2, <2>3
<1> QED
    BY <1>1, <1>2, <1>3, PTL DEF CmdSpec

-----------------------------------------------------------------------------
(* Commands that run alone.                                                *)

(* What one step of a call that replaces a plugin may do to the directory. *)

(* No name changes hands. *)
Rests(j) ==
    /\ place' = place /\ saved' = saved
    /\ pc'[j] # "swapIn"
    /\ pc[j] = "swapIn" => pc'[j] = "rollback"
    /\ pc'[j] = "rollback" => pc[j] \in {"swapIn", "rollback"}
    /\ pc'[j] \in {"dropOld", "changed"} => pc[j] = "dropOld"

(* The new bundle takes the vacant name. *)
TakesName(j) ==
    /\ pc[j] \in {"publish", "swapIn"} /\ pc'[j] \in {"dropOld", "changed"}
    /\ pc[j] = "publish" => saved[j] = {}
    /\ ~Occupied(bundle[j].plugin) /\ Whole(j) /\ place[j] = "tmp"
    /\ place' = [place EXCEPT ![j] = "dest"]
    /\ saved' = saved /\ files' = files

(* The installed bundle gets its backup name. *)
MovesAside(j, d) ==
    /\ pc[j] = "setAside" /\ pc'[j] = "swapIn" /\ saved[j] = {}
    /\ d \in InstalledAt(bundle[j].plugin)
    /\ place' = [place EXCEPT ![d] = "old"]
    /\ saved' = [saved EXCEPT ![j] = {d}] /\ files' = files

(* The backup gets its name back. *)
MovesBack(j, d) ==
    /\ pc[j] = "rollback" /\ pc'[j] = "cleanup"
    /\ ~Occupied(bundle[j].plugin)
    /\ d \in saved[j] /\ place[d] = "old"
    /\ place' = [place EXCEPT ![d] = "dest"]
    /\ saved' = [saved EXCEPT ![j] = {}] /\ files' = files

(* What a RemoveAll emptied is gone. *)
Clears(j) ==
    /\ \/ pc[j] = "dropOld" /\ pc'[j] = "changed"
       \/ pc[j] = "cleanup" /\ pc'[j] = "failed"
    /\ place' = [d \in Dirs |-> IF d \in Victim(j) THEN "absent" ELSE place[d]]
    /\ saved' = saved /\ files' = files

(* A replacing call changes files only in its temporary directory and in   *)
(* the backup it deletes.                                                  *)
TouchesOwn(j) ==
    \A d \in Dirs : \/ files'[d] = files[d]
                    \/ d = j /\ place[j] = "tmp" /\ pc[j] \in {"copy", "cleanup"}
                    \/ d \in saved[j] /\ place[d] = "old" /\ pc[j] = "dropOld"

(* Every step of such a call is one of these. *)
LEMMA CallEffect ==
    ASSUME IInv, SInv, TypeOK', NEW j \in Jobs, Step(j), via[j] = j, pc[j] # "remove",
           handle[j] \subseteq Victim(j)
    PROVE  /\ bundle' = bundle /\ via' = via
           /\ pc[j] \in Doomed => pc'[j] \in Doomed
           /\ pc[j] = "dropOld" => pc'[j] \in {"dropOld", "changed", "cleanup"}
           /\ TouchesOwn(j)
           /\ \/ Rests(j)
              \/ TakesName(j)
              \/ \E d \in Dirs : MovesAside(j, d) \/ MovesBack(j, d)
              \/ Clears(j)
<1> USE DEF TypeOK, Dirs, Goto, Doomed
<1>1. TypeOK
    BY DEF IInv
<1>2. CASE \/ \E f \in Files : CopyFile(j, f)
           \/ \E f \in Files : Unlink(j, f)
    <2>1. /\ bundle' = bundle /\ via' = via /\ pc' = pc /\ place' = place /\ saved' = saved
          /\ pc[j] \in {"copy"} \cup Deleting
        BY <1>2 DEF CopyFile, Unlink
    <2>2. Rests(j)
        BY <1>1, <2>1 DEF Rests, Deleting
    <2>3. CASE \E f \in Files : CopyFile(j, f)
        <3>1. place[j] = "tmp" /\ pc[j] = "copy" /\ \A d \in Dirs : d # j => files'[d] = files[d]
            BY <1>1, <2>3 DEF CopyFile, IInv, ReadyIsWhole
        <3> QED
            BY <2>1, <2>2, <3>1 DEF TouchesOwn
    <2>4. CASE \E f \in Files : Unlink(j, f)
        <3>1. PICK e \in handle[j] : \A d \in Dirs : d # e => files'[d] = files[d]
            BY <1>1, <2>4 DEF Unlink
        <3>2. \/ pc[j] = "dropOld" /\ e \in saved[j] /\ place[e] = "old"
              \/ pc[j] = "cleanup" /\ e = j /\ place[e] = "tmp"
            BY DEF Victim
        <3> QED
            BY <2>1, <2>2, <3>1, <3>2 DEF TouchesOwn
    <2> QED
        BY <1>2, <2>3, <2>4
<1>3. CASE StatDest(j) \/ SwapInFails(j) \/ Abandon(j) \/ OpenVictim(j)
           \/ VictimAbsent(j) \/ RemovalFails(j)
    <2>1. bundle' = bundle /\ via' = via /\ place' = place /\ saved' = saved /\ files' = files
        BY <1>3 DEF StatDest, SwapInFails, Abandon, OpenVictim, VictimAbsent, RemovalFails
    <2>2. Rests(j)
        BY <1>1, <1>3, <2>1 DEF Rests, StatDest, SwapInFails, Abandon, OpenVictim,
                     VictimAbsent, RemovalFails, RemovalDone, Deleting
    <2>3. pc[j] \in Doomed => pc'[j] \in Doomed
        BY <1>1, <1>3 DEF StatDest, SwapInFails, Abandon, OpenVictim,
                     VictimAbsent, RemovalFails, RemovalDone, Deleting
    <2>4. pc[j] = "dropOld" => pc'[j] \in {"dropOld", "changed", "cleanup"}
        BY <1>1, <1>3 DEF StatDest, SwapInFails, Abandon, OpenVictim,
                     VictimAbsent, RemovalFails, RemovalDone, Deleting
    <2> QED
        BY <2>1, <2>2, <2>3, <2>4 DEF TouchesOwn
<1>4. CASE Publish(j) \/ SwapIn(j)
    <2>1. Whole(j) /\ place[j] = "tmp" /\ (pc[j] = "publish" => saved[j] = {})
        BY <1>4 DEF Publish, SwapIn, IInv, ReadyIsWhole, SInv, CopiesWhole, SavedOnce
    <2>2. TakesName(j)
        BY <1>1, <1>4, <2>1 DEF Publish, SwapIn, TakesName
    <2> QED
        BY <1>4, <2>2 DEF Publish, SwapIn, TouchesOwn
<1>5. CASE SetAside(j)
    <2>1. saved[j] = {}
        BY <1>5 DEF SetAside, SInv, SavedOnce
    <2>2. PICK d \in InstalledAt(bundle[j].plugin) :
              place' = [place EXCEPT ![d] = "old"] /\ saved' = [saved EXCEPT ![j] = {d}]
        BY <1>5 DEF SetAside
    <2>3. MovesAside(j, d) /\ d \in Dirs
        BY <1>1, <1>5, <2>1, <2>2 DEF SetAside, MovesAside, InstalledAt
    <2> QED
        BY <1>5, <2>3 DEF SetAside, TouchesOwn
<1>6. CASE Rollback(j)
    <2>1. \E d \in Dirs : MovesBack(j, d)
        BY <1>1, <1>6 DEF Rollback, MovesBack
    <2> QED
        BY <1>1, <1>6, <2>1 DEF Rollback, TouchesOwn
<1>7. CASE Rmdir(j)
    <2>1. pc[j] \in {"dropOld", "cleanup"}
        BY <1>7 DEF Rmdir, Deleting
    <2>2. pc'[j] = IF pc[j] = "cleanup" THEN "failed" ELSE "changed"
        BY <1>1, <1>7 DEF Rmdir, RemovalDone
    <2>3. Clears(j)
        BY <1>7, <2>1, <2>2 DEF Rmdir, Clears
    <2> QED
        BY <1>7, <2>1, <2>2, <2>3 DEF Rmdir, TouchesOwn
<1> QED
    BY <1>2, <1>3, <1>4, <1>5, <1>6, <1>7 DEF Step

(* If what a call's RemoveAll opened has the name it was opened by, it     *)
(* still has it after a step of that call.                                 *)
LEMMA HandleStays ==
    ASSUME IInv, TypeOK', NEW j \in Jobs, Step(j), handle[j] \subseteq Victim(j)
    PROVE  handle'[j] \subseteq Victim(j)'
<1> USE DEF TypeOK, Dirs, Goto
<1>1. TypeOK
    BY DEF IInv
<1>2. CASE \/ \E f \in Files : CopyFile(j, f)
           \/ StatDest(j) \/ Publish(j) \/ SetAside(j) \/ SwapIn(j)
           \/ SwapInFails(j) \/ Rollback(j) \/ Abandon(j)
    <2>1. handle[j] = {}
        BY <1>2 DEF IInv, HandleJustified, Deleting, CopyFile, StatDest, Publish, SetAside,
                    SwapIn, SwapInFails, Rollback, Abandon
    <2>2. handle' = handle
        BY <1>2 DEF CopyFile, StatDest, Publish, SetAside, SwapIn, SwapInFails, Rollback, Abandon
    <2> QED
        BY <2>1, <2>2
<1>3. CASE OpenVictim(j)
    <2>1. Victim(j)' = Victim(j)
        BY <1>3 DEF OpenVictim, Victim, InstalledAt
    <2> QED
        BY <1>1, <1>3, <2>1 DEF OpenVictim
<1>4. CASE VictimAbsent(j)
    BY <1>4 DEF VictimAbsent
<1>5. CASE \E f \in Files : Unlink(j, f)
    BY <1>5 DEF Unlink, Victim, InstalledAt
<1>6. CASE Rmdir(j) \/ RemovalFails(j)
    BY <1>1, <1>6 DEF Rmdir, RemovalFails
<1> QED
    BY <1>2, <1>3, <1>4, <1>5, <1>6 DEF Step

-----------------------------------------------------------------------------
(* Who runs alone.                                                         *)

Alone(p) == InProgress(p) /\ launch[p].alone

Launches == [before : Indexes, tidy : BOOLEAN, alone : BOOLEAN]

(* A call that runs is the call a command is making. *)
CallsRun ==
    \A p \in Procs : \A i \in 1..MaxTargets :
        pc[<<p, i>>] \in Running => cmd[p].stage = "apply" /\ i = At(p)

(* While a command runs alone no other one runs. *)
AloneIs == \A p, q \in Procs : Alone(p) /\ q # p => ~InProgress(q)

(* An index that was not read offers nothing. *)
IndexUnread ==
    \A p \in Procs : cmd[p].stage \in {"ready", "check", "index"} =>
        \A n \in Plugins : cmd[p].index[n] = 0

(* A call that replaces a plugin brings the version the index offers. *)
VersionFollows ==
    \A p \in Procs : cmd[p].stage = "apply" /\ cmd[p].op # "remove" =>
        bundle[Job(p)].version = cmd[p].index[Goal(p)] \/ pc[Job(p)] = "failed"

(* How the commands that run affect one another and the calls they make.   *)
TurnInv ==
    /\ launch \in [Procs -> Launches]
    /\ CallsRun
    /\ AloneIs
    /\ IndexUnread
    /\ VersionFollows

(* What an entered command looks like. *)
LEMMA LaunchShape ==
    ASSUME CInv, NEW p \in Procs, NEW r \in Requests, Launch(p, r)
    PROVE  LET d == cmd'[p]
           IN  /\ d.op = r.op /\ d.all = r.all /\ d.bundled = r.bundled
               /\ d.checks = <<>> /\ d.results = <<>>
               /\ \A n \in Plugins : d.index[n] = 0
               /\ d.names \in IF r.all /\ r.op # "install" THEN Listings
                              ELSE {[i \in 1..Len(r.names) |-> <<"dest", r.names[i]>>]}
               /\ d.stage \in {"task", "index", "check"}
               /\ d.stage = "task" <=> d.op = "remove"
<1> DEFINE S == IF r.all /\ r.op # "install" THEN Listings
                ELSE {[i \in 1..Len(r.names) |-> <<"dest", r.names[i]>>]}
           s == IF r.op = "remove" THEN "task"
                ELSE IF r.op = "install" /\ (r.all \/ r.bundled) THEN "index" ELSE "check"
<1>1. PICK names \in S :
          cmd' = [cmd EXCEPT ![p] =
                [Idle EXCEPT !.op = r.op, !.all = r.all, !.bundled = r.bundled,
                             !.names = names, !.stage = s]]
    BY DEF Launch
<1> HIDE DEF S
<1> DEFINE y == [Idle EXCEPT !.op = r.op, !.all = r.all]
           z == [y EXCEPT !.bundled = r.bundled, !.names = names]
           x == [z EXCEPT !.stage = s]
<1>2. /\ DOMAIN y = DOMAIN Idle /\ y.op = r.op /\ y.all = r.all
      /\ y.checks = <<>> /\ y.results = <<>> /\ y.index = [n \in Plugins |-> 0]
    BY DEF Idle
<1>3. DOMAIN Idle = {"stage", "op", "all", "bundled", "names", "checks", "index",
                     "results", "ok"}
    BY DEF Idle
<1> HIDE DEF y
<1>4. /\ DOMAIN z = DOMAIN Idle /\ z.op = r.op /\ z.all = r.all /\ z.bundled = r.bundled
      /\ z.names = names
      /\ z.checks = <<>> /\ z.results = <<>> /\ z.index = [n \in Plugins |-> 0]
    BY <1>2, <1>3
<1> HIDE DEF z
<1>5. /\ x.op = r.op /\ x.all = r.all /\ x.bundled = r.bundled
      /\ x.names = names /\ x.stage = s
      /\ x.checks = <<>> /\ x.results = <<>> /\ x.index = [n \in Plugins |-> 0]
    BY <1>3, <1>4
<1>6. cmd'[p] = x
    BY <1>1 DEF CInv, x, y, z
<1>7. s \in {"task", "index", "check"} /\ (s = "task" <=> r.op = "remove")
    OBVIOUS
<1> QED
    BY <1>1, <1>5, <1>6, <1>7 DEF S

(* How a command that goes on goes on. *)
Moves(p) ==
    LET c == cmd[p]
        d == cmd'[p]
    IN  /\ d.op = c.op /\ d.all = c.all /\ d.bundled = c.bundled
        /\ \/ /\ UNCHANGED vars
              /\ c.stage = "check" /\ d.stage = "check"
              /\ d.names = c.names /\ d.index = c.index /\ d.results = c.results
              /\ Len(c.checks) < Len(c.names)
              /\ \E k \in Lookups(c.names[Len(c.checks) + 1]) :
                    d.checks = Append(c.checks, k)
           \/ /\ UNCHANGED vars
              /\ c.stage = "check" /\ d.stage \in {"index", "task"}
              /\ d.names = c.names /\ d.index = c.index /\ d.results = c.results
              /\ d.checks = c.checks
           \/ /\ UNCHANGED vars
              /\ c.stage = "index" /\ d.stage = "task"
              /\ d.checks = c.checks /\ d.results = c.results
              /\ d.names = c.names \/ (c.op = "install" /\ c.all)
           \/ /\ UNCHANGED vars
              /\ c.stage = "task" /\ d.stage = "fetch" /\ c.op # "remove"
              /\ d.names = c.names /\ d.index = c.index /\ d.results = c.results
              /\ d.checks = c.checks
              /\ At(p) \in 1..Len(c.names)
              /\ \E k \in Relied(p) : Verdict(p, k) = "fetch"
           \/ /\ UNCHANGED vars
              /\ c.stage \in {"task", "fetch", "apply"} /\ d.stage = "task"
              /\ d.names = c.names /\ d.index = c.index /\ d.checks = c.checks
              /\ At(p) \in 1..Len(c.names)
              /\ \E o \in Outcomes :
                    /\ d.results = Append(c.results, o)
                    /\ \/ o = "failed"
                       \/ /\ c.stage = "task" /\ c.op # "remove"
                          /\ \E k \in Relied(p) : o = Verdict(p, k)
                       \/ c.stage = "apply" /\ o = "changed" /\ pc[Job(p)] = "changed"
           \/ /\ c.stage = (IF c.op = "remove" THEN "task" ELSE "fetch") /\ d.stage = "apply"
              /\ d.names = c.names /\ d.index = c.index /\ d.results = c.results
              /\ d.checks = c.checks
              /\ At(p) \in 1..Len(c.names)
              /\ StartInstall(p) \/ StartRemove(p)
           \/ d = c /\ Apply(p)

(* A command that goes on moves in one of these ways. *)
LEMMA ProceedMoves ==
    ASSUME CInv, NEW p \in Procs, Proceed(p), InProgress(p)'
    PROVE  Moves(p)
<1> DEFINE c == cmd[p]
           d == cmd'[p]
<1>1. c \in Commands /\ Proper(c) /\ Len(c.results) \in Nat /\ Len(c.names) \in Nat
    BY LenProperties DEF CInv, Commands
<1>2. d.stage \in Active
    BY DEF InProgress
<1>3. At(p) \in 1..Len(c.names) <=> Len(c.results) < Len(c.names)
    BY <1>1 DEF At
<1>4. CASE CheckTarget(p)
    <2>1. PICK k \in Lookups(c.names[Len(c.checks) + 1]) :
              cmd' = [cmd EXCEPT ![p].checks = Append(@, k)]
        BY <1>4 DEF CheckTarget
    <2>2. d = [c EXCEPT !.checks = Append(@, k)]
        BY <2>1 DEF CInv
    <2>3. /\ d.op = c.op /\ d.all = c.all /\ d.bundled = c.bundled /\ d.stage = c.stage
          /\ d.names = c.names /\ d.index = c.index /\ d.results = c.results
          /\ d.checks = Append(c.checks, k)
        BY <1>1, <2>2 DEF Commands
    <2> QED
        BY <1>4, <2>1, <2>3 DEF CheckTarget, Moves
<1>5. ASSUME NEW s, Enter(p, s)
      PROVE  /\ d.op = c.op /\ d.all = c.all /\ d.bundled = c.bundled /\ d.stage = s
             /\ d.names = c.names /\ d.index = c.index /\ d.results = c.results
             /\ d.checks = c.checks
    BY <1>1, <1>5 DEF Enter, CInv, Commands
<1>6. CASE EndChecks(p)
    <2>1. PICK s \in {"index", "task"} : Enter(p, s)
        BY <1>6 DEF EndChecks
    <2> QED
        BY <1>5, <1>6, <2>1 DEF EndChecks, Moves
<1>7. CASE \E idx \in Indexes : ReadIndex(p, idx)
    <2>1. PICK idx \in Indexes : ReadIndex(p, idx)
        BY <1>7
    <2>2. PICK names : /\ names = c.names \/ (c.op = "install" /\ c.all)
                       /\ cmd' = [cmd EXCEPT ![p].stage = "task", ![p].index = idx,
                                             ![p].names = names]
        BY <2>1 DEF ReadIndex
    <2>3. d = [c EXCEPT !.stage = "task", !.index = idx, !.names = names]
        BY <2>2 DEF CInv
    <2>4. /\ d.op = c.op /\ d.all = c.all /\ d.bundled = c.bundled /\ d.stage = "task"
          /\ d.names = names /\ d.results = c.results /\ d.checks = c.checks
        BY <1>1, <2>3 DEF Commands
    <2> QED
        BY <2>1, <2>2, <2>4 DEF ReadIndex, Moves
<1>8. ASSUME NEW o, Result(p, o)
      PROVE  /\ d.op = c.op /\ d.all = c.all /\ d.bundled = c.bundled /\ d.stage = "task"
             /\ d.names = c.names /\ d.index = c.index /\ d.results = Append(c.results, o)
             /\ d.checks = c.checks
    BY <1>1, <1>8 DEF Result, CInv, Commands
<1>9. CASE Decide(p)
    <2>1. PICK k \in Relied(p) : IF Verdict(p, k) = "fetch" THEN Enter(p, "fetch")
                                 ELSE Result(p, Verdict(p, k))
        BY <1>9 DEF Decide
    <2>2. At(p) \in 1..Len(c.names) /\ c.op # "remove" /\ c.stage = "task" /\ UNCHANGED vars
        BY <1>1, <1>9 DEF Decide, At
    <2>3. CASE Verdict(p, k) = "fetch"
        BY <1>5, <2>1, <2>2, <2>3 DEF Moves
    <2>4. CASE Verdict(p, k) # "fetch"
        <3>1. Verdict(p, k) \in Outcomes
            BY <2>4 DEF Verdict, Outcomes
        <3> QED
            BY <1>8, <2>1, <2>2, <2>4, <3>1 DEF Moves
    <2> QED
        BY <2>3, <2>4
<1>10. CASE FetchFails(p)
    <2>1. At(p) \in 1..Len(c.names) /\ c.stage = "fetch" /\ UNCHANGED vars
        BY <1>1, <1>3, <1>10 DEF FetchFails, Proper, Counted
    <2> QED
        BY <1>8, <1>10, <2>1 DEF FetchFails, Outcomes, Moves
<1>11. CASE StartInstall(p)
    <2>1. c.stage = "fetch" /\ c.op # "remove" /\ At(p) \in 1..Len(c.names)
        BY <1>1, <1>3, <1>11 DEF StartInstall, Proper, Counted, GoalKnown
    <2> QED
        BY <1>5, <1>11, <2>1 DEF StartInstall, Moves
<1>12. CASE StartRemove(p)
    <2>1. c.stage = "task" /\ c.op = "remove" /\ At(p) \in 1..Len(c.names)
        BY <1>1, <1>12 DEF StartRemove, At
    <2>2. CASE Result(p, "failed") /\ UNCHANGED vars
        BY <1>8, <2>1, <2>2 DEF Moves, Outcomes
    <2>3. CASE Enter(p, "apply")
        BY <1>5, <1>12, <2>1, <2>3 DEF Moves
    <2> QED
        BY <1>12, <2>2, <2>3 DEF StartRemove
<1>13. CASE Apply(p)
    BY <1>13 DEF Apply, Moves
<1>14. CASE Collect(p)
    <2>1. c.stage = "apply" /\ At(p) \in 1..Len(c.names) /\ UNCHANGED vars
          /\ pc[Job(p)] \in {"changed", "failed"}
        BY <1>1, <1>3, <1>14 DEF Collect, Proper, Counted
    <2>2. Result(p, pc[Job(p)])
        BY <1>14 DEF Collect
    <2> QED
        BY <1>8, <2>1, <2>2 DEF Outcomes, Moves
<1>15. ~(ReadIndexFails(p) \/ Report(p) \/ DisplayFails(p))
    BY <1>1, <1>2 DEF ReadIndexFails, Report, DisplayFails, Finish, CInv, Commands, Active
<1> QED
    BY <1>4, <1>6, <1>7, <1>9, <1>10, <1>11, <1>12, <1>13, <1>14, <1>15 DEF Proceed

(* What enters, refuses, finishes or is killed does not run on. *)
LEMMA WhoRunsOn ==
    ASSUME CInv, NEW p \in Procs
    PROVE  /\ \A r \in Requests : Refuse(p, r) => ~InProgress(p)' /\ ~InProgress(p)
           /\ \A r \in Requests : Launch(p, r) => ~InProgress(p)
           /\ Kill(p) => ~InProgress(p)' /\ InProgress(p)
           /\ Proceed(p) => InProgress(p) /\ launch' = launch
<1>1. cmd[p] \in Commands
    BY DEF CInv
<1>2. ASSUME NEW r \in Requests, Refuse(p, r) PROVE ~InProgress(p)' /\ ~InProgress(p)
    BY <1>2, RefuseProper DEF Refuse, InProgress, Active
<1>3. ASSUME NEW r \in Requests, Launch(p, r) PROVE ~InProgress(p)
    BY <1>3 DEF Launch, InProgress, Active
<1>4. ASSUME Kill(p) PROVE ~InProgress(p)' /\ InProgress(p)
    BY <1>1, <1>4 DEF Kill, Enter, InProgress, Active, CInv, Commands
<1>5. ASSUME Proceed(p) PROVE InProgress(p) /\ launch' = launch
    BY <1>5 DEF Proceed, CheckTarget, EndChecks, ReadIndex, ReadIndexFails, Decide,
                FetchFails, StartInstall, StartRemove, Apply, Collect, Report,
                DisplayFails, InProgress, Active
<1> QED
    BY <1>2, <1>3, <1>4, <1>5

(* Who runs alone after a step has just been entered with no other command *)
(* running, or has gone on by itself, or was not touched.                  *)
LEMMA Turn ==
    ASSUME CInv, TypeOK, launch \in [Procs -> Launches], AloneIs, [CmdNext]_cvars,
           NEW p \in Procs, Alone(p)'
    PROVE  \/ \E r \in Requests : Launch(p, r) /\ \A q \in Procs : ~InProgress(q)
           \/ Alone(p) /\ launch' = launch /\ Proceed(p)
           \/ Alone(p) /\ launch'[p] = launch[p] /\ cmd'[p] = cmd[p] /\ UNCHANGED vars
<1>1. CASE UNCHANGED cvars
    BY <1>1 DEF cvars, Alone, InProgress
<1>2. CASE CmdNext
    <2>1. PICK q \in Procs :
              \/ \E r \in Requests : Launch(q, r) \/ Refuse(q, r)
              \/ Proceed(q)
              \/ Kill(q)
        BY <1>2 DEF CmdNext
    <2>2. CASE q = p
        <3>1. CASE \E r \in Requests : Launch(p, r)
            <4>1. PICK r \in Requests : Launch(p, r)
                BY <3>1
            <4>2. \A o \in Procs : ~InProgress(o)
                BY <4>1 DEF Launch, Alone
            <4> QED
                BY <4>1, <4>2
        <3>2. CASE Proceed(p)
            BY <3>2, WhoRunsOn DEF Alone
        <3> QED
            BY <2>1, <2>2, <3>1, <3>2, WhoRunsOn DEF Alone
    <2>3. CASE q # p
        <3>1. cmd'[p] = cmd[p]
            BY <2>1, <2>3, OwnCommand
        <3>2. InProgress(p)
            BY <3>1 DEF Alone, InProgress
        <3>3. ASSUME NEW r \in Requests, Launch(q, r) PROVE FALSE
            <4>1. launch'[p].alone = (launch[p].alone /\ ~InProgress(p))
                BY <2>3, <3>3 DEF Launch, Launches
            <4> QED
                BY <3>2, <4>1 DEF Alone
        <3>4. launch' = launch
            BY <2>1, <3>3, WhoRunsOn DEF Refuse, Kill
        <3>5. Alone(p)
            BY <3>2, <3>4 DEF Alone
        <3>6. ~InProgress(q)
            BY <2>3, <3>5 DEF AloneIs
        <3>7. PICK r \in Requests : Refuse(q, r)
            BY <2>1, <3>3, <3>6, WhoRunsOn
        <3> QED
            BY <3>1, <3>4, <3>5, <3>7 DEF Refuse
    <2> QED
        BY <2>2, <2>3
<1> QED
    BY <1>1, <1>2

(* What a history records is of the right kind. *)
LEMMA ServedTyped == ASSUME TypeOK, NEW n \in Plugins PROVE Served(n) \in Versions \cup {0}
<1> DEFINE loads == {d \in InstalledAt(n) : Loadable(d)}
<1>1. CASE loads = {}
    BY <1>1 DEF Served
<1>2. CASE loads # {}
    <2>1. PICK d \in loads : d = CHOOSE e \in loads : TRUE
        BY <1>2
    <2>2. bundle[d].version \in Versions
        BY DEF InstalledAt, TypeOK, Bundles
    <2>3. Served(n) = bundle[d].version
        BY <1>2, <2>1 DEF Served
    <2> QED
        BY <2>2, <2>3
<1> QED
    BY <1>1, <1>2

LEMMA LaunchesTyped ==
    ASSUME CInv, TypeOK, launch \in [Procs -> Launches], [CmdNext]_cvars
    PROVE  launch' \in [Procs -> Launches]
<1>1. CASE launch' = launch
    BY <1>1
<1>2. ASSUME NEW p \in Procs, NEW r \in Requests, Launch(p, r)
      PROVE  launch' \in [Procs -> Launches]
    <2> DEFINE mine == [before |-> [n \in Plugins |-> Served(n)], tidy |-> Tidy,
                        alone |-> \A o \in Procs : ~InProgress(o)]
               theirs(q) == [launch[q] EXCEPT !.alone = @ /\ ~InProgress(q)]
    <2>1. launch' = [q \in Procs |-> IF q = p THEN mine ELSE theirs(q)]
        BY <1>2 DEF Launch
    <2>2. [n \in Plugins |-> Served(n)] \in Indexes
        BY ServedTyped DEF Indexes
    <2>3. Tidy \in BOOLEAN /\ (\A o \in Procs : ~InProgress(o)) \in BOOLEAN
        BY DEF Tidy
    <2>4. mine \in Launches
        BY <2>2, <2>3 DEF Launches
    <2>5. ASSUME NEW q \in Procs PROVE theirs(q) \in Launches
        <3>1. launch[q] \in Launches /\ (launch[q].alone /\ ~InProgress(q)) \in BOOLEAN
            OBVIOUS
        <3> QED
            BY <3>1 DEF Launches
    <2> HIDE DEF mine, theirs
    <2> QED
        BY <2>1, <2>4, <2>5
<1>3. CASE CmdNext
    BY <1>1, <1>2, <1>3, WhoRunsOn DEF CmdNext, Refuse, Kill
<1> QED
    BY <1>1, <1>3 DEF cvars

(* Only the command that makes a call keeps it running. *)
LEMMA CallsRunStep ==
    ASSUME CInv, TypeOK, CallsRun, [CmdNext]_cvars
    PROVE  CallsRun'
<1> SUFFICES ASSUME NEW q \in Procs, NEW i \in 1..MaxTargets, pc'[<<q, i>>] \in Running
             PROVE  cmd'[q].stage = "apply" /\ i = At(q)'
    BY DEF CallsRun
<1> DEFINE j == <<q, i>>
<1>1. j \in Jobs
    BY TasksAssumption
<1>2. CASE pc'[j] = pc[j] /\ cmd'[q] = cmd[q]
    BY <1>2 DEF CallsRun, At
<1>3. CASE UNCHANGED cvars
    BY <1>2, <1>3 DEF cvars, vars
<1>4. CASE CmdNext
    <2>1. PICK p \in Procs :
              \/ \E r \in Requests : Launch(p, r) \/ Refuse(p, r)
              \/ Proceed(p)
              \/ Kill(p)
        BY <1>4 DEF CmdNext
    <2>2. CASE q # p
        <3>1. j # Job(p) /\ cmd'[q] = cmd[q]
            BY <2>1, <2>2, OwnCommand DEF Job
        <3> QED
            BY <1>1, <1>2, <2>1, <3>1, OwnCommand DEF vars
    <2>3. CASE q = p /\ UNCHANGED vars
        <3>1. cmd[p].stage = "apply" /\ i = At(p) /\ pc[Job(p)] \in Running
            BY <2>3 DEF CallsRun, vars, Job
        <3>2. pc[Job(p)] \notin {"changed", "failed"}
            BY <3>1 DEF Running, Deleting
        <3>3. ~(\E r \in Requests : Launch(p, r) \/ Refuse(p, r))
            BY <3>1 DEF Launch, Refuse
        <3>4. CASE Kill(p)
            <4>1. Crash(Job(p)) /\ pc' = pc /\ Job(p) \in Jobs
                BY <1>1, <2>3, <3>1, <3>4 DEF Kill, vars, Job
            <4> QED
                BY <3>1, <4>1 DEF Crash, Goto, TypeOK, Running, Deleting
        <3>5. CASE Proceed(p)
            BY <2>3, <3>1, <3>2, <3>5
               DEF Proceed, CheckTarget, EndChecks, ReadIndex, ReadIndexFails, Decide,
                   FetchFails, StartInstall, StartRemove, Apply, Collect, Report,
                   DisplayFails, At
        <3> QED
            BY <2>1, <3>3, <3>4, <3>5
    <2>4. CASE q = p /\ ~UNCHANGED vars
        <3>1. CASE i # At(p)
            <4>1. j # Job(p)
                BY <2>4, <3>1 DEF Job
            <4>2. pc'[j] = pc[j]
                BY <1>1, <2>1, <2>4, <4>1, OwnCommand
            <4>3. i = At(p)
                BY <2>4, <4>2 DEF CallsRun
            <4> QED
                BY <3>1, <4>3
        <3>2. CASE i = At(p)
            <4>1. \/ StartInstall(p) \/ StartRemove(p) \/ Apply(p) \/ Kill(p)
                BY <2>1, <2>4
                   DEF Launch, Refuse, Proceed, CheckTarget, EndChecks, ReadIndex,
                       ReadIndexFails, Decide, FetchFails, Collect, Report, DisplayFails
            <4>2. CASE Kill(p)
                <5>1. pc'[j] = "crashed"
                    BY <1>1, <2>4, <3>2, <4>2 DEF Kill, Crash, Goto, TypeOK, Job
                <5> QED
                    BY <5>1 DEF Running, Deleting
            <4>3. CASE Apply(p)
                BY <2>4, <3>2, <4>3 DEF Apply, At
            <4>4. CASE StartInstall(p) \/ StartRemove(p)
                <5>1. Enter(p, "apply")
                    BY <2>4, <4>4 DEF StartInstall, StartRemove
                <5>2. cmd'[p].stage = "apply" /\ cmd'[p].results = cmd[p].results
                    BY <5>1 DEF Enter, CInv, Commands
                <5> QED
                    BY <2>4, <3>2, <5>2 DEF At
            <4> QED
                BY <4>1, <4>2, <4>3, <4>4
        <3> QED
            BY <3>1, <3>2
    <2> QED
        BY <2>2, <2>3, <2>4
<1> QED
    BY <1>3, <1>4

(* A command is alone until another one is entered. *)
LEMMA AloneIsStep ==
    ASSUME CInv, TypeOK, launch \in [Procs -> Launches], AloneIs, [CmdNext]_cvars
    PROVE  AloneIs'
<1> SUFFICES ASSUME NEW p \in Procs, NEW q \in Procs, Alone(p)', q # p, InProgress(q)'
             PROVE  FALSE
    BY DEF AloneIs
<1>1. CASE \E r \in Requests : Launch(p, r) /\ \A o \in Procs : ~InProgress(o)
    <2>1. cmd'[q] = cmd[q]
        BY <1>1 DEF Launch, CInv
    <2> QED
        BY <1>1, <2>1 DEF InProgress
<1>2. CASE Alone(p) /\ launch' = launch /\ Proceed(p)
    <2>1. cmd'[q] = cmd[q]
        BY <1>2, OwnCommand
    <2> QED
        BY <1>2, <2>1 DEF AloneIs, InProgress
<1>3. CASE Alone(p) /\ launch'[p] = launch[p] /\ cmd'[p] = cmd[p] /\ UNCHANGED vars
    <2>1. ~InProgress(q)
        BY <1>3 DEF AloneIs
    <2>2. cmd'[q] # cmd[q]
        BY <2>1 DEF InProgress
    <2>3. CmdNext
        BY <2>2 DEF cvars
    <2>4. PICK s \in Procs :
              \/ \E r \in Requests : Launch(s, r) \/ Refuse(s, r)
              \/ Proceed(s)
              \/ Kill(s)
        BY <2>3 DEF CmdNext
    <2>5. s = q
        BY <2>2, <2>4, OwnCommand
    <2>6. PICK r \in Requests : Launch(q, r)
        BY <2>1, <2>4, <2>5, WhoRunsOn
    <2>7. launch'[p].alone = (launch[p].alone /\ ~InProgress(p))
        BY <2>6 DEF Launch, Launches
    <2> QED
        BY <1>3, <2>7 DEF Alone
<1> QED
    BY <1>1, <1>2, <1>3, Turn

(* The index is read once, after the checks. *)
LEMMA IndexUnreadStep ==
    ASSUME CInv, TypeOK, IndexUnread, [CmdNext]_cvars
    PROVE  IndexUnread'
<1> SUFFICES ASSUME NEW q \in Procs, cmd'[q].stage \in {"ready", "check", "index"},
                    NEW n \in Plugins
             PROVE  cmd'[q].index[n] = 0
    BY DEF IndexUnread
<1>1. CASE cmd'[q] = cmd[q]
    BY <1>1 DEF IndexUnread
<1>2. CASE cmd'[q] # cmd[q]
    <2>1. CmdNext
        BY <1>2 DEF cvars
    <2>2. PICK p \in Procs :
              \/ \E r \in Requests : Launch(p, r) \/ Refuse(p, r)
              \/ Proceed(p)
              \/ Kill(p)
        BY <2>1 DEF CmdNext
    <2>3. p = q
        BY <1>2, <2>2, OwnCommand
    <2>4. CASE \E r \in Requests : Launch(q, r)
        BY <2>4, LaunchShape
    <2>5. ~(Kill(q) \/ \E r \in Requests : Refuse(q, r))
        BY RefuseProper DEF Kill, Enter, CInv, Commands
    <2>6. CASE Proceed(q)
        <3>1. ~(ReadIndexFails(q) \/ Report(q) \/ DisplayFails(q))
            BY DEF ReadIndexFails, Report, DisplayFails, Finish, CInv, Commands
        <3>2. CASE InProgress(q)'
            <4>1. Moves(q)
                BY <2>6, <3>2, ProceedMoves
            <4>2. cmd[q].stage \in {"check"} /\ cmd'[q].index = cmd[q].index
                BY <1>2, <4>1 DEF Moves
            <4> QED
                BY <4>2 DEF IndexUnread
        <3>3. CASE ~InProgress(q)'
            <4>1. cmd'[q].stage = "ready"
                BY <3>3 DEF InProgress, Active
            <4>2. cmd[q] \in Commands
                BY DEF CInv
            <4>3. ~(CheckTarget(q) \/ Apply(q))
                BY <1>2, <4>1, <4>2 DEF CheckTarget, Apply, CInv, Commands
            <4>4. ~(\E idx \in Indexes : ReadIndex(q, idx))
                <5> SUFFICES ASSUME NEW idx \in Indexes, ReadIndex(q, idx) PROVE FALSE
                    OBVIOUS
                <5>1. PICK names : cmd' = [cmd EXCEPT ![q].stage = "task", ![q].index = idx,
                                                      ![q].names = names]
                    BY DEF ReadIndex
                <5>2. cmd'[q].stage = "task"
                    BY <4>2, <5>1 DEF CInv, Commands
                <5> QED
                    BY <4>1, <5>2
            <4>5. ~(EndChecks(q) \/ Decide(q) \/ FetchFails(q) \/ StartInstall(q)
                    \/ StartRemove(q) \/ Collect(q))
                BY <4>1, <4>2 DEF EndChecks, Decide, FetchFails, StartInstall, StartRemove,
                    Collect, Enter, Result, CInv, Commands
            <4> QED
                BY <2>6, <3>1, <4>3, <4>4, <4>5 DEF Proceed
        <3> QED
            BY <3>2, <3>3
    <2> QED
        BY <2>2, <2>3, <2>4, <2>5, <2>6
<1> QED
    BY <1>1, <1>2

(* A call brings what the index offers. *)
LEMMA VersionFollowsStep ==
    ASSUME IInv, SInv, CopiesSecure, CInv, TypeOK', InstallsFollow, VersionFollows,
           [CmdNext]_cvars
    PROVE  VersionFollows'
<1> SUFFICES ASSUME NEW q \in Procs, cmd'[q].stage = "apply", cmd'[q].op # "remove"
             PROVE  bundle'[Job(q)'].version = cmd'[q].index[Goal(q)'] \/ pc'[Job(q)'] = "failed"
    BY DEF VersionFollows
<1>1. TypeOK
    BY DEF IInv
<1>2. CASE /\ cmd'[q] = cmd[q] /\ bundle'[Job(q)] = bundle[Job(q)] /\ pc'[Job(q)] = pc[Job(q)]
    BY <1>2 DEF VersionFollows, Goal, Job, At
<1>3. CASE UNCHANGED cvars
    BY <1>2, <1>3 DEF cvars, vars
<1>4. CASE CmdNext
    <2>1. PICK p \in Procs :
              \/ \E r \in Requests : Launch(p, r) \/ Refuse(p, r)
              \/ Proceed(p)
              \/ Kill(p)
        BY <1>4 DEF CmdNext
    <2>2. CASE q # p
        <3>1. cmd'[q] = cmd[q] /\ Job(q) # Job(p)
            BY <1>1, <2>1, <2>2, OwnCommand DEF Job
        <3>2. Job(q) \in Jobs
            BY <3>1, JobsOfTasks DEF CInv, Proper, Counted
        <3> QED
            BY <1>1, <1>2, <2>1, <3>1, <3>2, OwnCommand DEF vars
    <2>3. CASE q = p /\ Apply(q)
        <3>1. cmd' = cmd /\ Step(Job(q)) /\ Job(q) \in Jobs
            BY <2>3, JobsOfTasks DEF Apply, CInv, Proper, Counted
        <3>2. bundle' = bundle /\ pc[Job(q)] # "failed"
            BY <3>1 DEF Step, CopyFile, StatDest, Publish, SetAside, SwapIn, SwapInFails,
                        Rollback, Abandon, OpenVictim, VictimAbsent, Unlink, Rmdir,
                        RemovalFails, Deleting
        <3> QED
            BY <3>1, <3>2 DEF VersionFollows, Goal, Job, At
    <2>4. CASE q = p /\ StartInstall(q)
        <3>1. /\ cmd'[q].names = cmd[q].names /\ cmd'[q].checks = cmd[q].checks
              /\ cmd'[q].results = cmd[q].results /\ cmd'[q].op = cmd[q].op
              /\ cmd'[q].index = cmd[q].index
            BY <2>4 DEF StartInstall, Enter, CInv, Commands
        <3>2. Job(q)' = Job(q) /\ Goal(q)' = Goal(q)
            BY <3>1 DEF Job, Goal, At
        <3>3. Job(q) \in Jobs
            BY <2>4, JobsOfTasks DEF StartInstall, CInv, Proper, Counted
        <3>4. CASE MkdirFails(Job(q))
            BY <1>1, <3>2, <3>3, <3>4 DEF MkdirFails, Goto, TypeOK
        <3>5. CASE BeginInstall(Job(q), Goal(q), cmd[q].index[Goal(q)])
            BY <1>1, <3>1, <3>2, <3>3, <3>5 DEF BeginInstall, TypeOK, Dirs
        <3> QED
            BY <2>4, <3>4, <3>5 DEF StartInstall
    <2> QED
        BY <2>1, <2>2, <2>3, <2>4, CallsHow
<1> QED
    BY <1>3, <1>4

LEMMA TurnInvInit == CmdInit => TurnInv
<1> SUFFICES ASSUME CmdInit PROVE TurnInv
    OBVIOUS
<1>1. /\ \A p \in Procs : cmd[p] = Idle
      /\ \A p \in Procs : launch[p] = [before |-> [n \in Plugins |-> 0],
                                       tidy |-> FALSE, alone |-> FALSE]
      /\ \A j \in Jobs : pc[j] = "idle"
    BY DEF CmdInit, Init
<1>2. Idle.stage = "ready" /\ \A n \in Plugins : Idle.index[n] = 0
    BY DEF Idle
<1>3. [before |-> [n \in Plugins |-> 0], tidy |-> FALSE, alone |-> FALSE] \in Launches
    BY DEF Launches, Indexes
<1>4. launch \in [Procs -> Launches]
    BY <1>3 DEF CmdInit
<1>5. CallsRun
    BY <1>1, TasksAssumption DEF CallsRun, Running, Deleting
<1> QED
    BY <1>1, <1>2, <1>4, <1>5 DEF TurnInv, AloneIs, Alone, IndexUnread, VersionFollows

(* All of it is kept by every step. *)
LEMMA TurnInvStep ==
    ASSUME IInv, SInv, CopiesSecure, CInv, TypeOK', InstallsFollow, TurnInv, [CmdNext]_cvars
    PROVE  TurnInv'
<1>1. TypeOK
    BY DEF IInv
<1> QED
    BY <1>1, LaunchesTyped, CallsRunStep, AloneIsStep, IndexUnreadStep, VersionFollowsStep
       DEF TurnInv

-----------------------------------------------------------------------------
(* What a command that runs alone knows of the directory.                  *)

(* What its RemoveAll has opened still has the name it was opened by. *)
HandleHere ==
    \A p \in Procs : Alone(p) /\ cmd[p].stage = "apply"
        => handle[Job(p)] \subseteq Victim(Job(p))

(* No task and no call of p has failed so far. *)
Smooth(p) ==
    /\ \A i \in 1..Len(cmd[p].results) : cmd[p].results[i] # "failed"
    /\ cmd[p].stage = "apply" => pc[Job(p)] \notin Doomed

(* The versions of n that p may leave in the directory. *)
MayLeave(p, n, v) ==
    LET old == launch[p].before[n]
        new == cmd[p].index[n]
        op  == cmd[p].op
    IN  \/ old = 0 /\ v = new
        \/ old # 0 /\ v = old
        \/ op # "install" /\ v = new /\ (op = "update" => new > old)

DirWhole(p) == \A d \in Dirs : place[d] = "dest" => Whole(d)

Versioned(p) ==
    \A d \in Dirs : place[d] \in {"dest", "old"}
        => MayLeave(p, bundle[d].plugin, bundle[d].version)

(* What was served is served or set aside, where p does not delete it.     *)
Kept(p) ==
    \A n \in Plugins : launch[p].before[n] # 0 =>
        \/ Occupied(n)
        \/ /\ cmd[p].op # "install"
           /\ \E d \in Dirs :
                 /\ place[d] = "old" /\ bundle[d].plugin = n /\ Whole(d)
                 /\ cmd[p].stage = "apply" /\ pc[Job(p)] = "dropOld" => d \notin saved[Job(p)]

(* As long as nothing failed, nothing is left but what the call at work    *)
(* has there.                                                              *)
Orderly(p) ==
    Smooth(p) => \A d \in Dirs :
        \/ place[d] \in {"absent", "dest"}
        \/ cmd[p].stage = "apply" /\ d = Job(p) /\ place[d] = "tmp"
        \/ cmd[p].stage = "apply" /\ d \in saved[Job(p)]

(* The backup that may be moved back is whole. *)
BackupSound(p) ==
    cmd[p].stage = "apply" /\ pc[Job(p)] \in {"swapIn", "rollback"} =>
        \A d \in saved[Job(p)] : place[d] = "old" => Whole(d)

TidyDir(p) == DirWhole(p) /\ Versioned(p) /\ Kept(p) /\ Orderly(p) /\ BackupSound(p)

DestNames(p) == \A i \in 1..Len(cmd[p].names) : cmd[p].names[i][1] = "dest"

(* The look-ups told what was served when p began. *)
ChecksTrue(p) ==
    \A i \in 1..Len(cmd[p].checks) :
        LET k == cmd[p].checks[i]
        IN  /\ k.state = "loaded" => k.version = launch[p].before[k.plugin] /\ k.version # 0
            /\ k.state = "absent" => launch[p].before[k.plugin] = 0

(* An install replaces nothing that was served, an update nothing higher.  *)
GoalTrue(p) ==
    cmd[p].stage \in {"fetch", "apply"} =>
        /\ cmd[p].op = "install" => launch[p].before[Goal(p)] = 0
        /\ cmd[p].op = "update" => cmd[p].index[Goal(p)] > launch[p].before[Goal(p)]

TidyRun ==
    \A p \in Procs : Alone(p) /\ launch[p].tidy =>
        /\ DestNames(p)
        /\ cmd[p].op # "remove" => TidyDir(p) /\ ChecksTrue(p) /\ GoalTrue(p)

(* A call that has not started holds nothing. *)
LEMMA StartHandle ==
    ASSUME IInv, NEW j \in Jobs,
           \/ \E n \in Plugins, v \in Versions : BeginInstall(j, n, v)
           \/ MkdirFails(j)
           \/ \E n \in Plugins : BeginRemove(j, n)
           \/ \E m \in Jobs : BeginRemoveOld(j, m)
    PROVE  handle' = handle /\ handle[j] = {} /\ pc[j] = "idle"
    BY DEF BeginInstall, MkdirFails, BeginRemove, BeginRemoveOld, IInv, IdleIsBlank

(* The call that StartInstall or StartRemove makes. *)
LEMMA StartsCall ==
    ASSUME CInv, NEW p \in Procs, cmd'[p].stage = "apply",
           At(p) \in 1..Len(cmd[p].names)
    PROVE  /\ Job(p) \in Jobs
           /\ StartInstall(p) =>
                /\ cmd[p].stage = "fetch" /\ cmd[p].op # "remove"
                /\ Goal(p) \in Plugins /\ cmd[p].index[Goal(p)] \in Versions
                /\ \/ BeginInstall(Job(p), Goal(p), cmd[p].index[Goal(p)])
                   \/ MkdirFails(Job(p))
           /\ StartRemove(p) =>
                LET e == cmd[p].names[At(p)]
                IN  /\ cmd[p].op = "remove" /\ e \in Entries
                    /\ \/ e[1] = "dest" /\ e[2] \in Plugins /\ BeginRemove(Job(p), e[2])
                       \/ e[1] = "old" /\ e[2] \in Jobs /\ BeginRemoveOld(Job(p), e[2])
<1>1. /\ Len(cmd[p].results) \in Nat /\ Len(cmd[p].names) \in Nat
      /\ cmd[p] \in Commands /\ Proper(cmd[p])
    BY LenProperties DEF CInv, Commands
<1>2. Len(cmd[p].results) < Len(cmd[p].names)
    BY <1>1 DEF At
<1>3. Job(p) \in Jobs
    BY <1>2, JobsOfTasks
<1>4. ASSUME StartInstall(p)
      PROVE  /\ cmd[p].stage = "fetch" /\ cmd[p].op # "remove"
             /\ Goal(p) \in Plugins /\ cmd[p].index[Goal(p)] \in Versions
             /\ \/ BeginInstall(Job(p), Goal(p), cmd[p].index[Goal(p)])
                \/ MkdirFails(Job(p))
    <2>1. cmd[p].stage = "fetch" /\ cmd[p].op # "remove"
        BY <1>1, <1>4 DEF StartInstall, Proper, GoalKnown
    <2>2. Goal(p) \in Plugins
        BY <2>1, GoalIsPlugin
    <2>3. cmd[p].index[Goal(p)] \in Versions
        BY <1>1, <2>1, <2>2 DEF Proper, GoalKnown, GoalOf, Goal, At, Commands, Indexes
    <2> QED
        BY <1>4, <2>1, <2>2, <2>3 DEF StartInstall
<1>5. ASSUME StartRemove(p)
      PROVE  LET e == cmd[p].names[At(p)]
             IN  /\ cmd[p].op = "remove" /\ e \in Entries
                 /\ \/ e[1] = "dest" /\ e[2] \in Plugins /\ BeginRemove(Job(p), e[2])
                    \/ e[1] = "old" /\ e[2] \in Jobs /\ BeginRemoveOld(Job(p), e[2])
    <2> DEFINE e == cmd[p].names[At(p)]
    <2>1. e \in Entries
        BY <1>1, ElementOfSeq DEF Commands
    <2>2. ~Result(p, "failed")
        BY <1>1 DEF Result, CInv, Commands
    <2>3. \/ e[1] = "dest" /\ BeginRemove(Job(p), e[2])
          \/ e[1] = "old" /\ BeginRemoveOld(Job(p), e[2])
        BY <1>5, <2>2 DEF StartRemove
    <2>4. (e[1] = "dest" => e[2] \in Plugins) /\ (e[1] = "old" => e[2] \in Jobs)
        BY <2>1 DEF Entries
    <2> QED
        BY <1>5, <2>1, <2>3, <2>4 DEF StartRemove
<1> QED
    BY <1>3, <1>4, <1>5

(* Nobody else renames what a command that runs alone deletes. *)
LEMMA HandleHereStep ==
    ASSUME IInv, CInv, TurnInv, TypeOK', HandleHere, [CmdNext]_cvars
    PROVE  HandleHere'
<1> SUFFICES ASSUME NEW p \in Procs, Alone(p)', cmd'[p].stage = "apply"
             PROVE  (handle[Job(p)] \subseteq Victim(Job(p)))'
    BY DEF HandleHere
<1>1. TypeOK /\ launch \in [Procs -> Launches] /\ AloneIs
    BY DEF IInv, TurnInv
<1>2. CASE \E r \in Requests : Launch(p, r)
    BY <1>2, LaunchShape
<1>3. CASE Alone(p) /\ cmd'[p] = cmd[p] /\ UNCHANGED vars
    BY <1>3 DEF HandleHere, vars, Victim, InstalledAt, Job, At
<1>4. CASE Alone(p) /\ Proceed(p)
    <2>1. Moves(p)
        BY <1>4, ProceedMoves DEF Alone
    <2>2. CASE Apply(p) /\ cmd'[p] = cmd[p]
        <3>1. Job(p) \in Jobs /\ Step(Job(p)) /\ cmd[p].stage = "apply"
            BY <2>2, JobsOfTasks DEF Apply, CInv, Proper, Counted
        <3>2. PICK j \in Jobs : j = Job(p) /\ j = Job(p)'
            BY <2>2, <3>1 DEF Job, At
        <3>3. handle[j] \subseteq Victim(j)
            BY <1>4, <3>1, <3>2 DEF HandleHere
        <3>4. handle'[j] \subseteq Victim(j)'
            BY <3>1, <3>2, <3>3, HandleStays
        <3>5. Victim(Job(p))' = Victim(j)'
            BY <3>2 DEF Victim
        <3> QED
            BY <3>2, <3>4, <3>5
    <2>3. CASE /\ cmd'[p].results = cmd[p].results /\ At(p) \in 1..Len(cmd[p].names)
               /\ StartInstall(p) \/ StartRemove(p)
        <3>1. PICK j \in Jobs : j = Job(p) /\ j = Job(p)'
            BY <2>3, StartsCall DEF Job, At
        <3>2. \/ \E n \in Plugins, v \in Versions : BeginInstall(j, n, v)
              \/ MkdirFails(j)
              \/ \E n \in Plugins : BeginRemove(j, n)
              \/ \E m \in Jobs : BeginRemoveOld(j, m)
            BY <2>3, <3>1, StartsCall
        <3> QED
            BY <3>1, <3>2, StartHandle
    <2> QED
        BY <2>1, <2>2, <2>3 DEF Moves
<1> QED
    BY <1>1, <1>2, <1>3, <1>4, Turn

(* A directory of whole plugins, as a command that enters alone finds it.  *)
LEMMA TidyMeans ==
    ASSUME TypeOK, SInv, Tidy
    PROVE  /\ \A d \in Dirs : place[d] \in {"absent", "dest"}
           /\ \A d \in Dirs : place[d] = "dest" => Whole(d)
           /\ \A e \in Present : e[1] = "dest"
           /\ \A n \in Plugins : InstalledAt(n) = {} => Served(n) = 0
           /\ \A d \in Dirs : place[d] = "dest" => Served(bundle[d].plugin) = bundle[d].version
<1>1. \A e \in Present : e[1] = "dest" /\ \A d \in Named(e) : Whole(d)
    BY DEF Tidy
<1>2. ASSUME NEW d \in Dirs, place[d] = "old" PROVE FALSE
    <2>1. PICK j \in Jobs : d \in saved[j]
        BY <1>2 DEF SInv, BackupsKnown
    <2> DEFINE e == <<"old", j>>
    <2>2. d \in Named(e)
        BY <1>2, <2>1 DEF Named
    <2>3. e \in Present
        BY <2>2 DEF Present, Entries
    <2> QED
        BY <1>1, <2>3
<1>3. ASSUME NEW d \in Dirs, place[d] = "tmp" PROVE FALSE
    <2>1. d \in Jobs
        BY <1>3 DEF SInv, TmpIsJobs
    <2> DEFINE e == <<"tmp", d>>
    <2>2. d \in Named(e)
        BY <1>3, <2>1 DEF Named
    <2>3. e \in Present
        BY <2>1, <2>2 DEF Present, Entries
    <2> QED
        BY <1>1, <2>3
<1>4. \A d \in Dirs : place[d] \in {"absent", "dest"}
    BY <1>2, <1>3 DEF TypeOK, Places
<1>5. ASSUME NEW d \in Dirs, place[d] = "dest" PROVE Whole(d)
    <2> DEFINE e == <<"dest", bundle[d].plugin>>
    <2>1. bundle[d].plugin \in Plugins /\ d \in InstalledAt(bundle[d].plugin)
        BY <1>5 DEF TypeOK, Bundles, InstalledAt
    <2>2. d \in Named(e)
        BY <2>1 DEF Named
    <2>3. e \in Present
        BY <2>1, <2>2 DEF Present, Entries
    <2> QED
        BY <1>1, <2>2, <2>3
<1>6. \A n \in Plugins : InstalledAt(n) = {} => Served(n) = 0
    BY DEF Served
<1>7. ASSUME NEW d \in Dirs, place[d] = "dest"
      PROVE  Served(bundle[d].plugin) = bundle[d].version
    <2> DEFINE loads == {x \in InstalledAt(bundle[d].plugin) : Loadable(x)}
    <2>1. loads = {d}
        <3>1. Loadable(d)
            BY <1>5, <1>7, FilesAssumption DEF Whole, Loadable
        <3> QED
            BY <1>7, <3>1 DEF InstalledAt, SInv, SlotUnique
    <2>2. (CHOOSE x \in loads : TRUE) = d
        BY <2>1
    <2> QED
        BY <2>1, <2>2 DEF Served
<1> QED
    BY <1>1, <1>4, <1>5, <1>6, <1>7

(* A listing names what is there. *)
LEMMA ListingsArePresent ==
    ASSUME NEW s \in Listings, NEW i \in 1..Len(s)
    PROVE  s[i] \in Present
<1>1. s \in Seq(Present)
    BY PresentFinite, OrderingsAreSequences, EmptySeq DEF Listings
<1> QED
    BY <1>1, ElementOfSeq

(* A command that finds whole plugins only knows what it found. *)
LEMMA TidyLaunch ==
    ASSUME IInv, SInv, CInv, CInv', NEW p \in Procs, NEW r \in Requests, Launch(p, r),
           launch'[p].tidy
    PROVE  DestNames(p)' /\ TidyDir(p)' /\ ChecksTrue(p)' /\ GoalTrue(p)'
<1> DEFINE d == cmd'[p]
<1>1. /\ launch'[p].before = [n \in Plugins |-> Served(n)] /\ Tidy
      /\ UNCHANGED vars
    BY DEF Launch
<1>2. /\ d.checks = <<>> /\ d.results = <<>> /\ \A n \in Plugins : d.index[n] = 0
      /\ d.stage \in {"task", "index", "check"} /\ d.op = r.op /\ d.all = r.all
      /\ d.names \in IF r.all /\ r.op # "install" THEN Listings
                     ELSE {[i \in 1..Len(r.names) |-> <<"dest", r.names[i]>>]}
    BY LaunchShape
<1>3. TypeOK
    BY DEF IInv
<1>4. /\ \A e \in Dirs : place[e] \in {"absent", "dest"}
      /\ \A e \in Dirs : place[e] = "dest" => Whole(e)
      /\ \A e \in Present : e[1] = "dest"
      /\ \A n \in Plugins : InstalledAt(n) = {} => Served(n) = 0
      /\ \A e \in Dirs : place[e] = "dest" => Served(bundle[e].plugin) = bundle[e].version
    BY <1>1, <1>3, TidyMeans
<1>5. DestNames(p)'
    <2>1. CASE d.names \in Listings
        BY <1>4, <2>1, ListingsArePresent DEF DestNames
    <2>2. CASE d.names = [i \in 1..Len(r.names) |-> <<"dest", r.names[i]>>]
        <3>1. Len(r.names) \in Nat /\ d.names \in Seq(Entries)
            BY RequestsAssumption, LenProperties DEF CInv, Commands
        <3>2. \A i \in 1..Len(r.names) : d.names[i][1] = "dest"
            BY <2>2
        <3>3. DOMAIN d.names = 1..Len(r.names)
            BY <2>2
        <3>4. Len(d.names) = Len(r.names)
            BY <3>1, <3>3, LenProperties
        <3> QED
            BY <3>2, <3>4 DEF DestNames
    <2> QED
        BY <1>2, <2>1, <2>2
<1>6. DirWhole(p)'
    BY <1>1, <1>4 DEF DirWhole, vars, Whole
<1>7. Versioned(p)'
    <2> SUFFICES ASSUME NEW e \in Dirs, place'[e] \in {"dest", "old"}
                 PROVE  MayLeave(p, bundle[e].plugin, bundle[e].version)'
        BY DEF Versioned
    <2>1. bundle[e].plugin \in Plugins /\ bundle[e].version \in Versions /\ bundle' = bundle
        BY <1>1, <1>3 DEF TypeOK, Bundles, vars
    <2>2. launch'[p].before[bundle[e].plugin] = bundle[e].version
        BY <1>1, <1>4, <2>1 DEF vars
    <2>3. bundle[e].version # 0
        BY <2>1, VersionsAssumption
    <2> QED
        BY <2>1, <2>2, <2>3 DEF MayLeave
<1>8. Kept(p)'
    BY <1>1, <1>4 DEF Kept, Occupied, InstalledAt, vars
<1>9. Orderly(p)'
    BY <1>1, <1>4 DEF Orderly, vars
<1>10. BackupSound(p)' /\ GoalTrue(p)'
    BY <1>2 DEF BackupSound, GoalTrue
<1>11. ChecksTrue(p)'
    BY <1>2, EmptySeq DEF ChecksTrue
<1> QED
    BY <1>5, <1>6, <1>7, <1>8, <1>9, <1>10, <1>11 DEF TidyDir

(* A step of the call at work leaves the directory as a command that runs  *)
(* alone may leave it.                                                     *)
LEMMA TidyApply ==
    ASSUME IInv, SInv, TypeOK', CInv, InstallsFollow, VersionFollows,
           NEW p \in Procs, cmd[p].stage = "apply", cmd[p].op # "remove",
           cmd'[p] = cmd[p], launch'[p] = launch[p], Apply(p),
           handle[Job(p)] \subseteq Victim(Job(p)), TidyDir(p), GoalTrue(p)
    PROVE  TidyDir(p)'
<1>1. PICK j \in Jobs : j = Job(p) /\ j = Job(p)'
    BY JobsOfTasks DEF CInv, Proper, Counted, Job, At
<1>2. Step(j) /\ TypeOK /\ j \in Dirs
    BY <1>1 DEF Apply, IInv, Dirs
<1>3. via[j] = j /\ pc[j] \notin {"idle", "remove"}
    BY <1>1 DEF InstallsFollow
<1>4. /\ bundle' = bundle
      /\ pc[j] \in Doomed => pc'[j] \in Doomed
      /\ pc[j] = "dropOld" => pc'[j] \in {"dropOld", "changed", "cleanup"}
      /\ TouchesOwn(j)
      /\ \/ Rests(j)
         \/ TakesName(j)
         \/ \E d \in Dirs : MovesAside(j, d) \/ MovesBack(j, d)
         \/ Clears(j)
    BY <1>1, <1>2, <1>3, CallEffect
<1>5. Smooth(p)' => Smooth(p)
    BY <1>1, <1>4 DEF Smooth
<1>6. \A d \in Dirs : place[d] = "dest" => files'[d] = files[d]
    BY <1>4 DEF TouchesOwn, IInv, BackupsOwned
<1>7. \A n, v : MayLeave(p, n, v)' <=> MayLeave(p, n, v)
    BY DEF MayLeave
<1>8. /\ pc[j] \in {"publish", "setAside", "swapIn"} =>
           /\ bundle[j].plugin = Goal(p)
           /\ MayLeave(p, bundle[j].plugin, bundle[j].version)
           /\ cmd[p].op = "install" => launch[p].before[bundle[j].plugin] = 0
    <2> SUFFICES ASSUME pc[j] \in {"publish", "setAside", "swapIn"}
                 PROVE  /\ bundle[j].plugin = Goal(p)
                        /\ MayLeave(p, bundle[j].plugin, bundle[j].version)
                        /\ cmd[p].op = "install" => launch[p].before[bundle[j].plugin] = 0
        OBVIOUS
    <2>1. bundle[j].plugin = Goal(p) /\ bundle[j].version = cmd[p].index[Goal(p)]
        BY <1>1 DEF InstallsFollow, VersionFollows
    <2> QED
        BY <2>1 DEF GoalTrue, MayLeave
<1>9. \A d \in saved[j] : bundle[d].plugin = bundle[j].plugin
    BY DEF IInv, BackupsOwned
<1>10. DirWhole(p) /\ Versioned(p) /\ Kept(p) /\ Orderly(p) /\ BackupSound(p)
    BY DEF TidyDir
<1>11. CASE Rests(j)
    <2>1. DirWhole(p)' /\ Versioned(p)'
        BY <1>4, <1>6, <1>7, <1>10, <1>11 DEF DirWhole, Versioned, Whole, Rests
    <2>2. Kept(p)'
        BY <1>1, <1>2, <1>3, <1>4, <1>6, <1>10, <1>11
           DEF Kept, Whole, Rests, TouchesOwn, Occupied, InstalledAt
    <2>3. Orderly(p)'
        BY <1>1, <1>5, <1>10, <1>11 DEF Orderly, Rests
    <2>4. BackupSound(p)'
        <3> SUFFICES ASSUME pc'[j] \in {"swapIn", "rollback"}, NEW d \in saved[j],
                            place[d] = "old"
                     PROVE  Whole(d)'
            BY <1>1, <1>11 DEF BackupSound, Rests
        <3>1. pc[j] \in {"swapIn", "rollback"} /\ d \in Dirs
            BY <1>2, <1>11 DEF Rests, TypeOK
        <3>2. Whole(d) /\ files'[d] = files[d]
            BY <1>1, <1>4, <1>10, <3>1 DEF BackupSound, TouchesOwn
        <3> QED
            BY <3>2 DEF Whole
    <2> QED
        BY <2>1, <2>2, <2>3, <2>4 DEF TidyDir
<1>12. CASE TakesName(j)
    <2>1. DirWhole(p)'
        BY <1>2, <1>10, <1>12 DEF DirWhole, Whole, TakesName, TypeOK
    <2>2. Versioned(p)'
        BY <1>2, <1>4, <1>7, <1>8, <1>10, <1>12 DEF Versioned, TakesName, TypeOK
    <2>3. Kept(p)'
        <3> SUFFICES ASSUME NEW n \in Plugins, launch[p].before[n] # 0
                     PROVE  \/ Occupied(n)'
                            \/ /\ cmd[p].op # "install"
                               /\ \E d \in Dirs :
                                     /\ place'[d] = "old" /\ bundle'[d].plugin = n /\ Whole(d)'
                                     /\ pc'[j] = "dropOld" => d \notin saved'[j]
            BY <1>1 DEF Kept
        <3>1. CASE n = bundle[j].plugin
            BY <1>2, <1>4, <1>12, <3>1 DEF Occupied, InstalledAt, TakesName, TypeOK
        <3>2. CASE n # bundle[j].plugin
            <4>1. CASE Occupied(n)
                BY <1>2, <1>4, <1>12, <4>1 DEF Occupied, InstalledAt, TakesName, TypeOK
            <4>2. CASE ~Occupied(n)
                <5>1. PICK d \in Dirs : place[d] = "old" /\ bundle[d].plugin = n /\ Whole(d)
                    BY <1>10, <4>2 DEF Kept
                <5>2. d \notin saved'[j] /\ d # j
                    BY <1>9, <1>12, <3>2, <5>1 DEF TakesName
                <5> QED
                    BY <1>2, <1>4, <1>10, <1>12, <4>2, <5>1, <5>2 DEF Kept, TakesName, TypeOK, Whole
            <4> QED
                BY <4>1, <4>2
        <3> QED
            BY <3>1, <3>2
    <2>4. Orderly(p)'
        BY <1>1, <1>2, <1>5, <1>10, <1>12 DEF Orderly, TakesName, TypeOK
    <2>5. BackupSound(p)'
        BY <1>1, <1>12 DEF BackupSound, TakesName
    <2> QED
        BY <2>1, <2>2, <2>3, <2>4, <2>5 DEF TidyDir
<1>13. ASSUME NEW e \in Dirs, MovesAside(j, e)
       PROVE  TidyDir(p)'
    <2>1. e \in InstalledAt(bundle[j].plugin) /\ place[e] = "dest" /\ Whole(e)
        BY <1>10, <1>13 DEF MovesAside, InstalledAt, DirWhole
    <2>2. DirWhole(p)'
        BY <1>2, <1>10, <1>13 DEF DirWhole, Whole, MovesAside, TypeOK
    <2>3. Versioned(p)'
        BY <1>2, <1>4, <1>7, <1>10, <1>13, <2>1 DEF Versioned, MovesAside, TypeOK
    <2>4. Kept(p)'
        <3> SUFFICES ASSUME NEW n \in Plugins, launch[p].before[n] # 0
                     PROVE  \/ Occupied(n)'
                            \/ /\ cmd[p].op # "install"
                               /\ \E d \in Dirs :
                                     place'[d] = "old" /\ bundle'[d].plugin = n /\ Whole(d)'
            BY <1>1, <1>13 DEF Kept, MovesAside
        <3>1. CASE n = bundle[j].plugin
            <4>1. cmd[p].op # "install"
                BY <1>8, <1>13, <3>1 DEF MovesAside
            <4> QED
                BY <1>2, <1>4, <1>13, <2>1, <3>1, <4>1
                   DEF MovesAside, InstalledAt, TypeOK, Whole
        <3>2. CASE n # bundle[j].plugin
            <4>1. CASE Occupied(n)
                <5>1. PICK d \in Dirs : place[d] = "dest" /\ bundle[d].plugin = n
                    BY <4>1 DEF Occupied, InstalledAt
                <5>2. d # e
                    BY <2>1, <3>2, <5>1 DEF InstalledAt
                <5> QED
                    BY <1>2, <1>4, <1>13, <5>1, <5>2 DEF Occupied, InstalledAt, MovesAside, TypeOK
            <4>2. CASE ~Occupied(n)
                <5>1. PICK d \in Dirs : place[d] = "old" /\ bundle[d].plugin = n /\ Whole(d)
                    BY <1>10, <4>2 DEF Kept
                <5> QED
                    BY <1>2, <1>4, <1>10, <1>13, <4>2, <5>1 DEF Kept, MovesAside, TypeOK, Whole
            <4> QED
                BY <4>1, <4>2
        <3> QED
            BY <3>1, <3>2
    <2>5. Orderly(p)'
        BY <1>1, <1>2, <1>5, <1>10, <1>13 DEF Orderly, MovesAside, TypeOK
    <2>6. BackupSound(p)'
        BY <1>1, <1>2, <1>13, <2>1 DEF BackupSound, MovesAside, TypeOK, Whole
    <2> QED
        BY <2>2, <2>3, <2>4, <2>5, <2>6 DEF TidyDir
<1>14. ASSUME NEW e \in Dirs, MovesBack(j, e)
       PROVE  TidyDir(p)'
    <2>1. Whole(e) /\ bundle[e].plugin = bundle[j].plugin /\ place[e] = "old"
        BY <1>1, <1>9, <1>10, <1>14 DEF MovesBack, BackupSound
    <2>2. DirWhole(p)'
        BY <1>2, <1>10, <1>14, <2>1 DEF DirWhole, Whole, MovesBack, TypeOK
    <2>3. Versioned(p)'
        BY <1>2, <1>4, <1>7, <1>10, <1>14, <2>1 DEF Versioned, MovesBack, TypeOK
    <2>4. Kept(p)'
        <3> SUFFICES ASSUME NEW n \in Plugins, launch[p].before[n] # 0
                     PROVE  \/ Occupied(n)'
                            \/ /\ cmd[p].op # "install"
                               /\ \E d \in Dirs :
                                     place'[d] = "old" /\ bundle'[d].plugin = n /\ Whole(d)'
            BY <1>1, <1>14 DEF Kept, MovesBack
        <3>1. CASE n = bundle[j].plugin
            BY <1>2, <1>4, <1>14, <2>1, <3>1 DEF Occupied, InstalledAt, MovesBack, TypeOK
        <3>2. CASE n # bundle[j].plugin
            <4>1. CASE Occupied(n)
                BY <1>2, <1>4, <1>14, <2>1, <4>1 DEF Occupied, InstalledAt, MovesBack, TypeOK
            <4>2. CASE ~Occupied(n)
                <5>1. PICK d \in Dirs : place[d] = "old" /\ bundle[d].plugin = n /\ Whole(d)
                    BY <1>10, <4>2 DEF Kept
                <5>2. d # e
                    BY <2>1, <3>2, <5>1
                <5> QED
                    BY <1>2, <1>4, <1>10, <1>14, <4>2, <5>1, <5>2 DEF Kept, MovesBack, TypeOK, Whole
            <4> QED
                BY <4>1, <4>2
        <3> QED
            BY <3>1, <3>2
    <2>5. Orderly(p)'
        BY <1>1, <1>14 DEF Orderly, MovesBack, Smooth, Doomed
    <2>6. BackupSound(p)'
        BY <1>1, <1>14 DEF BackupSound, MovesBack
    <2> QED
        BY <2>2, <2>3, <2>4, <2>5, <2>6 DEF TidyDir
<1>15. CASE Clears(j)
    <2>1. \A d \in Dirs : \/ place'[d] = place[d]
                          \/ /\ place'[d] = "absent"
                             /\ \/ pc[j] = "dropOld" /\ d \in saved[j] /\ place[d] = "old"
                                \/ pc[j] = "cleanup" /\ place[d] = "tmp"
        BY <1>3, <1>15 DEF Clears, Victim
    <2>2. DirWhole(p)' /\ Versioned(p)'
        BY <1>4, <1>6, <1>7, <1>10, <1>15, <2>1 DEF DirWhole, Versioned, Whole, Clears
    <2>3. Kept(p)'
        <3> SUFFICES ASSUME NEW n \in Plugins, launch[p].before[n] # 0
                     PROVE  \/ Occupied(n)'
                            \/ /\ cmd[p].op # "install"
                               /\ \E d \in Dirs :
                                     place'[d] = "old" /\ bundle'[d].plugin = n /\ Whole(d)'
            BY <1>1, <1>15 DEF Kept, Clears
        <3>1. CASE Occupied(n)
            BY <1>4, <2>1, <3>1 DEF Occupied, InstalledAt
        <3>2. CASE ~Occupied(n)
            <4>1. /\ cmd[p].op # "install"
                  /\ \E d \in Dirs :
                        /\ place[d] = "old" /\ bundle[d].plugin = n /\ Whole(d)
                        /\ pc[j] = "dropOld" => d \notin saved[j]
                BY <1>1, <1>10, <3>2 DEF Kept
            <4> QED
                BY <1>4, <1>15, <2>1, <4>1 DEF Clears, Whole
        <3> QED
            BY <3>1, <3>2
    <2>4. Orderly(p)'
        BY <1>1, <1>5, <1>10, <1>15, <2>1 DEF Orderly, Clears
    <2>5. BackupSound(p)'
        BY <1>1, <1>15 DEF BackupSound, Clears
    <2> QED
        BY <2>2, <2>3, <2>4, <2>5 DEF TidyDir
<1> QED
    BY <1>4, <1>11, <1>12, <1>13, <1>14, <1>15

(* A look-up made before anything was replaced tells what was served.      *)
LEMMA LookupTrue ==
    ASSUME TypeOK, NEW p \in Procs, TidyDir(p), NEW n \in Plugins,
           NEW k \in Lookups(<<"dest", n>>), k \in Checks, k.plugin = n,
           Smooth(p), cmd[p].stage \in {"task", "check"}
    PROVE  /\ k.state = "absent" => launch[p].before[n] = 0
           /\ k.state = "loaded" =>
                 /\ Occupied(n)
                 /\ (\A m \in Plugins : cmd[p].index[m] = 0)
                       => k.version = launch[p].before[n] /\ k.version # 0
<1>1. ASSUME k.state = "absent" PROVE launch[p].before[n] = 0
    <2>1. <<"dest", n>> \notin Present
        BY <1>1 DEF Lookups, Check
    <2>2. ~Occupied(n)
        BY <2>1 DEF Present, Named, Entries, Occupied, InstalledAt
    <2>3. \A d \in Dirs : place[d] # "old"
        BY DEF TidyDir, Orderly
    <2> QED
        BY <2>2, <2>3 DEF TidyDir, Kept
<1>2. ASSUME k.state = "loaded" PROVE
          \E d \in InstalledAt(n) : k.version = bundle[d].version
    <2>1. PICK d \in Named(<<"dest", n>>) : k = Check("loaded", bundle[d].plugin, bundle[d].version)
        BY <1>2 DEF Lookups, Check
    <2> QED
        BY <2>1 DEF Named, Check
<1>3. ASSUME k.state = "loaded", \A m \in Plugins : cmd[p].index[m] = 0
      PROVE  k.version = launch[p].before[n] /\ k.version # 0
    <2>1. PICK d \in InstalledAt(n) : k.version = bundle[d].version
        BY <1>2, <1>3
    <2>2. bundle[d].version \in Versions /\ bundle[d].plugin = n /\ d \in Dirs /\ place[d] = "dest"
        BY DEF InstalledAt, TypeOK, Bundles
    <2>3. MayLeave(p, n, bundle[d].version)
        BY <2>2 DEF TidyDir, Versioned
    <2> QED
        BY <1>3, <2>1, <2>2, <2>3, VersionsAssumption DEF MayLeave
<1> QED
    BY <1>1, <1>2, <1>3 DEF Occupied

(* Results none of which failed, the last one included, had none that      *)
(* failed before that one was added.                                       *)
LEMMA NoneFailedBefore ==
    ASSUME NEW s, NEW t, NEW o, Len(s) \in Nat,
           t[Len(s) + 1] = o, \A m \in 1..Len(s) : t[m] = s[m],
           \A m \in 1..Len(s) + 1 : t[m] # "failed"
    PROVE  o # "failed" /\ \A m \in 1..Len(s) : s[m] # "failed"
<1>1. \A m \in 1..Len(s) : m \in 1..Len(s) + 1
    OBVIOUS
<1>2. Len(s) + 1 \in 1..Len(s) + 1
    OBVIOUS
<1> QED
    BY <1>1, <1>2

(* The other steps of a command that runs alone and replaces plugins.      *)
LEMMA TidyMoves ==
    ASSUME IInv, SInv, TypeOK', CInv, CInv', TurnInv,
           NEW p \in Procs, Moves(p), ~(cmd'[p] = cmd[p] /\ Apply(p)),
           cmd[p].op # "remove", launch'[p] = launch[p],
           DestNames(p), TidyDir(p), ChecksTrue(p), GoalTrue(p)
    PROVE  DestNames(p)' /\ TidyDir(p)' /\ ChecksTrue(p)' /\ GoalTrue(p)'
<1> DEFINE c == cmd[p]
           d == cmd'[p]
<1>1. /\ c \in Commands /\ d \in Commands /\ Proper(c) /\ Proper(d)
      /\ Len(c.checks) \in Nat /\ Len(c.names) \in Nat /\ Len(c.results) \in Nat
      /\ d.op = c.op /\ TypeOK
    <2>1. Proper(cmd[p])'
        BY DEF CInv
    <2>2. Proper(d)
        BY <2>1 DEF Proper, Counted, ChecksDone, Prechecks, ChecksMatch, GoalKnown, GoalOf
    <2> QED
        BY <2>2, LenProperties DEF CInv, Commands, Moves, IInv
<1>2. DirWhole(p) /\ Versioned(p) /\ Kept(p) /\ Orderly(p) /\ BackupSound(p)
    BY DEF TidyDir
<1>3. ASSUME UNCHANGED vars, d.index = c.index, d.stage # "apply", Smooth(p)' => Smooth(p),
             c.stage = "apply" /\ Smooth(p)' => pc[Job(p)] = "changed"
      PROVE  TidyDir(p)'
    <2>1. \A n, v : MayLeave(p, n, v)' <=> MayLeave(p, n, v)
        BY <1>1, <1>3 DEF MayLeave
    <2>2. DirWhole(p)' /\ Versioned(p)'
        BY <1>2, <1>3, <2>1 DEF DirWhole, Versioned, vars, Whole
    <2>3. Kept(p)'
        BY <1>1, <1>2, <1>3 DEF Kept, Occupied, InstalledAt, vars, Whole
    <2>4. Orderly(p)'
        <3> SUFFICES ASSUME Smooth(p)', NEW e \in Dirs
                     PROVE  place[e] \in {"absent", "dest"}
            BY <1>3 DEF Orderly, vars
        <3>1. Smooth(p)
            BY <1>3
        <3>2. CASE c.stage = "apply"
            <4>1. pc[Job(p)] = "changed" /\ Job(p) \in Jobs
                BY <1>3, <3>2, JobsOfTasks DEF CInv, Proper, Counted
            <4>2. place[Job(p)] # "tmp" /\ \A x \in saved[Job(p)] : place[x] = "absent"
                BY <4>1 DEF SInv, SuccessLeavesNothing
            <4> QED
                BY <1>2, <3>1, <4>2 DEF Orderly
        <3> QED
            BY <1>2, <3>1, <3>2 DEF Orderly
    <2>5. BackupSound(p)'
        BY <1>3 DEF BackupSound
    <2> QED
        BY <2>2, <2>3, <2>4, <2>5 DEF TidyDir
<1>4. CASE /\ UNCHANGED vars
           /\ c.stage = "check" /\ d.stage = "check"
           /\ d.names = c.names /\ d.index = c.index /\ d.results = c.results
           /\ Len(c.checks) < Len(c.names)
           /\ \E k \in Lookups(c.names[Len(c.checks) + 1]) : d.checks = Append(c.checks, k)
    <2> DEFINE i == Len(c.checks) + 1
    <2>1. PICK k \in Lookups(c.names[i]) : d.checks = Append(c.checks, k)
        BY <1>4
    <2>2. i \in 1..Len(c.names) /\ c.names[i] \in Entries /\ c.names[i][1] = "dest"
        BY <1>1, <1>4, ElementOfSeq DEF Commands, DestNames
    <2>3. PICK n \in Plugins : c.names[i] = <<"dest", n>>
        BY <2>2 DEF Entries
    <2>4. k \in Checks /\ k.plugin = n
        BY <1>1, <2>1, <2>2, <2>3, LookupsTyped
    <2>5. c.results = <<>> /\ Smooth(p)
        BY <1>1, <1>4, EmptySeq DEF Proper, Counted, Smooth
    <2>6. \A m \in Plugins : c.index[m] = 0
        BY <1>4 DEF TurnInv, IndexUnread
    <2>7. /\ k.state = "absent" => launch[p].before[n] = 0
          /\ k.state = "loaded" => k.version = launch[p].before[n] /\ k.version # 0
        BY <1>1, <1>4, <2>1, <2>3, <2>4, <2>5, <2>6, LookupTrue
    <2>8. /\ Len(d.checks) = i /\ d.checks[i] = k
          /\ \A m \in 1..Len(c.checks) : d.checks[m] = c.checks[m]
        BY <1>1, <2>1, <2>4, AppendProperties DEF Commands
    <2>9. ChecksTrue(p)'
        <3> SUFFICES ASSUME NEW m \in 1..Len(d.checks)
                     PROVE  LET x == d.checks[m]
                            IN  /\ x.state = "loaded" => /\ x.version = launch[p].before[x.plugin]
                                                         /\ x.version # 0
                                /\ x.state = "absent" => launch[p].before[x.plugin] = 0
            BY DEF ChecksTrue
        <3>1. CASE m = i
            BY <2>4, <2>7, <2>8, <3>1
        <3>2. CASE m # i
            <4>1. m \in 1..Len(c.checks)
                BY <1>1, <2>8, <3>2
            <4> QED
                BY <2>8, <4>1 DEF ChecksTrue
        <3> QED
            BY <3>1, <3>2
    <2>10. TidyDir(p)'
        BY <1>3, <1>4, <2>5
    <2> QED
        BY <1>4, <2>9, <2>10 DEF DestNames, GoalTrue
<1>5. CASE /\ UNCHANGED vars
           /\ c.stage = "check" /\ d.stage \in {"index", "task"}
           /\ d.names = c.names /\ d.index = c.index /\ d.results = c.results
           /\ d.checks = c.checks
    <2>1. Smooth(p)' => Smooth(p)
        BY <1>5 DEF Smooth
    <2> QED
        BY <1>3, <1>5, <2>1 DEF DestNames, GoalTrue, ChecksTrue
<1>6. CASE /\ UNCHANGED vars
           /\ c.stage = "index" /\ d.stage = "task"
           /\ d.checks = c.checks /\ d.results = c.results
           /\ d.names = c.names \/ (c.op = "install" /\ c.all)
    <2>1. DestNames(p)'
        BY <1>1, <1>6 DEF DestNames, Proper, ChecksMatch
    <2>2. ChecksTrue(p)' /\ GoalTrue(p)'
        BY <1>6 DEF ChecksTrue, GoalTrue
    <2>3. ASSUME NEW e \in Dirs, place[e] \in {"dest", "old"}
          PROVE  MayLeave(p, bundle[e].plugin, bundle[e].version)'
        <3>1. MayLeave(p, bundle[e].plugin, bundle[e].version)
            BY <1>2, <2>3 DEF Versioned
        <3>2. bundle[e].plugin \in Plugins /\ bundle[e].version \in Versions
            BY <1>1 DEF TypeOK, Bundles
        <3>3. c.index[bundle[e].plugin] = 0 /\ bundle[e].version # 0
            BY <1>6, <3>2, VersionsAssumption DEF TurnInv, IndexUnread
        <3>4. launch[p].before[bundle[e].plugin] # 0
              /\ bundle[e].version = launch[p].before[bundle[e].plugin]
            BY <3>1, <3>3 DEF MayLeave
        <3> QED
            BY <1>6, <3>4 DEF MayLeave, vars
    <2>4. DirWhole(p)' /\ Versioned(p)'
        BY <1>2, <1>6, <2>3 DEF DirWhole, Versioned, vars, Whole
    <2>5. Kept(p)'
        BY <1>1, <1>2, <1>6 DEF Kept, Occupied, InstalledAt, vars, Whole
    <2>6. Smooth(p)' => Smooth(p)
        BY <1>6 DEF Smooth
    <2>7. Orderly(p)' /\ BackupSound(p)'
        BY <1>2, <1>6, <2>6 DEF Orderly, BackupSound, vars
    <2> QED
        BY <2>1, <2>2, <2>4, <2>5, <2>7 DEF TidyDir
<1>7. CASE /\ UNCHANGED vars
           /\ c.stage = "task" /\ d.stage = "fetch" /\ c.op # "remove"
           /\ d.names = c.names /\ d.index = c.index /\ d.results = c.results
           /\ d.checks = c.checks
           /\ At(p) \in 1..Len(c.names)
           /\ \E k \in Relied(p) : Verdict(p, k) = "fetch"
    <2>1. PICK k \in Relied(p) : Verdict(p, k) = "fetch"
        BY <1>7
    <2>2. Goal(p)' = Goal(p)
        BY <1>1, <1>7 DEF Goal, At
    <2>3. /\ k \in Checks /\ k.plugin = Goal(p)
          /\ c.op # "install" => k = c.checks[At(p)]
          /\ c.op = "install" =>
                \/ k \in Lookups(c.names[At(p)])
                \/ \E i \in 1..Len(c.checks) : k = c.checks[i] /\ c.names[i] = c.names[At(p)]
        BY <1>1, <1>7, ReliedIsGoal
    <2>4. Smooth(p)' => Smooth(p)
        BY <1>7 DEF Smooth
    <2>5. TidyDir(p)'
        BY <1>3, <1>7, <2>4
    <2>6. ASSUME c.op = "install" PROVE launch[p].before[Goal(p)] = 0
        <3>1. k.state = "absent"
            BY <2>1, <2>3, <2>6 DEF Verdict, Checks
        <3>2. CASE k \in Lookups(c.names[At(p)])
            <4>1. c.names[At(p)] \in Entries /\ c.names[At(p)][1] = "dest"
                BY <1>1, <1>7, ElementOfSeq DEF Commands, DestNames
            <4>2. PICK n \in Plugins : c.names[At(p)] = <<"dest", n>>
                BY <4>1 DEF Entries
            <4>3. Goal(p) = n
                BY <2>6, <4>2 DEF Goal
            <4>4. <<"dest", n>> \notin Present
                BY <3>1, <3>2, <4>2 DEF Lookups, Check
            <4>5. ~Occupied(n)
                BY <4>4 DEF Present, Named, Entries, Occupied, InstalledAt
            <4> QED
                BY <1>2, <2>6, <4>3, <4>5 DEF Kept
        <3>3. CASE \E i \in 1..Len(c.checks) : k = c.checks[i]
            BY <2>3, <3>1, <3>3 DEF ChecksTrue
        <3> QED
            BY <2>3, <2>6, <3>2, <3>3
    <2>7. ASSUME c.op = "update" PROVE c.index[Goal(p)] > launch[p].before[Goal(p)]
        <3>1. k = c.checks[At(p)] /\ At(p) \in 1..Len(c.checks)
            BY <1>1, <1>7, <2>3, <2>7 DEF Proper, ChecksDone, Prechecks
        <3>2. k.state = "loaded" /\ ~(c.index[k.plugin] <= k.version)
            BY <2>1, <2>3, <2>7 DEF Verdict, Checks
        <3>3. k.version = launch[p].before[k.plugin]
            BY <3>1, <3>2 DEF ChecksTrue
        <3>4. c.index[k.plugin] \in Nat /\ k.version \in Nat
            BY <1>1, <2>3, VersionsAssumption DEF Checks, Commands, Indexes
        <3> QED
            BY <2>3, <3>2, <3>3, <3>4
    <2>8. GoalTrue(p)'
        BY <1>1, <1>7, <2>2, <2>6, <2>7 DEF GoalTrue
    <2> QED
        BY <1>7, <2>5, <2>8 DEF DestNames, ChecksTrue
<1>8. CASE /\ UNCHANGED vars
           /\ c.stage \in {"task", "fetch", "apply"} /\ d.stage = "task"
           /\ d.names = c.names /\ d.index = c.index /\ d.checks = c.checks
           /\ \E o \in Outcomes :
                 /\ d.results = Append(c.results, o)
                 /\ \/ o = "failed"
                    \/ c.stage = "task"
                    \/ c.stage = "apply" /\ pc[Job(p)] = "changed"
    <2>1. PICK o \in Outcomes :
              /\ d.results = Append(c.results, o)
              /\ \/ o = "failed"
                 \/ c.stage = "task"
                 \/ c.stage = "apply" /\ pc[Job(p)] = "changed"
        BY <1>8
    <2>2. /\ Len(d.results) = Len(c.results) + 1 /\ d.results[Len(c.results) + 1] = o
          /\ \A m \in 1..Len(c.results) : d.results[m] = c.results[m]
        BY <1>1, <2>1, AppendProperties DEF Commands
    <2>3. ASSUME Smooth(p)' PROVE Smooth(p) /\ o # "failed"
        <3>1. \A m \in 1..Len(c.results) + 1 : d.results[m] # "failed"
            BY <2>2, <2>3 DEF Smooth
        <3>2. o # "failed" /\ \A m \in 1..Len(c.results) : c.results[m] # "failed"
            <4> DEFINE s == c.results
                       t == d.results
            <4>1. Len(s) \in Nat
                BY <1>1
            <4>2. t[Len(s) + 1] = o /\ \A m \in 1..Len(s) : t[m] = s[m]
                BY <2>2
            <4>3. \A m \in 1..Len(s) + 1 : t[m] # "failed"
                BY <3>1
            <4> HIDE DEF s, t
            <4>4. o # "failed" /\ \A m \in 1..Len(s) : s[m] # "failed"
                BY <4>1, <4>2, <4>3, NoneFailedBefore
            <4> QED
                BY <4>4 DEF s
        <3> QED
            BY <2>1, <3>2 DEF Smooth, Doomed
    <2>4. c.stage = "apply" /\ Smooth(p)' => pc[Job(p)] = "changed"
        BY <2>1, <2>3
    <2> QED
        BY <1>3, <1>8, <2>3, <2>4 DEF DestNames, ChecksTrue, GoalTrue
<1>9. CASE /\ c.stage = "fetch" /\ d.stage = "apply"
           /\ d.names = c.names /\ d.index = c.index /\ d.results = c.results
           /\ d.checks = c.checks
           /\ At(p) \in 1..Len(c.names)
           /\ StartInstall(p)
    <2>1. PICK j \in Jobs : j = Job(p) /\ j = Job(p)'
        BY <1>9, StartsCall DEF Job, At
    <2>2. Goal(p)' = Goal(p) /\ Goal(p) \in Plugins /\ c.index[Goal(p)] \in Versions
        BY <1>1, <1>9, StartsCall DEF Goal, At
    <2>3. \/ BeginInstall(j, Goal(p), c.index[Goal(p)])
          \/ MkdirFails(j)
        BY <1>9, <2>1, StartsCall
    <2>4. /\ pc[j] = "idle" /\ place[j] = "absent" /\ saved[j] = {}
          /\ \A e \in Dirs : e # j => bundle'[e] = bundle[e] /\ place'[e] = place[e]
          /\ place'[j] \in {"absent", "tmp"}
          /\ files' = files /\ saved' = saved /\ pc'[j] \in {"copy", "failed"}
          /\ place'[j] = "tmp" \/ (place' = place /\ pc'[j] = "failed")
        BY <1>1, <2>3 DEF BeginInstall, MkdirFails, Goto, IInv, IdleIsBlank, TypeOK, Dirs
    <2>5. \A n, v : MayLeave(p, n, v)' <=> MayLeave(p, n, v)
        BY <1>1, <1>9 DEF MayLeave
    <2>6. DirWhole(p)' /\ Versioned(p)'
        BY <1>2, <2>4, <2>5 DEF DirWhole, Versioned, Whole
    <2>7. Kept(p)'
        <3> SUFFICES ASSUME NEW n \in Plugins, launch[p].before[n] # 0
                     PROVE  \/ Occupied(n)'
                            \/ /\ c.op # "install"
                               /\ \E e \in Dirs :
                                     place'[e] = "old" /\ bundle'[e].plugin = n /\ Whole(e)'
            BY <1>1, <2>1, <2>4 DEF Kept
        <3>1. \A e \in Dirs : place[e] \in {"dest", "old"} =>
                  place'[e] = place[e] /\ bundle'[e] = bundle[e] /\ files'[e] = files[e]
            BY <2>4
        <3>2. CASE Occupied(n)
            BY <3>1, <3>2 DEF Occupied, InstalledAt
        <3>3. CASE ~Occupied(n)
            BY <1>2, <3>1, <3>3 DEF Kept, Whole
        <3> QED
            BY <3>2, <3>3
    <2>8. Orderly(p)'
        <3> SUFFICES ASSUME Smooth(p)', NEW e \in Dirs
                     PROVE  place'[e] \in {"absent", "dest"} \/ (e = j /\ place'[e] = "tmp")
            BY <1>9, <2>1 DEF Orderly
        <3>1. Smooth(p)
            BY <1>9 DEF Smooth
        <3>2. place[e] \in {"absent", "dest"}
            BY <1>2, <1>9, <3>1 DEF Orderly
        <3> QED
            BY <2>4, <3>2
    <2>9. BackupSound(p)'
        BY <2>1, <2>4 DEF BackupSound
    <2>10. GoalTrue(p)'
        BY <1>1, <1>9, <2>2 DEF GoalTrue
    <2> QED
        BY <1>9, <2>6, <2>7, <2>8, <2>9, <2>10 DEF TidyDir, DestNames, ChecksTrue
<1>10. ~StartRemove(p) \/ ~(At(p) \in 1..Len(c.names)) \/ d.stage # "apply"
    BY StartsCall
<1>11. CASE d = c /\ Apply(p)
    BY <1>11
<1> QED
    BY <1>4, <1>5, <1>6, <1>7, <1>8, <1>9, <1>10, <1>11 DEF Moves

(* Every step of any process keeps what a command that runs alone knows.   *)
LEMMA TidyRunStep ==
    ASSUME IInv, IInv', SInv, CInv, CInv', InstallsFollow, TurnInv, HandleHere, TidyRun,
           [CmdNext]_cvars
    PROVE  TidyRun'
<1> SUFFICES ASSUME NEW p \in Procs, Alone(p)', launch'[p].tidy
             PROVE  /\ DestNames(p)'
                    /\ cmd'[p].op # "remove" => TidyDir(p)' /\ ChecksTrue(p)' /\ GoalTrue(p)'
    BY DEF TidyRun
<1>1. TypeOK /\ TypeOK' /\ launch \in [Procs -> Launches] /\ AloneIs
    BY DEF IInv, TurnInv
<1>2. CASE \E r \in Requests : Launch(p, r)
    BY <1>2, TidyLaunch
<1>3. CASE Alone(p) /\ launch'[p] = launch[p] /\ cmd'[p] = cmd[p] /\ UNCHANGED vars
    <2>1. /\ DestNames(p)
          /\ cmd[p].op # "remove" => TidyDir(p) /\ ChecksTrue(p) /\ GoalTrue(p)
        BY <1>3 DEF TidyRun
    <2>2. DestNames(p)' /\ (ChecksTrue(p) => ChecksTrue(p)') /\ (GoalTrue(p) => GoalTrue(p)')
        BY <1>3, <2>1 DEF DestNames, ChecksTrue, GoalTrue, Goal, At
    <2>3. Job(p)' = Job(p) /\ \A n, v : MayLeave(p, n, v)' <=> MayLeave(p, n, v)
        BY <1>3 DEF Job, At, MayLeave
    <2>4. TidyDir(p) => TidyDir(p)'
        BY <1>3, <2>3 DEF TidyDir, DirWhole, Versioned, Kept, Orderly, BackupSound, vars, Whole,
                    Occupied, InstalledAt, Smooth
    <2> QED
        BY <1>3, <2>1, <2>2, <2>4
<1>4. CASE Alone(p) /\ launch' = launch /\ Proceed(p)
    <2>1. Moves(p)
        BY <1>4, ProceedMoves DEF Alone
    <2>2. cmd'[p].op = cmd[p].op
        BY <2>1 DEF Moves
    <2>3. /\ DestNames(p)
          /\ cmd[p].op # "remove" => TidyDir(p) /\ ChecksTrue(p) /\ GoalTrue(p)
        BY <1>4 DEF TidyRun
    <2>4. CASE cmd[p].op = "remove"
        <3>1. cmd'[p].names = cmd[p].names
            BY <2>1, <2>4 DEF Moves
        <3> QED
            BY <2>2, <2>3, <2>4, <3>1 DEF DestNames
    <2>5. CASE cmd[p].op # "remove" /\ cmd'[p] = cmd[p] /\ Apply(p)
        <3>1. cmd[p].stage = "apply" /\ handle[Job(p)] \subseteq Victim(Job(p))
            BY <1>4, <2>5 DEF Apply, HandleHere
        <3>2. TidyDir(p)'
            BY <1>1, <1>4, <2>3, <2>5, <3>1, TidyApply DEF TurnInv
        <3> QED
            BY <1>4, <2>3, <2>5, <3>2 DEF DestNames, ChecksTrue, GoalTrue, Goal, At
    <2>6. CASE cmd[p].op # "remove" /\ ~(cmd'[p] = cmd[p] /\ Apply(p))
        BY <1>1, <1>4, <2>1, <2>3, <2>6, TidyMoves
    <2> QED
        BY <2>4, <2>5, <2>6
<1> QED
    BY <1>1, <1>2, <1>3, <1>4, Turn

(* Nothing runs when a behaviour begins. *)
LEMMA AloneInit == CmdInit => HandleHere /\ TidyRun
<1> SUFFICES ASSUME CmdInit PROVE HandleHere /\ TidyRun
    OBVIOUS
<1>1. \A p \in Procs : cmd[p] = Idle
    BY DEF CmdInit
<1>2. Idle.stage = "ready"
    BY DEF Idle
<1>3. \A p \in Procs : ~InProgress(p)
    BY <1>1, <1>2 DEF InProgress, Active
<1> QED
    BY <1>3 DEF HandleHere, TidyRun, Alone

(* A command that goes on and ends only reports. *)
LEMMA ProceedEnds ==
    ASSUME CInv, NEW p \in Procs, Proceed(p), ~InProgress(p)'
    PROVE  /\ ReadIndexFails(p) \/ Report(p) \/ DisplayFails(p)
           /\ UNCHANGED vars
           /\ cmd'[p].op = cmd[p].op /\ cmd'[p].index = cmd[p].index
           /\ cmd'[p].names = cmd[p].names /\ cmd'[p].all = cmd[p].all
           /\ cmd'[p].results = cmd[p].results
<1>1. cmd[p] \in Commands /\ cmd'[p].stage \notin Active
    BY DEF CInv, InProgress
<1>2. ~(CheckTarget(p) \/ Apply(p))
    BY <1>1 DEF CheckTarget, Apply, CInv, Commands, Active
<1>3. ~(\E idx \in Indexes : ReadIndex(p, idx))
    <2> SUFFICES ASSUME NEW idx \in Indexes, ReadIndex(p, idx) PROVE FALSE
        OBVIOUS
    <2>1. PICK names : cmd' = [cmd EXCEPT ![p].stage = "task", ![p].index = idx,
                                          ![p].names = names]
        BY DEF ReadIndex
    <2>2. cmd'[p].stage = "task"
        BY <1>1, <2>1 DEF CInv, Commands
    <2> QED
        BY <1>1, <2>2 DEF Active
<1>4. ~(EndChecks(p) \/ Decide(p) \/ FetchFails(p) \/ StartInstall(p)
        \/ StartRemove(p) \/ Collect(p))
    BY <1>1 DEF EndChecks, Decide, FetchFails, StartInstall, StartRemove, Collect, Enter,
                Result, CInv, Commands, Active
<1>5. ReadIndexFails(p) \/ Report(p) \/ DisplayFails(p)
    BY <1>2, <1>3, <1>4 DEF Proceed
<1>6. PICK ok : Finish(p, ok)
    BY <1>5 DEF ReadIndexFails, Report, DisplayFails
<1>7. /\ cmd'[p].op = cmd[p].op /\ cmd'[p].index = cmd[p].index
      /\ cmd'[p].names = cmd[p].names /\ cmd'[p].all = cmd[p].all
      /\ cmd'[p].results = cmd[p].results
    BY <1>1, <1>6 DEF Finish, CInv, Commands
<1> QED
    BY <1>5, <1>7 DEF ReadIndexFails, Report, DisplayFails

(* The directory a command that runs alone leaves has every plugin in it.  *)
Harmless ==
    \A p \in Procs : Alone(p) /\ launch[p].tidy /\ cmd[p].op # "remove" =>
        \A n \in Plugins : launch[p].before[n] # 0 => Unharmed(p, n)

LEMMA TidyHarmless == TidyRun => Harmless
<1> SUFFICES ASSUME TidyRun, NEW p \in Procs, Alone(p), launch[p].tidy, cmd[p].op # "remove",
                    NEW n \in Plugins, launch[p].before[n] # 0
             PROVE  Unharmed(p, n)
    BY DEF Harmless
<1> DEFINE stays(d) == /\ place[d] = "dest" \/ (place[d] = "old" /\ cmd[p].op # "install")
                       /\ bundle[d].plugin = n /\ Whole(d)
<1>1. DirWhole(p) /\ Versioned(p) /\ Kept(p)
    BY DEF TidyRun, TidyDir
<1>2. PICK d \in Dirs : stays(d)
    <2>1. CASE Occupied(n)
        BY <1>1, <2>1 DEF Occupied, InstalledAt, DirWhole
    <2>2. CASE ~Occupied(n)
        BY <1>1, <2>2 DEF Kept
    <2> QED
        BY <2>1, <2>2
<1>3. MayLeave(p, n, bundle[d].version)
    BY <1>1, <1>2 DEF Versioned
<1> QED
    BY <1>2, <1>3 DEF Unharmed, MayLeave

LEMMA TidyHarmlessNext == TidyRun' => Harmless'
    BY TidyHarmless, PTL

(* Every step taken while such a command runs, the last one included,      *)
(* leaves every plugin unharmed.                                           *)
LEMMA HarmlessStep ==
    ASSUME IInv, CInv, TurnInv, TidyRun, TidyRun', [CmdNext]_cvars,
           NEW p \in Procs, InProgress(p), cmd[p].op # "remove",
           launch[p].alone, launch[p].tidy,
           NEW n \in Plugins, launch[p].before[n] # 0
    PROVE  Unharmed(p, n)'
<1>1. TypeOK /\ launch \in [Procs -> Launches] /\ AloneIs /\ Alone(p)
    BY DEF IInv, TurnInv, Alone
<1>2. Unharmed(p, n)
    BY <1>1, TidyHarmless DEF Harmless
<1>3. ASSUME UNCHANGED <<place, files, bundle>>, cmd'[p].op = cmd[p].op,
             cmd'[p].index = cmd[p].index, launch'[p].before = launch[p].before
      PROVE  Unharmed(p, n)'
    BY <1>2, <1>3 DEF Unharmed, Whole
<1>4. ASSUME Alone(p)', cmd'[p].op = cmd[p].op, launch'[p] = launch[p]
      PROVE  Unharmed(p, n)'
    <2>1. launch'[p].before[n] # 0 /\ launch'[p].tidy /\ cmd'[p].op # "remove"
        BY <1>4
    <2> QED
        BY <1>4, <2>1, TidyHarmlessNext DEF Harmless
<1>5. CASE UNCHANGED cvars
    BY <1>3, <1>5 DEF cvars, vars
<1>6. CASE CmdNext
    <2>1. PICK q \in Procs :
              \/ \E r \in Requests : Launch(q, r) \/ Refuse(q, r)
              \/ Proceed(q)
              \/ Kill(q)
        BY <1>6 DEF CmdNext
    <2>2. CASE q # p
        <3>1. cmd'[p] = cmd[p] /\ ~InProgress(q)
            BY <1>1, <2>1, <2>2, OwnCommand DEF AloneIs
        <3>2. PICK r \in Requests : Launch(q, r) \/ Refuse(q, r)
            BY <2>1, <3>1, WhoRunsOn
        <3>3. launch'[p].before = launch[p].before
            <4>1. CASE Launch(q, r)
                <5>1. launch'[p] = [launch[p] EXCEPT !.alone = @ /\ ~InProgress(p)]
                    BY <2>2, <4>1 DEF Launch
                <5>2. launch[p] \in Launches
                    BY <1>1
                <5> QED
                    BY <5>1, <5>2 DEF Launches
            <4> QED
                BY <3>2, <4>1 DEF Refuse
        <3> QED
            BY <1>3, <3>1, <3>2, <3>3 DEF Launch, Refuse, vars
    <2>3. CASE q = p /\ Kill(p)
        <3>1. cmd'[p].op = cmd[p].op /\ cmd'[p].index = cmd[p].index
            BY <2>3 DEF Kill, Enter, CInv, Commands
        <3> QED
            BY <1>3, <2>3, <3>1 DEF Kill, Crash, vars
    <2>4. CASE q = p /\ Proceed(p)
        <3>1. launch' = launch
            BY <2>4, WhoRunsOn
        <3>2. CASE InProgress(p)'
            <4>1. cmd'[p].op = cmd[p].op
                BY <2>4, <3>2, ProceedMoves DEF Moves
            <4> QED
                BY <1>1, <1>4, <3>1, <3>2, <4>1 DEF Alone
        <3>3. CASE ~InProgress(p)'
            BY <1>3, <2>4, <3>1, <3>3, ProceedEnds DEF vars
        <3> QED
            BY <3>2, <3>3
    <2> QED
        BY <2>1, <2>2, <2>3, <2>4, WhoRunsOn
<1> QED
    BY <1>5, <1>6

-----------------------------------------------------------------------------
(* What a command that runs alone delivers.                                *)

(* The version of n that an install, reinstall or update promises. *)
Want(p, n) ==
    LET old == launch[p].before[n]
        new == cmd[p].index[n]
    IN  IF cmd[p].op = "install" THEN (IF old # 0 THEN old ELSE new)
        ELSE IF cmd[p].op = "reinstall" THEN new
        ELSE IF old < new THEN new ELSE old

(* As long as nothing failed, every target dealt with is served as         *)
(* promised, but for the moment in which it is replaced once more.         *)
Met(p) ==
    Smooth(p) => \A i \in Targets(p) : i <= Len(cmd[p].results) =>
        \/ Serves(cmd[p].names[i][2], Want(p, cmd[p].names[i][2]))
        \/ /\ cmd[p].stage = "apply" /\ pc[Job(p)] = "swapIn"
           /\ bundle[Job(p)].plugin = cmd[p].names[i][2]

(* A call that has put the new bundle in place has delivered it. *)
Placed(p) ==
    cmd[p].stage = "apply" /\ pc[Job(p)] \in {"dropOld", "changed"}
        => Serves(Goal(p), Want(p, Goal(p)))

MetRun ==
    \A p \in Procs :
        Alone(p) /\ cmd[p].op # "remove" /\ (launch[p].tidy \/ cmd[p].op = "reinstall")
            => Met(p) /\ Placed(p)

(* A step of the call at work keeps what was delivered. *)
LEMMA MetApply ==
    ASSUME IInv, SInv, TypeOK', CInv, InstallsFollow, VersionFollows,
           NEW p \in Procs, cmd[p].stage = "apply", cmd[p].op # "remove",
           cmd'[p] = cmd[p], launch'[p] = launch[p], Apply(p),
           handle[Job(p)] \subseteq Victim(Job(p)),
           Want(p, Goal(p)) = cmd[p].index[Goal(p)], Met(p), Placed(p)
    PROVE  Met(p)' /\ Placed(p)'
<1>1. PICK j \in Jobs : j = Job(p) /\ j = Job(p)'
    BY JobsOfTasks DEF CInv, Proper, Counted, Job, At
<1>2. Step(j) /\ TypeOK /\ j \in Dirs
    BY <1>1 DEF Apply, IInv, Dirs
<1>3. via[j] = j /\ pc[j] \notin {"idle", "remove"}
    BY <1>1 DEF InstallsFollow
<1>4. /\ bundle' = bundle
      /\ pc[j] \in Doomed => pc'[j] \in Doomed
      /\ TouchesOwn(j)
      /\ \/ Rests(j)
         \/ TakesName(j)
         \/ \E d \in Dirs : MovesAside(j, d) \/ MovesBack(j, d)
         \/ Clears(j)
    BY <1>1, <1>2, <1>3, CallEffect
<1>5. \A d \in Dirs : place[d] = "dest" => files'[d] = files[d]
    BY <1>4 DEF TouchesOwn
<1>6. Smooth(p)' => Smooth(p) /\ pc'[j] \notin Doomed
    BY <1>1, <1>4 DEF Smooth
<1>7. Goal(p)' = Goal(p) /\ Targets(p)' = Targets(p) /\ \A n : Want(p, n)' = Want(p, n)
    BY DEF Goal, Targets, Want, At
<1>8. pc[j] # "failed" => /\ bundle[j].plugin = Goal(p)
                          /\ bundle[j].version = Want(p, Goal(p))
    BY <1>1 DEF InstallsFollow, VersionFollows
<1> DEFINE Dealt(i) == i \in Targets(p) /\ i <= Len(cmd[p].results)
           name(i) == cmd[p].names[i][2]
<1>9. ASSUME \A n, v : Serves(n, v) => Serves(n, v)',
             pc[j] = "swapIn" => pc'[j] \in Doomed,
             pc'[j] \in {"dropOld", "changed"} => pc[j] \in {"dropOld", "changed"}
      PROVE  Met(p)' /\ Placed(p)'
    <2>1. ASSUME Smooth(p)', NEW i, Dealt(i)
          PROVE  Serves(name(i), Want(p, name(i)))'
        <3>1. pc[j] # "swapIn" /\ Smooth(p)
            BY <1>6, <1>9, <2>1
        <3>2. Serves(name(i), Want(p, name(i)))
            BY <1>1, <2>1, <3>1 DEF Met
        <3>3. Serves(name(i), Want(p, name(i))')
            BY <1>7, <3>2
        <3> QED
            BY <1>9, <3>2, <1>7 DEF Serves
    <2>2. Met(p)'
        BY <1>7, <2>1 DEF Met
    <2>3. Placed(p)'
        <3> SUFFICES ASSUME pc'[j] \in {"dropOld", "changed"}
                     PROVE  Serves(Goal(p), Want(p, Goal(p)))'
            BY <1>1 DEF Placed
        <3>1. PICK n, v : /\ n = Goal(p) /\ v = Want(p, Goal(p))
                          /\ n = Goal(p)' /\ v = Want(p, Goal(p))'
            BY <1>7
        <3>2. Serves(n, v)
            BY <1>1, <1>9, <3>1 DEF Placed
        <3>3. Serves(n, v)'
            BY <1>9, <3>2
        <3> QED
            BY <3>1, <3>3 DEF Serves, InstalledAt
    <2> QED
        BY <2>2, <2>3
<1>10. CASE Rests(j) \/ Clears(j)
    <2>1. \A d \in Dirs : place[d] = "dest" =>
              place'[d] = "dest" /\ bundle'[d] = bundle[d] /\ files'[d] = files[d]
        BY <1>3, <1>4, <1>5, <1>10 DEF Rests, Clears, Victim
    <2>2. \A n, v : Serves(n, v) => Serves(n, v)'
        BY <2>1 DEF Serves, InstalledAt, Whole
    <2> QED
        BY <1>9, <1>10, <2>2 DEF Rests, Clears, Doomed
<1>11. CASE \E d \in Dirs : MovesBack(j, d)
    BY <1>1, <1>6, <1>11 DEF Met, Placed, MovesBack, Doomed
<1>12. CASE TakesName(j)
    <2>1. \A d \in Dirs : place[d] = "dest" =>
              place'[d] = "dest" /\ bundle'[d] = bundle[d] /\ files'[d] = files[d]
        BY <1>2, <1>4, <1>5, <1>12 DEF TakesName, TypeOK
    <2>2. \A n, v : Serves(n, v) => Serves(n, v)'
        BY <2>1 DEF Serves, InstalledAt, Whole
    <2>3. bundle[j].plugin = Goal(p) /\ bundle[j].version = Want(p, Goal(p))
        BY <1>8, <1>12 DEF TakesName
    <2>4. j \in InstalledAt(Goal(p))' /\ Whole(j)' /\ bundle'[j].version = Want(p, Goal(p))
        BY <1>2, <1>4, <1>7, <1>12, <2>3 DEF TakesName, InstalledAt, Whole, TypeOK
    <2>5. \E d \in InstalledAt(Goal(p))' : Whole(d)' /\ bundle'[d].version = Want(p, Goal(p))
        BY <2>4
    <2>6. Placed(p)'
        BY <1>7, <2>5 DEF Placed, Serves
    <2>7. ASSUME Smooth(p)', NEW i, Dealt(i)
          PROVE  \E d \in InstalledAt(name(i))' : Whole(d)' /\ bundle'[d].version = Want(p, name(i))
        <3>1. CASE Serves(name(i), Want(p, name(i)))
            BY <2>1, <3>1 DEF Serves, InstalledAt, Whole
        <3>2. CASE bundle[j].plugin = name(i)
            <4>1. name(i) = Goal(p)
                BY <2>3, <3>2
            <4> QED
                BY <1>7, <2>5, <4>1 DEF InstalledAt
        <3> QED
            BY <1>1, <1>6, <2>7, <3>1, <3>2 DEF Met
    <2>8. Met(p)'
        BY <1>7, <2>7 DEF Met, Serves, InstalledAt
    <2> QED
        BY <2>6, <2>8
<1>13. ASSUME NEW e \in Dirs, MovesAside(j, e)
       PROVE  Met(p)' /\ Placed(p)'
    <2>1. /\ pc'[j] = "swapIn" /\ pc[j] = "setAside"
          /\ bundle[e].plugin = bundle[j].plugin
          /\ \A d \in Dirs : d # e => place'[d] = place[d]
        BY <1>2, <1>13 DEF MovesAside, InstalledAt, TypeOK
    <2>2. Placed(p)'
        BY <1>1, <2>1 DEF Placed
    <2>3. ASSUME Smooth(p)', NEW i, Dealt(i), bundle[j].plugin # name(i)
          PROVE  \E d \in InstalledAt(name(i))' : Whole(d)' /\ bundle'[d].version = Want(p, name(i))
        <3>1. Serves(name(i), Want(p, name(i)))
            BY <1>1, <1>6, <2>1, <2>3 DEF Met
        <3>2. PICK d \in Dirs : /\ place[d] = "dest" /\ bundle[d].plugin = name(i) /\ Whole(d)
                                /\ bundle[d].version = Want(p, name(i))
            BY <3>1 DEF Serves, InstalledAt
        <3>3. d # e
            BY <2>1, <2>3, <3>2
        <3> QED
            BY <1>4, <1>5, <2>1, <3>2, <3>3 DEF InstalledAt, Whole
    <2>4. Met(p)'
        BY <1>1, <1>4, <1>7, <2>1, <2>3 DEF Met, Serves, InstalledAt
    <2> QED
        BY <2>2, <2>4
<1> QED
    BY <1>4, <1>10, <1>11, <1>12, <1>13

(* A target that a command passes over is served as promised. *)
LEMMA PassedOverIsServed ==
    ASSUME IInv, CInv, NEW p \in Procs, cmd[p].stage = "task", cmd[p].op # "remove",
           DestNames(p), TidyDir(p), ChecksTrue(p), Smooth(p),
           At(p) \in 1..Len(cmd[p].names),
           NEW k \in Relied(p), Verdict(p, k) \in {"skipped", "unchanged"}
    PROVE  Serves(Goal(p), Want(p, Goal(p)))
<1> DEFINE c == cmd[p]
           n == Goal(p)
<1>1. /\ TypeOK /\ c \in Commands /\ Proper(c)
      /\ Len(c.results) \in Nat /\ Len(c.names) \in Nat
    BY LenProperties DEF IInv, CInv, Commands
<1>2. /\ k \in Checks /\ k.plugin = n
      /\ c.op # "install" => k = c.checks[At(p)]
      /\ c.op = "install" =>
            \/ k \in Lookups(c.names[At(p)])
            \/ \E i \in 1..Len(c.checks) : k = c.checks[i] /\ c.names[i] = c.names[At(p)]
    BY <1>1, ReliedIsGoal
<1>3. n \in Plugins
    BY <1>2 DEF Checks
<1>4. /\ k.state = "loaded"
      /\ c.op \in {"install", "update"}
      /\ c.op = "update" => c.index[n] = 0 \/ c.index[n] <= k.version
    BY <1>2 DEF Verdict, Checks, Commands, Ops
<1>5. ASSUME NEW d \in InstalledAt(n) PROVE Whole(d) /\ MayLeave(p, n, bundle[d].version)
    BY DEF InstalledAt, TidyDir, DirWhole, Versioned
<1>6. CASE c.op = "install"
    <2>1. Occupied(n)
        <3>1. CASE k \in Lookups(c.names[At(p)])
            <4>1. c.names[At(p)] \in Entries /\ c.names[At(p)][1] = "dest"
                BY <1>1, ElementOfSeq DEF Commands, DestNames
            <4>2. PICK m \in Plugins : c.names[At(p)] = <<"dest", m>>
                BY <4>1 DEF Entries
            <4>3. n = m
                BY <1>6, <4>2 DEF Goal
            <4>4. PICK d \in Named(<<"dest", m>>) : TRUE
                BY <1>4, <3>1, <4>2 DEF Lookups, Check
            <4> QED
                BY <4>3, <4>4 DEF Named, Occupied
        <3>2. CASE \E i \in 1..Len(c.checks) : k = c.checks[i]
            <4>1. launch[p].before[n] # 0
                BY <1>2, <1>4, <3>2 DEF ChecksTrue
            <4> QED
                BY <1>6, <1>3, <4>1 DEF TidyDir, Kept
        <3> QED
            BY <1>2, <1>6, <3>1, <3>2
    <2>2. PICK d \in InstalledAt(n) : TRUE
        BY <2>1 DEF Occupied
    <2>3. bundle[d].version = Want(p, n)
        BY <1>5, <1>6, <2>2 DEF MayLeave, Want
    <2> QED
        BY <1>5, <2>3 DEF Serves
<1>7. CASE c.op = "update"
    <2>1. k = c.checks[At(p)] /\ At(p) \in 1..Len(c.checks)
        BY <1>1, <1>2, <1>7 DEF Proper, ChecksDone, Prechecks
    <2>2. k.version = launch[p].before[n] /\ launch[p].before[n] # 0
        BY <1>2, <1>4, <2>1 DEF ChecksTrue
    <2>3. c.index[n] \in Nat /\ k.version \in Nat
        <3>1. c.index \in Indexes /\ k.version \in Versions \cup {0}
            BY <1>1, <1>2 DEF Checks, Commands
        <3>2. c.index[n] \in Versions \cup {0}
            BY <1>3, <3>1 DEF Indexes
        <3>3. \A v \in Versions \cup {0} : v \in Nat
            BY VersionsAssumption
        <3> QED
            BY <3>1, <3>2, <3>3, Zenon
    <2>4. c.index[n] <= launch[p].before[n] /\ launch[p].before[n] \in Nat
        BY <1>4, <1>7, <2>2, <2>3
    <2>5. Occupied(n)
        BY <1>3, <2>2 DEF TidyDir, Kept, Orderly
    <2>6. PICK d \in InstalledAt(n) : TRUE
        BY <2>5 DEF Occupied
    <2>7. bundle[d].version = launch[p].before[n]
        BY <1>5, <1>7, <2>2, <2>3, <2>4 DEF MayLeave
    <2>8. Want(p, n) = launch[p].before[n]
        BY <1>7, <2>3, <2>4 DEF Want
    <2> QED
        BY <1>5, <2>7, <2>8 DEF Serves
<1> QED
    BY <1>4, <1>6, <1>7

(* The other steps of such a command. *)
LEMMA MetMoves ==
    ASSUME IInv, SInv, CInv, NEW p \in Procs, Moves(p), ~(cmd'[p] = cmd[p] /\ Apply(p)),
           cmd[p].op # "remove", launch'[p] = launch[p],
           \/ cmd[p].op = "reinstall"
           \/ DestNames(p) /\ TidyDir(p) /\ ChecksTrue(p),
           Met(p), Placed(p)
    PROVE  Met(p)' /\ Placed(p)'
<1> DEFINE c == cmd[p]
           d == cmd'[p]
<1>1. /\ c \in Commands /\ Proper(c) /\ TypeOK /\ d.op = c.op
      /\ Len(c.checks) \in Nat /\ Len(c.names) \in Nat /\ Len(c.results) \in Nat
    BY LenProperties DEF CInv, Commands, Moves, IInv
<1>2. ASSUME d.names = c.names, d.index = c.index
      PROVE  /\ Targets(p)' = Targets(p)
             /\ \A n : Want(p, n)' = Want(p, n)
    BY <1>1, <1>2 DEF Targets, Want
<1>3. ASSUME UNCHANGED vars, c.stage # "apply", d.stage # "apply",
             d.names = c.names, d.index = c.index, d.results = c.results
      PROVE  Met(p)' /\ Placed(p)'
    <2>1. Smooth(p)' => Smooth(p)
        BY <1>3 DEF Smooth
    <2>2. ASSUME Smooth(p)', NEW i \in Targets(p), i <= Len(c.results)
          PROVE  Serves(c.names[i][2], Want(p, c.names[i][2]))
        BY <1>3, <2>1, <2>2 DEF Met
    <2> QED
        BY <1>2, <1>3, <2>2 DEF Met, Placed, Serves, InstalledAt, vars, Whole
<1>4. CASE /\ c.stage = "index" /\ d.stage = "task"
           /\ d.results = c.results
    <2>1. d.results = <<>>
        BY <1>1, <1>4 DEF Proper, Counted
    <2> QED
        BY <1>4, <2>1, EmptySeq DEF Met, Placed, Targets
<1>5. CASE /\ UNCHANGED vars
           /\ c.stage \in {"task", "fetch", "apply"} /\ d.stage = "task"
           /\ d.names = c.names /\ d.index = c.index /\ d.checks = c.checks
           /\ At(p) \in 1..Len(c.names)
           /\ \E o \in Outcomes :
                 /\ d.results = Append(c.results, o)
                 /\ \/ o = "failed"
                    \/ /\ c.stage = "task" /\ c.op # "remove"
                       /\ \E k \in Relied(p) : o = Verdict(p, k)
                    \/ c.stage = "apply" /\ o = "changed" /\ pc[Job(p)] = "changed"
    <2>1. PICK o \in Outcomes :
              /\ d.results = Append(c.results, o)
              /\ \/ o = "failed"
                 \/ /\ c.stage = "task" /\ c.op # "remove"
                    /\ \E k \in Relied(p) : o = Verdict(p, k)
                 \/ c.stage = "apply" /\ o = "changed" /\ pc[Job(p)] = "changed"
        BY <1>5
    <2>2. /\ Len(d.results) = Len(c.results) + 1 /\ d.results[Len(c.results) + 1] = o
          /\ \A m \in 1..Len(c.results) : d.results[m] = c.results[m]
        BY <1>1, <2>1, AppendProperties DEF Commands
    <2>3. ASSUME Smooth(p)' PROVE Smooth(p) /\ o # "failed"
        <3>1. \A m \in 1..Len(c.results) + 1 : d.results[m] # "failed"
            BY <2>2, <2>3 DEF Smooth
        <3>2. o # "failed" /\ \A m \in 1..Len(c.results) : c.results[m] # "failed"
            <4> DEFINE s == c.results
                       t == d.results
            <4>1. Len(s) \in Nat
                BY <1>1
            <4>2. t[Len(s) + 1] = o /\ \A m \in 1..Len(s) : t[m] = s[m]
                BY <2>2
            <4>3. \A m \in 1..Len(s) + 1 : t[m] # "failed"
                BY <3>1
            <4> HIDE DEF s, t
            <4>4. o # "failed" /\ \A m \in 1..Len(s) : s[m] # "failed"
                BY <4>1, <4>2, <4>3, NoneFailedBefore
            <4> QED
                BY <4>4 DEF s
        <3> QED
            BY <2>1, <3>2 DEF Smooth, Doomed
    <2>4. ASSUME Smooth(p)', NEW i \in Targets(p), i <= Len(d.results)
          PROVE  Serves(c.names[i][2], Want(p, c.names[i][2]))
        <3>1. CASE i <= Len(c.results)
            <4>1. c.stage = "apply" => pc[Job(p)] # "swapIn"
                BY <2>1, <2>3, <2>4
            <4> QED
                BY <2>3, <2>4, <3>1, <4>1 DEF Met
        <3>2. CASE i = At(p)
            <4>1. c.names[i][1] = "dest" /\ i \in 1..Len(c.names)
                BY <2>4 DEF Targets
            <4>2. Goal(p) = c.names[i][2]
                <5>1. CASE c.op = "install"
                    BY <3>2, <5>1 DEF Goal
                <5>2. CASE c.op # "install"
                    <6>1. i \in 1..Len(c.checks)
                        BY <1>1, <1>5, <4>1, <5>2
                           DEF Proper, ChecksDone, Prechecks, Commands, Ops
                    <6>2. c.checks[i].plugin = c.names[i][2]
                        BY <1>1, <4>1, <6>1 DEF Proper, ChecksMatch
                    <6> QED
                        BY <3>2, <5>2, <6>2 DEF Goal
                <5> QED
                    BY <5>1, <5>2
            <4>3. Serves(Goal(p), Want(p, Goal(p)))
                <5>1. CASE c.stage = "apply" /\ pc[Job(p)] = "changed"
                    BY <5>1 DEF Placed
                <5>2. CASE c.stage = "task" /\ \E k \in Relied(p) : o = Verdict(p, k)
                    <6>1. PICK k \in Relied(p) : o = Verdict(p, k)
                        BY <5>2
                    <6>2. o \in {"skipped", "unchanged"} /\ c.op # "reinstall"
                        BY <2>1, <2>3, <2>4, <6>1 DEF Verdict, Outcomes
                    <6> QED
                        BY <1>5, <2>3, <2>4, <5>2, <6>1, <6>2, PassedOverIsServed
                <5> QED
                    BY <2>1, <2>3, <2>4, <5>1, <5>2
            <4> QED
                BY <4>2, <4>3
        <3>3. i \in Nat
            BY <1>1, <2>4 DEF Targets
        <3> QED
            BY <1>1, <2>2, <2>4, <3>1, <3>2, <3>3 DEF At
    <2> QED
        BY <1>2, <1>5, <2>4 DEF Met, Placed, Serves, InstalledAt, vars, Whole
<1>6. CASE /\ c.stage = "fetch" /\ d.stage = "apply"
           /\ d.names = c.names /\ d.index = c.index /\ d.results = c.results
           /\ At(p) \in 1..Len(c.names)
           /\ StartInstall(p)
    <2>1. PICK j \in Jobs : j = Job(p) /\ j = Job(p)'
        BY <1>6, StartsCall DEF Job, At
    <2>2. \/ BeginInstall(j, Goal(p), c.index[Goal(p)])
          \/ MkdirFails(j)
        BY <1>6, <2>1, StartsCall
    <2>3. /\ \A e \in Dirs : place[e] = "dest" => place'[e] = place[e] /\ bundle'[e] = bundle[e]
          /\ files' = files /\ pc'[j] \in {"copy", "failed"}
        BY <1>1, <2>2 DEF BeginInstall, MkdirFails, Goto, IInv, IdleIsBlank, TypeOK, Dirs
    <2>4. Smooth(p)' => Smooth(p)
        BY <1>6 DEF Smooth
    <2>5. ASSUME Smooth(p)', NEW i \in Targets(p), i <= Len(c.results)
          PROVE  \E e \in InstalledAt(c.names[i][2])' :
                    Whole(e)' /\ bundle'[e].version = Want(p, c.names[i][2])
        <3>1. Serves(c.names[i][2], Want(p, c.names[i][2]))
            BY <1>6, <2>4, <2>5 DEF Met
        <3> QED
            BY <1>6, <2>3, <3>1 DEF Serves, InstalledAt, Whole
    <2>6. Met(p)'
        BY <1>2, <1>6, <2>5 DEF Met, Serves, InstalledAt
    <2>7. Placed(p)'
        BY <2>1, <2>3 DEF Placed
    <2> QED
        BY <2>6, <2>7
<1>7. ~StartRemove(p) \/ ~(At(p) \in 1..Len(c.names)) \/ d.stage # "apply"
    BY StartsCall
<1> QED
    BY <1>3, <1>4, <1>5, <1>6, <1>7 DEF Moves

LEMMA MetRunInit == CmdInit => MetRun
<1> SUFFICES ASSUME CmdInit PROVE MetRun
    OBVIOUS
<1>1. \A p \in Procs : cmd[p] = Idle
    BY DEF CmdInit
<1>2. Idle.stage = "ready"
    BY DEF Idle
<1> QED
    BY <1>1, <1>2 DEF MetRun, Alone, InProgress, Active

(* What a call brings is what is promised of its plugin. *)
LEMMA GoalIsWanted ==
    ASSUME TypeOK, CInv, launch \in [Procs -> Launches], NEW p \in Procs,
           cmd[p].stage = "apply", cmd[p].op # "remove",
           GoalTrue(p) \/ cmd[p].op = "reinstall"
    PROVE  Want(p, Goal(p)) = cmd[p].index[Goal(p)]
<1> DEFINE n == Goal(p)
<1>1. cmd[p] \in Commands /\ launch[p] \in Launches
    BY DEF CInv
<1>2. CASE cmd[p].op \in {"install", "reinstall"}
    BY <1>2 DEF GoalTrue, Want
<1>3. CASE cmd[p].op = "update"
    <2>1. cmd[p].index[n] > launch[p].before[n]
        BY <1>3 DEF GoalTrue
    <2>2. launch[p].before[n] < cmd[p].index[n]
        BY <2>1
    <2> QED
        BY <1>3, <2>2 DEF Want
<1> QED
    BY <1>1, <1>2, <1>3 DEF Commands, Ops

(* What was delivered stays delivered. *)
LEMMA MetRunStep ==
    ASSUME IInv, IInv', SInv, CInv, CInv', InstallsFollow, TurnInv, HandleHere, TidyRun,
           MetRun, [CmdNext]_cvars
    PROVE  MetRun'
<1> SUFFICES ASSUME NEW p \in Procs, Alone(p)', cmd'[p].op # "remove",
                    launch'[p].tidy \/ cmd'[p].op = "reinstall"
             PROVE  Met(p)' /\ Placed(p)'
    BY DEF MetRun
<1>1. TypeOK /\ TypeOK' /\ launch \in [Procs -> Launches] /\ AloneIs
    BY DEF IInv, TurnInv
<1>2. CASE \E r \in Requests : Launch(p, r)
    <2>1. cmd'[p].results = <<>> /\ cmd'[p].stage # "apply"
        BY <1>2, LaunchShape
    <2> QED
        BY <2>1, EmptySeq DEF Met, Placed, Targets
<1>3. CASE Alone(p) /\ launch'[p] = launch[p] /\ cmd'[p] = cmd[p] /\ UNCHANGED vars
    <2>1. Met(p) /\ Placed(p)
        BY <1>3 DEF MetRun
    <2>2. /\ Targets(p)' = Targets(p) /\ Goal(p)' = Goal(p) /\ Job(p)' = Job(p)
          /\ \A n : Want(p, n)' = Want(p, n)
        BY <1>3 DEF Targets, Goal, Job, At, Want
    <2>3. Met(p)'
        BY <1>3, <2>1, <2>2 DEF Met, Smooth, Serves, InstalledAt, vars, Whole
    <2>4. Placed(p)'
        BY <1>3, <2>1, <2>2 DEF Placed, Serves, InstalledAt, vars, Whole
    <2> QED
        BY <2>3, <2>4
<1>4. CASE Alone(p) /\ launch' = launch /\ Proceed(p)
    <2>1. Moves(p)
        BY <1>4, ProceedMoves DEF Alone
    <2>2. cmd'[p].op = cmd[p].op
        BY <2>1 DEF Moves
    <2>3. Met(p) /\ Placed(p)
        BY <1>4, <2>2 DEF MetRun
    <2>4. \/ cmd[p].op = "reinstall"
          \/ DestNames(p) /\ TidyDir(p) /\ ChecksTrue(p) /\ GoalTrue(p)
        BY <1>4, <2>2 DEF TidyRun
    <2>5. CASE cmd'[p] = cmd[p] /\ Apply(p)
        <3>1. cmd[p].stage = "apply" /\ handle[Job(p)] \subseteq Victim(Job(p))
            BY <1>4, <2>5 DEF Apply, HandleHere
        <3>2. Want(p, Goal(p)) = cmd[p].index[Goal(p)]
            BY <1>1, <2>2, <2>4, <3>1, GoalIsWanted
        <3> QED
            BY <1>1, <1>4, <2>2, <2>3, <2>5, <3>1, <3>2, MetApply DEF TurnInv
    <2>6. CASE ~(cmd'[p] = cmd[p] /\ Apply(p))
        BY <1>4, <2>1, <2>2, <2>3, <2>4, <2>6, MetMoves
    <2> QED
        BY <2>5, <2>6
<1> QED
    BY <1>1, <1>2, <1>3, <1>4, Turn

-----------------------------------------------------------------------------
(* Removals that run alone.                                                *)

(* A listing that is not empty leaves nothing out. *)
LEMMA ListingsAreComplete ==
    ASSUME NEW s \in Listings, s # <<>>, NEW e \in Present
    PROVE  \E i \in 1..Len(s) : s[i] = e
<1> DEFINE N == Cardinality(Present)
           D == 1..N
<1>1. IsFiniteSet(Present) /\ N \in Nat
    BY PresentFinite, FS_CardinalityType
<1>2. s \in [D -> Present] /\ \A i, k \in D : i # k => s[i] # s[k]
    BY DEF Listings, SetToSeqs
<1>3. s \in Injection(D, Present)
    BY <1>2 DEF Injection, IsInjective
<1>4. Cardinality(D) = N
    BY <1>1, FS_Interval
<1>5. s \in Surjection(D, Present)
    BY <1>1, <1>3, <1>4, FS_Injection
<1>6. PICK i \in D : s[i] = e
    BY <1>5 DEF Surjection
<1>7. Len(s) = N
    <2>1. s \in Seq(Present)
        BY <1>1, OrderingsAreSequences, EmptySeq DEF Listings
    <2>2. DOMAIN s = 1..N
        BY <1>2
    <2> QED
        BY <1>1, <2>1, <2>2, LenProperties
<1> QED
    BY <1>6, <1>7

(* What one step of a RemoveAll that a removal makes may do. *)
LEMMA RemovalEffect ==
    ASSUME IInv, TypeOK', NEW j \in Jobs, Step(j), pc[j] \in Deleting
    PROVE  /\ bundle' = bundle /\ via' = via /\ saved' = saved
           /\ \/ pc'[j] = pc[j] /\ place' = place
              \/ pc'[j] \in {"cleanup", "failed"}
                 /\ \A d \in Dirs : place'[d] = place[d]
                                    \/ (place'[d] = "absent" /\ d \in Victim(j))
              \/ /\ pc'[j] = "changed" /\ pc[j] # "cleanup"
                 /\ place' = [d \in Dirs |-> IF d \in Victim(j) THEN "absent" ELSE place[d]]
           /\ pc[j] = "cleanup" => pc'[j] \in {"cleanup", "failed"}
           /\ \A d \in Dirs : files'[d] = files[d] \/ d \in handle[j]
           /\ pc'[j] = pc[j] => handle[j] \subseteq handle'[j]
<1> USE DEF TypeOK, Dirs, Goto, Deleting
<1>1. TypeOK
    BY DEF IInv
<1>2. CASE OpenVictim(j)
    BY <1>1, <1>2 DEF OpenVictim
<1>3. CASE VictimAbsent(j)
    <2>1. place' = [d \in Dirs |-> IF d \in Victim(j) THEN "absent" ELSE place[d]]
        BY <1>1, <1>3 DEF VictimAbsent
    <2> QED
        BY <1>1, <1>3, <2>1 DEF VictimAbsent, RemovalDone
<1>4. CASE \E f \in Files : Unlink(j, f)
    <2>1. PICK e \in handle[j] : \A d \in Dirs : d # e => files'[d] = files[d]
        BY <1>1, <1>4 DEF Unlink
    <2> QED
        BY <1>4, <2>1 DEF Unlink
<1>5. CASE Rmdir(j)
    <2>1. pc'[j] = IF pc[j] = "cleanup" THEN "failed" ELSE "changed"
        BY <1>1, <1>5 DEF Rmdir, RemovalDone
    <2> QED
        BY <1>1, <1>5, <2>1 DEF Rmdir
<1>6. CASE RemovalFails(j)
    BY <1>1, <1>6 DEF RemovalFails
<1>7. ~(\/ \E f \in Files : CopyFile(j, f)
        \/ StatDest(j) \/ Publish(j) \/ SetAside(j) \/ SwapIn(j)
        \/ SwapInFails(j) \/ Rollback(j) \/ Abandon(j))
    BY DEF CopyFile, StatDest, Publish, SetAside, SwapIn, SwapInFails, Rollback, Abandon
<1> QED
    BY <1>2, <1>3, <1>4, <1>5, <1>6, <1>7 DEF Step

(* The call of a removal is about the entry of its task. *)
RemovalGoal(p) ==
    cmd[p].stage = "apply" =>
        /\ pc[Job(p)] \in Deleting \cup {"changed", "failed"}
        /\ pc[Job(p)] = "remove" => cmd[p].names[At(p)] = <<"dest", bundle[Job(p)].plugin>>
        /\ pc[Job(p)] = "dropOld" => cmd[p].names[At(p)] = <<"old", via[Job(p)]>>
        /\ pc[Job(p)] = "changed" => cmd[p].names[At(p)] \notin Present

(* An entry that was removed does not come back. *)
Gone(p) ==
    \A i \in 1..Len(cmd[p].results) :
        cmd[p].results[i] # "failed" => cmd[p].names[i] \notin Present

(* Everything there is was listed, if anything was. *)
Listed(p) ==
    cmd[p].all /\ cmd[p].names # <<>> =>
        \A e \in Present : \E i \in 1..Len(cmd[p].names) : cmd[p].names[i] = e

(* In a tidy directory only the bundle being deleted is not whole.         *)
RemainWhole(p) ==
    launch[p].tidy /\ Smooth(p) =>
        \A d \in Dirs : place[d] # "absent" =>
            /\ place[d] = "dest"
            /\ Whole(d) \/ (cmd[p].stage = "apply" /\ d \in handle[Job(p)])

Removing(p) == RemovalGoal(p) /\ Gone(p) /\ Listed(p) /\ RemainWhole(p)

RemoveRun == \A p \in Procs : Alone(p) /\ cmd[p].op = "remove" => Removing(p)

(* Nothing appears when bundles only lose their names. *)
LEMMA PresentShrinks ==
    ASSUME bundle' = bundle, saved' = saved,
           \A d \in Dirs : place'[d] = place[d] \/ place'[d] = "absent"
    PROVE  /\ Present' \subseteq Present
           /\ \A e \in Entries : Named(e)' \subseteq Named(e)
<1>1. ASSUME NEW e \in Entries, NEW d \in Named(e)'
      PROVE  d \in Named(e)
    BY <1>1 DEF Named, InstalledAt
<1> QED
    BY <1>1 DEF Present, Entries

(* A removal that starts changes nothing yet. *)
LEMMA RemovalStarts ==
    ASSUME IInv, NEW j \in Jobs,
           \/ \E n \in Plugins : BeginRemove(j, n)
           \/ \E m \in Jobs : BeginRemoveOld(j, m)
    PROVE  /\ place' = place /\ files' = files /\ Present' = Present
           /\ pc'[j] \in {"remove", "dropOld"}
<1> USE DEF TypeOK, Dirs, Goto
<1>1. TypeOK
    BY DEF IInv
<1>2. /\ place' = place /\ files' = files /\ saved' = saved /\ place[j] = "absent"
      /\ pc'[j] \in {"remove", "dropOld"}
      /\ \A d \in Dirs : d # j => bundle'[d] = bundle[d]
    BY <1>1 DEF BeginRemove, BeginRemoveOld, IInv, IdleIsBlank
<1>3. ASSUME NEW e \in Entries PROVE Named(e)' = Named(e)
    BY <1>2 DEF Named, InstalledAt
<1> QED
    BY <1>2, <1>3 DEF Present, Entries

(* A step of the RemoveAll at work keeps it. *)
LEMMA RemoveApply ==
    ASSUME IInv, TypeOK', CInv, NEW p \in Procs, cmd[p].stage = "apply",
           cmd'[p] = cmd[p], launch'[p] = launch[p], Apply(p),
           handle[Job(p)] \subseteq Victim(Job(p)), Removing(p)
    PROVE  Removing(p)'
<1>1. PICK j \in Jobs : j = Job(p) /\ j = Job(p)'
    BY JobsOfTasks DEF CInv, Proper, Counted, Job, At
<1>2. Step(j) /\ TypeOK /\ j \in Dirs
    BY <1>1 DEF Apply, IInv, Dirs
<1>3. RemovalGoal(p) /\ Gone(p) /\ Listed(p) /\ RemainWhole(p)
    BY DEF Removing
<1>4. pc[j] \in Deleting
    <2>1. pc[j] \in Deleting \cup {"changed", "failed"}
        BY <1>1, <1>3 DEF RemovalGoal
    <2>2. pc[j] \notin {"changed", "failed"}
        BY <1>2 DEF Step, CopyFile, StatDest, Publish, SetAside, SwapIn, SwapInFails,
                    Rollback, Abandon, OpenVictim, VictimAbsent, Unlink, Rmdir,
                    RemovalFails, Deleting
    <2> QED
        BY <2>1, <2>2
<1>5. /\ bundle' = bundle /\ via' = via /\ saved' = saved
      /\ \/ pc'[j] = pc[j] /\ place' = place
         \/ pc'[j] \in {"cleanup", "failed"}
            /\ \A d \in Dirs : place'[d] = place[d]
                               \/ (place'[d] = "absent" /\ d \in Victim(j))
         \/ /\ pc'[j] = "changed" /\ pc[j] # "cleanup"
            /\ place' = [d \in Dirs |-> IF d \in Victim(j) THEN "absent" ELSE place[d]]
      /\ pc[j] = "cleanup" => pc'[j] \in {"cleanup", "failed"}
      /\ \A d \in Dirs : files'[d] = files[d] \/ d \in handle[j]
      /\ pc'[j] = pc[j] => handle[j] \subseteq handle'[j]
    BY <1>2, <1>4, RemovalEffect
<1>6. \A d \in Dirs : place'[d] = place[d] \/ place'[d] = "absent"
    BY <1>5
<1>7. /\ Present' \subseteq Present
      /\ \A e \in Entries : Named(e)' \subseteq Named(e)
    BY <1>5, <1>6, PresentShrinks
<1>8. At(p)' = At(p)
    BY DEF At
<1>9. RemovalGoal(p)'
    <2>1. pc'[j] \in Deleting \cup {"changed", "failed"}
        BY <1>4, <1>5 DEF Deleting
    <2>2. pc'[j] \in {"remove", "dropOld"} => pc'[j] = pc[j]
        BY <1>5
    <2>3. pc'[j] = "remove" => cmd[p].names[At(p)] = <<"dest", bundle'[j].plugin>>
        BY <1>1, <1>3, <1>5, <2>2 DEF RemovalGoal
    <2>4. pc'[j] = "dropOld" => cmd[p].names[At(p)] = <<"old", via'[j]>>
        BY <1>1, <1>3, <1>5, <2>2 DEF RemovalGoal
    <2>5. ASSUME pc'[j] = "changed" PROVE cmd[p].names[At(p)] \notin Present'
        <3>1. /\ pc[j] \in {"remove", "dropOld"}
              /\ \A d \in Victim(j) : place'[d] = "absent"
            BY <1>4, <1>5, <2>5 DEF Deleting, Victim
        <3>2. CASE pc[j] = "remove"
            <4>1. PICK n : n = bundle[j].plugin
                OBVIOUS
            <4>2. cmd[p].names[At(p)] = <<"dest", n>>
                BY <1>1, <1>3, <3>2, <4>1 DEF RemovalGoal
            <4>3. \A d \in Named(<<"dest", n>>)' : FALSE
                BY <1>5, <1>6, <3>1, <3>2, <4>1 DEF Named, InstalledAt, Victim
            <4> QED
                BY <4>2, <4>3 DEF Present, Named, InstalledAt
        <3>3. CASE pc[j] = "dropOld"
            <4>1. PICK m : m = via[j]
                OBVIOUS
            <4>2. cmd[p].names[At(p)] = <<"old", m>>
                BY <1>1, <1>3, <3>3, <4>1 DEF RemovalGoal
            <4>3. \A d \in Named(<<"old", m>>)' : FALSE
                BY <1>5, <1>6, <3>1, <3>3, <4>1 DEF Named, Victim
            <4> QED
                BY <4>2, <4>3 DEF Present, Named
        <3> QED
            BY <3>1, <3>2, <3>3
    <2> QED
        BY <1>1, <1>8, <2>1, <2>3, <2>4, <2>5 DEF RemovalGoal
<1>10. Gone(p)' /\ Listed(p)'
    BY <1>3, <1>7 DEF Gone, Listed
<1>11. RemainWhole(p)'
    <2> SUFFICES ASSUME launch[p].tidy, Smooth(p)', NEW d \in Dirs, place'[d] # "absent"
                 PROVE  place'[d] = "dest" /\ (Whole(d)' \/ d \in handle'[j])
        BY <1>1 DEF RemainWhole
    <2>1. pc'[j] \notin Doomed
        BY <1>1 DEF Smooth
    <2>2. pc'[j] \notin {"cleanup", "failed"} /\ pc[j] # "cleanup"
        BY <1>5, <2>1 DEF Doomed
    <2>3. Smooth(p)
        BY <1>1, <1>4, <2>2 DEF Smooth, Doomed, Deleting
    <2>4. place'[d] = place[d]
        BY <1>6
    <2>5. place[d] = "dest" /\ (Whole(d) \/ d \in handle[j])
        BY <1>1, <1>3, <2>3, <2>4 DEF RemainWhole
    <2>6. CASE d \in handle[j]
        <3>1. d \in Victim(j)
            BY <1>1, <2>6
        <3>2. pc'[j] = pc[j]
            BY <1>5, <2>2, <3>1
        <3> QED
            BY <1>5, <2>4, <2>5, <2>6, <3>2
    <2>7. CASE d \notin handle[j]
        BY <1>5, <2>4, <2>5, <2>7 DEF Whole
    <2> QED
        BY <2>6, <2>7
<1> QED
    BY <1>9, <1>10, <1>11 DEF Removing

(* The other steps of a removal. *)
LEMMA RemoveMoves ==
    ASSUME IInv, CInv, NEW p \in Procs, Moves(p), ~(cmd'[p] = cmd[p] /\ Apply(p)),
           cmd[p].op = "remove", launch'[p] = launch[p], Removing(p)
    PROVE  Removing(p)'
<1> DEFINE c == cmd[p]
           d == cmd'[p]
<1>1. /\ c \in Commands /\ Proper(c) /\ TypeOK
      /\ Len(c.names) \in Nat /\ Len(c.results) \in Nat
    BY LenProperties DEF CInv, Commands, IInv
<1>2. c.stage \notin {"check", "index", "fetch"}
    BY <1>1 DEF Proper, GoalKnown
<1>3. RemovalGoal(p) /\ Gone(p) /\ Listed(p) /\ RemainWhole(p)
    BY DEF Removing
<1>4. CASE /\ UNCHANGED vars
           /\ c.stage \in {"task", "apply"} /\ d.stage = "task" /\ d.all = c.all
           /\ d.names = c.names
           /\ At(p) \in 1..Len(c.names)
           /\ \E o \in Outcomes :
                 /\ d.results = Append(c.results, o)
                 /\ \/ o = "failed"
                    \/ c.stage = "apply" /\ o = "changed" /\ pc[Job(p)] = "changed"
    <2>1. PICK o \in Outcomes :
              /\ d.results = Append(c.results, o)
              /\ \/ o = "failed"
                 \/ c.stage = "apply" /\ o = "changed" /\ pc[Job(p)] = "changed"
        BY <1>4
    <2>2. /\ Len(d.results) = Len(c.results) + 1 /\ d.results[Len(c.results) + 1] = o
          /\ \A m \in 1..Len(c.results) : d.results[m] = c.results[m]
        BY <1>1, <2>1, AppendProperties DEF Commands
    <2>3. Present' = Present
        BY <1>4 DEF Present, Named, InstalledAt, vars
    <2>4. Gone(p)'
        <3> SUFFICES ASSUME NEW i \in 1..Len(d.results), d.results[i] # "failed"
                     PROVE  c.names[i] \notin Present
            BY <1>4, <2>3 DEF Gone
        <3>1. CASE i \in 1..Len(c.results)
            BY <1>3, <2>2, <3>1 DEF Gone
        <3>2. CASE i = At(p)
            <4>1. c.stage = "apply" /\ pc[Job(p)] = "changed"
                BY <2>1, <2>2, <3>2 DEF At
            <4> QED
                BY <1>3, <3>2, <4>1 DEF RemovalGoal
        <3> QED
            BY <1>1, <2>2, <3>1, <3>2 DEF At
    <2>5. Listed(p)' /\ RemovalGoal(p)'
        BY <1>3, <1>4, <2>3 DEF Listed, RemovalGoal
    <2>6. RemainWhole(p)'
        <3> SUFFICES ASSUME launch[p].tidy, Smooth(p)', NEW e \in Dirs, place[e] # "absent"
                     PROVE  place[e] = "dest" /\ Whole(e)
            BY <1>4 DEF RemainWhole, vars, Whole
        <3>1. \A m \in 1..Len(c.results) + 1 : d.results[m] # "failed"
            BY <2>2 DEF Smooth
        <3>2. o # "failed" /\ \A m \in 1..Len(c.results) : c.results[m] # "failed"
            <4> DEFINE s == c.results
                       t == d.results
            <4>1. Len(s) \in Nat
                BY <1>1
            <4>2. t[Len(s) + 1] = o /\ \A m \in 1..Len(s) : t[m] = s[m]
                BY <2>2
            <4>3. \A m \in 1..Len(s) + 1 : t[m] # "failed"
                BY <3>1
            <4> HIDE DEF s, t
            <4>4. o # "failed" /\ \A m \in 1..Len(s) : s[m] # "failed"
                BY <4>1, <4>2, <4>3, NoneFailedBefore
            <4> QED
                BY <4>4 DEF s
        <3>3. c.stage = "apply" /\ pc[Job(p)] = "changed"
            BY <2>1, <3>2
        <3>4. Smooth(p)
            BY <3>2, <3>3 DEF Smooth, Doomed
        <3>5. Job(p) \in Jobs
            BY <3>3, JobsOfTasks DEF CInv, Proper, Counted
        <3>6. handle[Job(p)] = {}
            BY <3>3, <3>5 DEF IInv, HandleJustified, Deleting
        <3> QED
            BY <1>3, <3>4, <3>6 DEF RemainWhole
    <2> QED
        BY <2>4, <2>5, <2>6 DEF Removing
<1>5. CASE /\ c.stage = "task" /\ d.stage = "apply" /\ d.all = c.all
           /\ d.names = c.names /\ d.results = c.results
           /\ At(p) \in 1..Len(c.names)
           /\ StartRemove(p)
    <2>1. PICK j \in Jobs : j = Job(p) /\ j = Job(p)'
        BY <1>5, StartsCall DEF Job, At
    <2>2. PICK e \in Entries :
              /\ e = c.names[At(p)]
              /\ \/ e[1] = "dest" /\ e[2] \in Plugins /\ BeginRemove(j, e[2])
                 \/ e[1] = "old" /\ e[2] \in Jobs /\ BeginRemoveOld(j, e[2])
        BY <1>5, <2>1, StartsCall
    <2>3. /\ place' = place /\ files' = files /\ Present' = Present
          /\ pc'[j] \in {"remove", "dropOld"}
        BY <2>2, RemovalStarts
    <2>4. RemovalGoal(p)'
        <3>1. At(p)' = At(p)
            BY <1>5 DEF At
        <3>2. CASE e[1] = "dest" /\ e[2] \in Plugins /\ BeginRemove(j, e[2])
            <4>1. pc'[j] = "remove" /\ bundle'[j].plugin = e[2]
                BY <1>1, <3>2 DEF BeginRemove, Goto, TypeOK, Dirs
            <4>2. e = <<"dest", e[2]>>
                BY <3>2 DEF Entries
            <4> QED
                BY <1>5, <2>1, <2>2, <3>1, <4>1, <4>2 DEF RemovalGoal, Deleting
        <3>3. CASE e[1] = "old" /\ e[2] \in Jobs /\ BeginRemoveOld(j, e[2])
            <4>1. pc'[j] = "dropOld" /\ via'[j] = e[2]
                BY <1>1, <3>3 DEF BeginRemoveOld, Goto, TypeOK, Dirs
            <4>2. e = <<"old", e[2]>>
                BY <3>3 DEF Entries
            <4> QED
                BY <1>5, <2>1, <2>2, <3>1, <4>1, <4>2 DEF RemovalGoal, Deleting
        <3> QED
            BY <2>2, <3>2, <3>3
    <2>5. Gone(p)' /\ Listed(p)'
        BY <1>3, <1>5, <2>3 DEF Gone, Listed
    <2>6. RemainWhole(p)'
        <3>1. Smooth(p)' => Smooth(p)
            BY <1>5 DEF Smooth
        <3> QED
            BY <1>3, <1>5, <2>3, <3>1 DEF RemainWhole, Whole
    <2> QED
        BY <2>4, <2>5, <2>6 DEF Removing
<1>6. ~StartInstall(p) \/ ~(At(p) \in 1..Len(c.names)) \/ d.stage # "apply"
    BY StartsCall
<1> QED
    BY <1>2, <1>4, <1>5, <1>6 DEF Moves

(* A removal that is entered. *)
LEMMA RemoveLaunch ==
    ASSUME IInv, SInv, CInv, NEW p \in Procs, NEW r \in Requests, Launch(p, r),
           cmd'[p].op = "remove"
    PROVE  Removing(p)'
<1>1. /\ cmd'[p].results = <<>> /\ cmd'[p].stage \in {"task", "index", "check"}
      /\ cmd'[p].all => cmd'[p].names \in Listings
    BY LaunchShape
<1>2. UNCHANGED vars /\ TypeOK /\ (launch'[p].tidy <=> Tidy)
    BY DEF Launch, IInv
<1>3. Present' = Present
    BY <1>2 DEF Present, Named, InstalledAt, vars
<1>4. RemovalGoal(p)' /\ Gone(p)'
    BY <1>1, EmptySeq DEF RemovalGoal, Gone
<1>5. Listed(p)'
    BY <1>1, <1>3, ListingsAreComplete DEF Listed
<1>6. RemainWhole(p)'
    BY <1>2, TidyMeans DEF RemainWhole, vars, Whole
<1> QED
    BY <1>4, <1>5, <1>6 DEF Removing

LEMMA RemoveRunInit == CmdInit => RemoveRun
<1> SUFFICES ASSUME CmdInit PROVE RemoveRun
    OBVIOUS
<1>1. \A p \in Procs : cmd[p] = Idle
    BY DEF CmdInit
<1>2. Idle.stage = "ready"
    BY DEF Idle
<1> QED
    BY <1>1, <1>2 DEF RemoveRun, Alone, InProgress, Active

(* What was removed stays away. *)
LEMMA RemoveRunStep ==
    ASSUME IInv, IInv', SInv, CInv, TurnInv, HandleHere, RemoveRun, [CmdNext]_cvars
    PROVE  RemoveRun'
<1> SUFFICES ASSUME NEW p \in Procs, Alone(p)', cmd'[p].op = "remove"
             PROVE  Removing(p)'
    BY DEF RemoveRun
<1>1. TypeOK /\ TypeOK' /\ launch \in [Procs -> Launches] /\ AloneIs
    BY DEF IInv, TurnInv
<1>2. CASE \E r \in Requests : Launch(p, r)
    BY <1>2, RemoveLaunch
<1>3. CASE Alone(p) /\ launch'[p] = launch[p] /\ cmd'[p] = cmd[p] /\ UNCHANGED vars
    <2>1. Removing(p)
        BY <1>3 DEF RemoveRun
    <2>2. Present' = Present /\ Job(p)' = Job(p) /\ At(p)' = At(p)
        BY <1>3 DEF Present, Named, InstalledAt, vars, Job, At
    <2> QED
        BY <1>3, <2>1, <2>2
           DEF Removing, RemovalGoal, Gone, Listed, RemainWhole, vars, Smooth, Whole
<1>4. CASE Alone(p) /\ launch' = launch /\ Proceed(p)
    <2>1. Moves(p)
        BY <1>4, ProceedMoves DEF Alone
    <2>2. cmd[p].op = "remove" /\ Removing(p)
        BY <1>4, <2>1 DEF Moves, RemoveRun
    <2>3. CASE cmd'[p] = cmd[p] /\ Apply(p)
        <3>1. cmd[p].stage = "apply" /\ handle[Job(p)] \subseteq Victim(Job(p))
            BY <1>4, <2>3 DEF Apply, HandleHere
        <3> QED
            BY <1>1, <1>4, <2>2, <2>3, <3>1, RemoveApply
    <2>4. CASE ~(cmd'[p] = cmd[p] /\ Apply(p))
        BY <1>4, <2>1, <2>2, <2>4, RemoveMoves
    <2> QED
        BY <2>3, <2>4
<1> QED
    BY <1>1, <1>2, <1>3, <1>4, Turn

(* What a command that ran alone and reports success has done.             *)
LEMMA SuccessIsReport ==
    ASSUME CInv, TypeOK, [CmdNext]_cvars, NEW p \in Procs, InProgress(p),
           cmd'[p].stage = "done", cmd'[p].ok
    PROVE  /\ cmd[p].stage = "task" /\ Smooth(p)
           /\ \A i \in 1..Len(cmd[p].names) :
                 i <= Len(cmd[p].results) /\ cmd[p].results[i] # "failed"
<1>1. cmd[p] \in Commands /\ ~InProgress(p)' /\ cmd'[p] # cmd[p]
    BY DEF CInv, InProgress, Active
<1>2. CmdNext
    BY <1>1 DEF cvars
<1>3. PICK q \in Procs :
          \/ \E r \in Requests : Launch(q, r) \/ Refuse(q, r)
          \/ Proceed(q)
          \/ Kill(q)
    BY <1>2 DEF CmdNext
<1>4. q = p
    BY <1>1, <1>3, OwnCommand
<1>5. ~Kill(p)
    BY <1>1 DEF Kill, Enter, CInv, Commands
<1>6. Proceed(p)
    BY <1>3, <1>4, <1>5, WhoRunsOn
<1>7. ReadIndexFails(p) \/ Report(p) \/ DisplayFails(p)
    BY <1>1, <1>6, ProceedEnds
<1>8. \A ok : Finish(p, ok) => cmd'[p].ok = ok
    BY <1>1 DEF Finish, CInv, Commands
<1>9. Report(p)
    BY <1>7, <1>8 DEF ReadIndexFails, DisplayFails
<1>10. /\ cmd[p].stage = "task" /\ At(p) > Len(cmd[p].names)
       /\ \A i \in 1..Len(cmd[p].results) : cmd[p].results[i] # "failed"
    BY <1>8, <1>9 DEF Report
<1>11. Len(cmd[p].results) \in Nat /\ Len(cmd[p].names) \in Nat
    BY <1>1, LenProperties DEF Commands
<1>12. Smooth(p)
    BY <1>10 DEF Smooth
<1>13. ASSUME NEW i \in 1..Len(cmd[p].names)
       PROVE  i <= Len(cmd[p].results) /\ cmd[p].results[i] # "failed"
    <2>1. i \in 1..Len(cmd[p].results)
        BY <1>10, <1>11 DEF At
    <2> QED
        BY <1>10, <1>11, <2>1
<1> QED
    BY <1>10, <1>12, <1>13

(* Installs, reinstalls and updates. *)
LEMMA ReplacementsDeliver ==
    ASSUME NEW p \in Procs, MetRun, cmd[p].op \in Ops \ {"remove"}, Alone(p),
           launch[p].tidy \/ cmd[p].op = "reinstall",
           cmd[p].stage = "task", Smooth(p),
           \A i \in 1..Len(cmd[p].names) : i <= Len(cmd[p].results)
    PROVE  Delivered(p)
<1>1. \A i \in Targets(p) : Serves(cmd[p].names[i][2], Want(p, cmd[p].names[i][2]))
    BY DEF MetRun, Met, Targets
<1>2. CASE cmd[p].op = "install"
    BY <1>1, <1>2 DEF Delivered, Want
<1>3. CASE cmd[p].op = "reinstall"
    BY <1>1, <1>3 DEF Delivered, Want
<1>4. CASE cmd[p].op = "update"
    BY <1>1, <1>4 DEF Delivered, Want
<1> QED
    BY <1>2, <1>3, <1>4 DEF Ops

(* Removals. *)
LEMMA RemovalsDeliver ==
    ASSUME NEW p \in Procs, RemoveRun, CInv, cmd[p].op = "remove", Alone(p),
           \A i \in 1..Len(cmd[p].names) :
              i <= Len(cmd[p].results) /\ cmd[p].results[i] # "failed"
    PROVE  Delivered(p)
<1>1. Gone(p) /\ Listed(p)
    BY DEF RemoveRun, Removing
<1>2. cmd[p] \in Commands /\ Len(cmd[p].results) \in Nat
    BY LenProperties DEF CInv, Commands
<1>3. \A i \in 1..Len(cmd[p].names) : cmd[p].names[i] \notin Present
    BY <1>1, <1>2 DEF Gone
<1>4. ASSUME cmd[p].all, cmd[p].names # <<>> PROVE Present = {}
    BY <1>1, <1>3, <1>4 DEF Listed
<1>5. ASSUME NEW i \in Targets(p) PROVE InstalledAt(cmd[p].names[i][2]) = {}
    <2>1. i \in 1..Len(cmd[p].names) /\ cmd[p].names[i][1] = "dest"
        BY DEF Targets
    <2>2. cmd[p].names[i] \in Entries
        BY <1>2, <2>1, ElementOfSeq DEF Commands
    <2>3. Named(cmd[p].names[i]) = {}
        BY <1>3, <2>1, <2>2 DEF Present
    <2> QED
        BY <2>1, <2>3 DEF Named, InstalledAt
<1> QED
    BY <1>4, <1>5 DEF Delivered

(* The step that reports success finds the work done. *)
LEMMA DeliversStep ==
    ASSUME IInv, CInv, TidyRun, MetRun, RemoveRun, [CmdNext]_cvars,
           NEW p \in Procs, InProgress(p), cmd'[p].stage = "done", cmd'[p].ok,
           launch[p].alone, launch[p].tidy \/ cmd[p].op \in {"remove", "reinstall"}
    PROVE  Delivered(p) /\ (launch[p].tidy => Tidy)
<1>1. Alone(p) /\ TypeOK /\ cmd[p].op \in Ops
    BY DEF Alone, IInv, CInv, Commands
<1>2. /\ cmd[p].stage = "task" /\ Smooth(p)
      /\ \A i \in 1..Len(cmd[p].names) :
            i <= Len(cmd[p].results) /\ cmd[p].results[i] # "failed"
    BY <1>1, SuccessIsReport
<1>3. Delivered(p)
    BY <1>1, <1>2, ReplacementsDeliver, RemovalsDeliver
<1>4. ASSUME launch[p].tidy PROVE Tidy
    <2>1. \A d \in Dirs : place[d] # "absent" => place[d] = "dest" /\ Whole(d)
        <3>1. CASE cmd[p].op = "remove"
            BY <1>1, <1>2, <1>4, <3>1 DEF RemoveRun, Removing, RemainWhole
        <3>2. CASE cmd[p].op # "remove"
            BY <1>1, <1>2, <1>4, <3>2 DEF TidyRun, TidyDir, DirWhole, Orderly
        <3> QED
            BY <3>1, <3>2
    <2> QED
        BY <2>1 DEF Tidy, Present, Named, InstalledAt, Entries, Dirs
<1> QED
    BY <1>3, <1>4

(* What every reachable state has, of all commands and of those alone.     *)
RunInv ==
    /\ IInv /\ SInv /\ CopiesSecure /\ CInv /\ OInv
    /\ TurnInv /\ HandleHere /\ TidyRun /\ MetRun /\ RemoveRun

LEMMA RunInvInit == CmdInit => RunInv
    BY IInvInit, SInvInit, CopiesSecureInit, CInvInit, OInvInit, TurnInvInit, AloneInit,
       MetRunInit, RemoveRunInit DEF CmdInit, RunInv

(* It is inductive. *)
LEMMA RunInvStep == RunInv /\ [CmdNext]_cvars => RunInv'
<1> SUFFICES ASSUME RunInv, [CmdNext]_cvars PROVE RunInv'
    OBVIOUS
<1>1. IInv /\ SInv /\ CopiesSecure /\ CInv /\ OInv /\ TurnInv /\ HandleHere /\ TidyRun
      /\ MetRun /\ RemoveRun
    BY DEF RunInv
<1>2. InstallsFollow
    BY <1>1 DEF OInv
<1>3. [Next]_vars
    BY <1>1, StoreStep
<1>4. IInv' /\ SInv'
    BY <1>1, <1>3, IInvStep, SInvStep
<1>5. CopiesSecure'
    BY <1>1, <1>3, <1>4, CopiesSecureStep
<1>6. CInv'
    BY <1>1, CInvStep DEF IInv
<1>7. OInv'
    BY <1>1, <1>4, <1>5, <1>6, OInvStep
<1>8. TypeOK'
    BY <1>4 DEF IInv
<1>9. TurnInv' /\ HandleHere'
    BY <1>1, <1>2, <1>8, TurnInvStep, HandleHereStep
<1>10. TidyRun'
    BY <1>1, <1>2, <1>4, <1>6, TidyRunStep
<1>11. MetRun' /\ RemoveRun'
    BY <1>1, <1>2, <1>4, <1>6, MetRunStep, RemoveRunStep
<1> QED
    BY <1>4, <1>5, <1>6, <1>7, <1>9, <1>10, <1>11 DEF RunInv

(* FailureHarmless: an install, reinstall or update that runs alone in a   *)
(* directory of whole plugins, whatever fails in it and wherever it is     *)
(* killed, leaves every plugin that was served in a version it may leave,  *)
(* served or whole under its backup name; an install never moves one.      *)
THEOREM FailuresHarmNothing == CmdSpec => FailureHarmless
<1>1. ASSUME RunInv, RunInv', [CmdNext]_cvars
      PROVE  [\A p \in Procs :
                /\ InProgress(p) /\ cmd[p].op # "remove"
                /\ launch[p].alone /\ launch[p].tidy
                => \A n \in Plugins : launch[p].before[n] # 0 => Unharmed(p, n)']_cvars
    <2>1. IInv /\ CInv /\ TurnInv /\ TidyRun /\ TidyRun'
        BY <1>1 DEF RunInv
    <2> QED
        BY <1>1, <2>1, HarmlessStep
<1> QED
    BY <1>1, RunInvInit, RunInvStep, PTL DEF CmdSpec, FailureHarmless

(* SuccessDelivers: an install, reinstall, update or removal that runs     *)
(* alone and reports no failure has every target it found as the README    *)
(* promises, and has left nothing else behind in a directory that was      *)
(* tidy.  With --all the targets are those listed: none if the root cannot *)
(* be read, and all there are if any was listed.                           *)
THEOREM SuccessIsDelivered == CmdSpec => SuccessDelivers
<1>1. ASSUME RunInv, [CmdNext]_cvars
      PROVE  [\A p \in Procs :
                /\ InProgress(p) /\ cmd'[p].stage = "done" /\ cmd'[p].ok
                /\ launch[p].alone
                /\ launch[p].tidy \/ cmd[p].op \in {"remove", "reinstall"}
                => Delivered(p) /\ (launch[p].tidy => Tidy)]_cvars
    <2>1. IInv /\ CInv /\ TidyRun /\ MetRun /\ RemoveRun
        BY <1>1 DEF RunInv
    <2> QED
        BY <1>1, <2>1, DeliversStep
<1> QED
    BY <1>1, RunInvInit, RunInvStep, PTL DEF CmdSpec, SuccessDelivers
=============================================================================
