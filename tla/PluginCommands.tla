--------------------------- MODULE PluginCommands ---------------------------
(***************************************************************************)
(* The commands that change the plugin directory: ctyun plugin install,    *)
(* reinstall, update and remove (internal/cli/plugin_manager.go,           *)
(* plugin_registry.go, operation.go, operation_report.go).  A command is a *)
(* process.  It checks its targets, reads a registry index once, and then  *)
(* runs one task per target in order, whether earlier tasks failed or not; *)
(* a task that changes the directory is a job of PluginStore.  Between a   *)
(* check and the job that relies on it, downloads and other processes go   *)
(* on: nothing is locked and nothing is checked again.                     *)
(*                                                                         *)
(* Abstracted: a read of an installed plugin is one step that may fail     *)
(* (also standing for a read that a concurrent deletion breaks); fetching, *)
(* verifying and staging an artifact outside the plugin directory is one   *)
(* step that may fail; channels are what makes two commands see different  *)
(* indexes.                                                                *)
(***************************************************************************)
EXTENDS PluginStore, Sequences, SequencesExt

CONSTANTS Procs,        \* the processes: one ctyun command each
          MaxTargets,   \* bound: targets of one command
          Requests,     \* bound: the command lines given
          Overlap       \* bound: the most targets of commands that run at once

ASSUME TasksAssumption == MaxTargets \in Nat /\ Jobs = Procs \X (1..MaxTargets)
ASSUME OverlapAssumption == Overlap \in Nat
ASSUME FinitenessAssumption == IsFiniteSet(Procs) /\ IsFiniteSet(Plugins)

VARIABLES cmd,     \* cmd[p]: what process p is doing
          launch   \* history, launch[p]: what p found and met, see Launch

cvars == <<vars, cmd, launch>>

Ops == {"install", "reinstall", "update", "remove"}

ASSUME RequestsAssumption ==
    \A r \in Requests : /\ r.op \in Ops /\ r.all \in BOOLEAN /\ r.bundled \in BOOLEAN
                        /\ r.names \in Seq(Plugins) /\ Len(r.names) <= MaxTargets

(* A name in the plugin directory: a plugin's own, or the backup name or   *)
(* the temporary name that belongs to a job.                               *)
Entries == ({"dest"} \X Plugins) \cup ({"old", "tmp"} \X Jobs)

(* What loadInstalledPlugin said of a name. *)
Checks == [state : {"absent", "loaded", "error"}, plugin : Plugins,
           version : Versions \cup {0}]

(* What idx.Find, or the bundled worktree, has for each plugin; 0: nothing. *)
Indexes == [Plugins -> Versions \cup {0}]

Outcomes == {"changed", "skipped", "unchanged", "failed"}
Active   == {"check", "index", "task", "fetch", "apply"}

Idle == [stage |-> "ready", op |-> "install", all |-> FALSE, bundled |-> FALSE,
         names |-> <<>>, checks |-> <<>>, index |-> [n \in Plugins |-> 0],
         results |-> <<>>, ok |-> FALSE]

CmdTypeOK ==
    /\ \A p \in Procs :
          /\ cmd[p].stage \in {"ready", "done", "killed"} \cup Active
          /\ cmd[p].op \in Ops
          /\ {cmd[p].all, cmd[p].bundled, cmd[p].ok} \subseteq BOOLEAN
          /\ \A i \in 1..Len(cmd[p].names) : cmd[p].names[i] \in Entries
          /\ \A i \in 1..Len(cmd[p].checks) : cmd[p].checks[i] \in Checks
          /\ cmd[p].index \in Indexes
          /\ \A i \in 1..Len(cmd[p].results) : cmd[p].results[i] \in Outcomes
          /\ Len(cmd[p].results) <= Len(cmd[p].names)
    /\ \A p \in Procs :
          /\ launch[p].before \in Indexes
          /\ {launch[p].tidy, launch[p].alone} \subseteq BOOLEAN

-----------------------------------------------------------------------------
(* Reading the directory.                                                  *)

(* The directory that entry e names at this moment, if any. *)
Named(e) ==
    {d \in Dirs :
        \/ e[1] = "dest" /\ d \in InstalledAt(e[2])
        \/ e[1] = "old" /\ d \in saved[e[2]] /\ place[d] = "old"
        \/ e[1] = "tmp" /\ d = e[2] /\ place[d] = "tmp"}

Present == {e \in Entries : Named(e) # {}}

PluginOf(e) == IF e[1] = "dest" THEN e[2] ELSE bundle[e[2]].plugin

(* pluginDirs.  Any error of os.ReadDir is dropped: a root that cannot be   *)
(* read looks empty.  Otherwise it sorts by name: temporary names begin    *)
(* with a dot and come first, a backup name follows the plugin name it     *)
(* extends.                                                                *)
Listings == {<<>>} \cup
    {s \in SetToSeqs(Present) :
        \A i, k \in 1..Len(s) : i < k =>
            /\ s[k][1] = "tmp" => s[i][1] = "tmp"
            /\ s[i][1] = "old" => s[k] # <<"dest", PluginOf(s[i])>>}

Check(state, n, v) == [state |-> state, plugin |-> n, version |-> v]

(* loadInstalledPlugin of entry e: a temporary name is not a valid plugin  *)
(* name, and any read may fail.  The plugin loaded is the one the bundle's *)
(* manifest names: a backup loads as the plugin it is a backup of.         *)
Lookups(e) ==
    {Check("error", PluginOf(e), 0)}
    \cup {Check("absent", PluginOf(e), 0) : x \in IF e \in Present THEN {} ELSE {0}}
    \cup {Check("loaded", bundle[d].plugin, bundle[d].version) :
             d \in {c \in Named(e) : e[1] # "tmp" /\ Loadable(c)}}

(* The version served for n, 0 when there is none or it does not load. *)
Served(n) ==
    LET loads == {d \in InstalledAt(n) : Loadable(d)}
    IN  IF loads = {} THEN 0 ELSE bundle[CHOOSE d \in loads : TRUE].version

(* The directory holds whole plugins and nothing else. *)
Tidy == \A e \in Present : e[1] = "dest" /\ \A d \in Named(e) : Whole(d)

-----------------------------------------------------------------------------
CmdInit ==
    /\ Init
    /\ cmd = [p \in Procs |-> Idle]
    /\ launch = [p \in Procs |-> [before |-> [n \in Plugins |-> 0],
                                  tidy |-> FALSE, alone |-> FALSE]]

(* The task p is at, and its job. *)
At(p)  == Len(cmd[p].results) + 1
Job(p) == <<p, At(p)>>

Enter(p, stage) == cmd' = [cmd EXCEPT ![p].stage = stage]

Finish(p, ok) == cmd' = [cmd EXCEPT ![p].stage = "done", ![p].ok = ok]

(* The task ends: the next one follows whatever the outcome is. *)
Result(p, outcome) ==
    cmd' = [cmd EXCEPT ![p].stage = "task",
                       ![p].results = Append(@, outcome)]

InProgress(p) == cmd[p].stage \in Active

(* The user enters a command.  The directory is listed at once for --all   *)
(* (except by install, which takes the names of the index).  History: what *)
(* is served, whether the directory is tidy, and whether another command   *)
(* runs meanwhile.                                                         *)
Launch(p, r) ==
    /\ cmd[p].stage = "ready"
    /\ \E names \in IF r.all /\ r.op # "install" THEN Listings
                    ELSE {[i \in 1..Len(r.names) |-> <<"dest", r.names[i]>>]} :
          /\ Len(names) <= MaxTargets
          /\ \A q \in Procs \ {p} : InProgress(q) => Len(names) <= Overlap /\ Len(cmd[q].names) <= Overlap
          /\ cmd' = [cmd EXCEPT ![p] =
                [Idle EXCEPT !.op = r.op, !.all = r.all, !.bundled = r.bundled,
                             !.names = names,
                             !.stage = IF r.op = "remove" THEN "task"
                                       ELSE IF r.op = "install" /\ (r.all \/ r.bundled)
                                       THEN "index" ELSE "check"]]
    /\ launch' = [q \in Procs |->
          IF q = p
          THEN [before |-> [n \in Plugins |-> Served(n)],
                tidy   |-> Tidy,
                alone  |-> \A o \in Procs : ~InProgress(o)]
          ELSE [launch[q] EXCEPT !.alone = @ /\ ~InProgress(q)]]
    /\ UNCHANGED vars

(* confirmDangerousOperation: the answer is not yes. *)
Refuse(p, r) ==
    /\ cmd[p].stage = "ready" /\ r.op = "remove"
    /\ cmd' = [cmd EXCEPT ![p] = [Idle EXCEPT !.op = r.op, !.stage = "done"]]
    /\ UNCHANGED <<vars, launch>>

(* The targets are looked up one by one, before the index is read. *)
CheckTarget(p) ==
    /\ cmd[p].stage = "check"
    /\ Len(cmd[p].checks) < Len(cmd[p].names)
    /\ \E c \in Lookups(cmd[p].names[Len(cmd[p].checks) + 1]) :
          cmd' = [cmd EXCEPT ![p].checks = Append(@, c)]
    /\ UNCHANGED <<vars, launch>>

(* The index is read only when some target can use it. *)
Usable(p, c) == c.state = IF cmd[p].op = "install" THEN "absent" ELSE "loaded"

EndChecks(p) ==
    /\ cmd[p].stage = "check"
    /\ Len(cmd[p].checks) = Len(cmd[p].names)
    /\ Enter(p, IF \E i \in 1..Len(cmd[p].checks) : Usable(p, cmd[p].checks[i])
                THEN "index" ELSE "task")
    /\ UNCHANGED <<vars, launch>>

(* The one read of the index; install --all takes its targets from it. *)
ReadIndex(p, idx) ==
    /\ cmd[p].stage = "index"
    /\ \E names \in IF cmd[p].op = "install" /\ cmd[p].all
                    THEN SetToSeqs({<<"dest", n>> : n \in {m \in Plugins : idx[m] # 0}})
                    ELSE {cmd[p].names} :
          /\ Len(names) <= MaxTargets
          /\ \A q \in Procs \ {p} : InProgress(q) => Len(names) <= Overlap /\ Len(cmd[q].names) <= Overlap
          /\ cmd' = [cmd EXCEPT ![p].stage = "task", ![p].index = idx,
                                ![p].names = names]
    /\ UNCHANGED <<vars, launch>>

(* The index cannot be read or verified: no task runs.  A bundled plugin   *)
(* is looked for task by task, except by install --all.                    *)
ReadIndexFails(p) ==
    /\ cmd[p].stage = "index"
    /\ cmd[p].bundled => cmd[p].op = "install" /\ cmd[p].all
    /\ Finish(p, FALSE)
    /\ UNCHANGED <<vars, launch>>

-----------------------------------------------------------------------------
(* The tasks (runOperationTasks).                                          *)

ReliedOnFirst(p) ==                   \* mutant: the check of the first target
    IF cmd[p].checks = <<>> THEN Lookups(cmd[p].names[At(p)]) ELSE {cmd[p].checks[1]}
(* The check a task relies on: its own; of install, the last one of its    *)
(* name (the results are kept by name), or one made now for --all.         *)
Relied(p) ==
    LET c == cmd[p]
        e == c.names[At(p)]
        last == {i \in 1..Len(c.names) :
                   c.names[i] = e /\ \A k \in (i + 1)..Len(c.names) : c.names[k] # e}
    IN  IF c.op # "install" THEN {c.checks[At(p)]}
        ELSE IF c.all \/ c.bundled THEN Lookups(e)
        ELSE {c.checks[i] : i \in last}

(* What a task decides from a check and the index. *)
Verdict(p, c) ==
    LET op == cmd[p].op
        newest == cmd[p].index[c.plugin]
    IN  IF c.state = "error" \/ (c.state = "absent" /\ op # "install") THEN "failed"
        ELSE IF c.state = "loaded" /\ op = "install" THEN "skipped"
        ELSE IF newest = 0
             THEN IF op = "update" /\ cmd[p].all /\ ~cmd[p].bundled THEN "unchanged" ELSE "failed"
        ELSE IF op = "update" /\ newest <= c.version THEN "unchanged"
        ELSE "fetch"

(* The plugin a task replaces: the one its check loaded. *)
Goal(p) == LET e == cmd[p].names[At(p)]
           IN  IF cmd[p].op = "install" THEN e[2] ELSE cmd[p].checks[At(p)].plugin

Decide(p) ==
    /\ cmd[p].stage = "task" /\ cmd[p].op # "remove"
    /\ At(p) <= Len(cmd[p].names)
    /\ \E c \in Relied(p) :
          IF Verdict(p, c) = "fetch" THEN Enter(p, "fetch")
          ELSE Result(p, Verdict(p, c))
    /\ UNCHANGED <<vars, launch>>

FetchFailsQuietly(p) ==               \* mutant: no artifact, no failure
    /\ cmd[p].stage = "fetch"
    /\ Result(p, "skipped")
    /\ UNCHANGED <<vars, launch>>

(* The artifact cannot be downloaded, verified or staged, or is not the    *)
(* one the index promised (verifyRegistryBundleIdentity).                  *)
FetchFails(p) ==
    /\ cmd[p].stage = "fetch"
    /\ Result(p, "failed")
    /\ UNCHANGED <<vars, launch>>

(* The verified bundle goes to copyBundleIntoPlace. *)
StartInstall(p) ==
    /\ cmd[p].stage = "fetch"
    /\ \/ BeginInstall(Job(p), Goal(p), cmd[p].index[Goal(p)])
       \/ MkdirFails(Job(p))
    /\ Enter(p, "apply")
    /\ UNCHANGED launch

(* A removal task checks the name and nothing else. *)
StartRemove(p) ==
    /\ cmd[p].stage = "task" /\ cmd[p].op = "remove"
    /\ At(p) <= Len(cmd[p].names)
    /\ LET e == cmd[p].names[At(p)]
       IN  \/ e[1] = "tmp" /\ Result(p, "failed") /\ UNCHANGED vars
           \/ e[1] = "dest" /\ BeginRemove(Job(p), e[2]) /\ Enter(p, "apply")
           \/ e[1] = "old" /\ BeginRemoveOld(Job(p), e[2]) /\ Enter(p, "apply")
    /\ UNCHANGED launch

Apply(p) ==
    /\ cmd[p].stage = "apply"
    /\ Step(Job(p))
    /\ UNCHANGED <<cmd, launch>>

CollectChanged(p) ==                  \* mutant: waits for success
    /\ cmd[p].stage = "apply"
    /\ pc[Job(p)] = "changed"
    /\ Result(p, pc[Job(p)])
    /\ UNCHANGED <<vars, launch>>
CollectAsChanged(p) ==                \* mutant: drops the error of the job
    /\ cmd[p].stage = "apply"
    /\ pc[Job(p)] \in {"changed", "failed"}
    /\ Result(p, "changed")
    /\ UNCHANGED <<vars, launch>>

(* The job's error, if any, is the target's. *)
Collect(p) ==
    /\ cmd[p].stage = "apply"
    /\ pc[Job(p)] \in {"changed", "failed"}
    /\ Result(p, pc[Job(p)])
    /\ UNCHANGED <<vars, launch>>

ReportSuccess(p) ==                   \* mutant: looks at no result
    /\ cmd[p].stage = "task" /\ At(p) > Len(cmd[p].names)
    /\ Finish(p, TRUE)
    /\ UNCHANGED <<vars, launch>>

(* reportOperationResults: an error if any target failed. *)
Report(p) ==
    /\ cmd[p].stage = "task" /\ At(p) > Len(cmd[p].names)
    /\ Finish(p, \A i \in 1..Len(cmd[p].results) : cmd[p].results[i] # "failed")
    /\ UNCHANGED <<vars, launch>>

(* Progress or the summary cannot be written: the command stops there. *)
DisplayFails(p) ==
    /\ cmd[p].stage = "task"
    /\ Finish(p, FALSE)
    /\ UNCHANGED <<vars, launch>>

(* The process is killed, and with it the call it is making. *)
Kill(p) ==
    /\ InProgress(p)
    /\ Enter(p, "killed")
    /\ IF cmd[p].stage = "apply" /\ pc[Job(p)] \in Running
       THEN Crash(Job(p)) ELSE UNCHANGED vars
    /\ UNCHANGED launch

Proceed(p) ==
    \/ CheckTarget(p)
    \/ EndChecks(p)
    \/ \E idx \in Indexes : ReadIndex(p, idx)
    \/ ReadIndexFails(p)
    \/ Decide(p)
    \/ FetchFails(p)
    \/ StartInstall(p)
    \/ StartRemove(p)
    \/ Apply(p)
    \/ Collect(p)
    \/ Report(p)
    \/ DisplayFails(p)

CmdNext ==
    \E p \in Procs :
        \/ \E r \in Requests : Launch(p, r) \/ Refuse(p, r)
        \/ Proceed(p)
        \/ Kill(p)

CmdSpec == CmdInit /\ [][CmdNext]_cvars

(* The command waits for a download.  HTTPGetBytes sets no deadline: a     *)
(* server that accepts the request and stays silent keeps it for ever.     *)
Downloading(p) == cmd[p].stage \in {"index", "fetch"} /\ ~cmd[p].bundled

(* A process that is not killed goes on: the operating system schedules it *)
(* and its local calls return.  Nothing is assumed of downloads.           *)
CmdFairSpec ==
    CmdSpec /\ \A p \in Procs : WF_cvars(~Downloading(p) /\ Proceed(p))

-----------------------------------------------------------------------------
(* What the commands promise.                                              *)

Serves(n, v) == \E d \in InstalledAt(n) : Whole(d) /\ bundle[d].version = v

Targets(p) == {i \in 1..Len(cmd[p].names) : cmd[p].names[i][1] = "dest"}

(* The directory is as command p says it left it. *)
Delivered(p) ==
    LET c == cmd[p]
        l == launch[p]
        plug(i) == c.names[i][2]
        larger(a, b) == IF a < b THEN b ELSE a
    IN  CASE c.op = "install" -> \A i \in Targets(p) :
               Serves(plug(i), IF l.before[plug(i)] # 0 THEN l.before[plug(i)]
                               ELSE c.index[plug(i)])
          [] c.op = "reinstall" -> \A i \in Targets(p) :
               Serves(plug(i), c.index[plug(i)])
          [] c.op = "update" -> \A i \in Targets(p) :
               Serves(plug(i), larger(l.before[plug(i)], c.index[plug(i)]))
          [] c.op = "remove" ->
               IF c.all THEN c.names # <<>> => Present = {}
               ELSE \A i \in Targets(p) : InstalledAt(plug(i)) = {}

(* A command that ran alone and reports no failure has done to every       *)
(* target what the README says of it, and a directory of whole plugins is  *)
(* one again.  Removal and reinstall do so whatever killed commands left   *)
(* in the directory, install and update if it was tidy when they began.    *)
(* What --all promises it promises of the targets it found: a root that    *)
(* cannot be read has none, and remove --all, reinstall --all and update   *)
(* --all then report success with every plugin still there.                *)
SuccessDelivers ==
    [][\A p \in Procs :
         /\ InProgress(p) /\ cmd'[p].stage = "done" /\ cmd'[p].ok
         /\ launch[p].alone
         /\ launch[p].tidy \/ cmd[p].op \in {"remove", "reinstall"}
         => Delivered(p) /\ (launch[p].tidy => Tidy)]_cvars

(* A plugin that was served when p began still is, in a version p may      *)
(* leave, or such a version is kept whole under a backup name.             *)
Unharmed(p, n) ==
    LET old == launch[p].before[n]
        new == cmd[p].index[n]
        op  == cmd[p].op
    IN  \E d \in Dirs :
          /\ bundle[d].plugin = n /\ Whole(d)
          /\ place[d] = "dest" \/ (place[d] = "old" /\ op # "install")
          /\ \/ bundle[d].version = old
             \/ /\ op # "install" /\ bundle[d].version = new
                /\ op = "update" => new > old

(* Whatever fails in such a command, and wherever it is killed, it harms   *)
(* no plugin: an install never touches one that was installed, not even    *)
(* for a moment, and an update never leaves a lower version.               *)
FailureHarmless ==
    [][\A p \in Procs :
         /\ InProgress(p) /\ cmd[p].op # "remove"
         /\ launch[p].alone /\ launch[p].tidy
         => \A n \in Plugins : launch[p].before[n] # 0 => Unharmed(p, n)']_cvars

(* Commands that overlapped, and all report no failure, left a directory   *)
(* of whole plugins in which every plugin they installed, reinstalled or   *)
(* updated is served, unless a removal of it was asked for as well.        *)
OverlapDelivers ==
    (\A p \in Procs : cmd[p].stage = "ready" \/ (cmd[p].stage = "done" /\ cmd[p].ok)) =>
        /\ Tidy
        /\ \A p \in Procs : cmd[p].op # "remove" =>
              \A i \in Targets(p) : cmd[p].names[i][2] \in targeted
                                    \/ Occupied(cmd[p].names[i][2])

(* Nothing but a download keeps a command from its end: no failing target  *)
(* and no failing call keeps it from its other targets, and every command  *)
(* comes to its report, is killed, or waits for one download for ever.     *)
CommandsEnd ==
    \A p \in Procs : InProgress(p) ~> (~InProgress(p) \/ []Downloading(p))

(* "ctyun plugin update installs only versions with higher SemVer          *)
(* precedence" (README-EN.md): the bundle an update moves aside for its    *)
(* own is of a lower version.                                              *)
UpdateRaises ==
    [][\A p \in Procs : \A i \in 1..MaxTargets :
         LET j == <<p, i>>
         IN  cmd[p].op = "update" /\ pc[j] = "swapIn" /\ pc'[j] = "dropOld"
             => \A d \in saved[j] : bundle[d].version < bundle[j].version]_cvars
=============================================================================
