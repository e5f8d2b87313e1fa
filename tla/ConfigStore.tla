----------------------------- MODULE ConfigStore -----------------------------
(***************************************************************************)
(* The configuration file (~/.ctyun/config.json) and the commands that     *)
(* change it (internal/cli/config_command.go).  Every command is a process *)
(* that reads the file once when it starts (cli.go, loadConfigBytes), may  *)
(* wait for the user, and then writes the whole file with os.WriteFile,    *)
(* which truncates it first; config reset copies the file to a backup and  *)
(* removes it.  Nothing is locked, and a process may be killed between any *)
(* two calls.                                                              *)
(*                                                                         *)
(* Abstracted: a scope (the top level or a profile) has one key to set; a  *)
(* write is one call that may stop early; two configurations differ in     *)
(* length in a way the model leaves open.                                  *)
(***************************************************************************)
EXTENDS Naturals, FiniteSets

CONSTANTS Procs,        \* the processes: one config command each
          Profiles,     \* profile names
          Values,       \* values of the key
          MaxBackups    \* bound: backups config reset may create

ASSUME ConfigAssumption ==
    MaxBackups \in Nat /\ {"", "top"} \cap (Profiles \cup Values) = {}

VARIABLES file,      \* what the path of the configuration file names
          backups,   \* backups[i]: what the i-th backup name names
          linked,    \* processes whose open file is still the one at the path
          proc       \* proc[p]: what process p is doing

vars == <<file, backups, linked, proc>>

Scopes == {"top"} \cup Profiles

(* An unset key, and no active profile, are the empty string in the code. *)
Configs == {c \in [active : Profiles \cup {""}, profiles : SUBSET Profiles,
                   key : [Scopes -> Values \cup {""}]] :
               \A s \in Profiles \ c.profiles : c.key[s] = ""}

NoConfig == [active |-> "", profiles |-> {}, key |-> [s \in Scopes |-> ""]]

(* Garbled: bytes that are not one JSON document, as a write that stopped  *)
(* early or one over a longer text leaves them.                            *)
Content(kind, c) == [kind |-> kind, config |-> c]
Absent   == Content("absent", NoConfig)
Empty    == Content("empty", NoConfig)
Garbled  == Content("garbled", NoConfig)
Contents == [kind : {"absent", "empty", "garbled", "config"}, config : Configs]

Requests == [op : {"set", "unset", "reset-profile", "use", "reset"},
             scope : Scopes, value : Values \cup {""}]

Working == {"confirm", "apply", "write", "stat", "read", "probe", "create", "copy", "remove"}
Stages  == {"ready", "ok", "failed", "killed"} \cup Working

TypeOK ==
    /\ file \in Contents
    /\ backups \in [1..MaxBackups -> Contents]
    /\ linked \subseteq Procs
    /\ \A p \in Procs :
          /\ proc[p].stage \in Stages
          /\ proc[p].req \in Requests
          /\ {proc[p].raw, proc[p].base} \subseteq Contents
          /\ proc[p].next \in 1..(MaxBackups + 1)
          /\ {proc[p].alone, proc[p].opened} \subseteq BOOLEAN

(* Whoever edits the file by hand may name an active profile that is not   *)
(* there.                                                                  *)
Init ==
    /\ file \in {Absent, Empty} \cup {Content("config", c) : c \in Configs}
    /\ backups = [i \in 1..MaxBackups |-> Absent]
    /\ linked = {}
    /\ proc = [p \in Procs |-> [stage |-> "ready", raw |-> Absent, base |-> Absent,
                                req |-> [op |-> "reset", scope |-> "top", value |-> ""],
                                next |-> 1, alone |-> TRUE, opened |-> FALSE]]

-----------------------------------------------------------------------------
InProgress(p) == proc[p].stage \in Working

Coherent(c) == c.active # "" => c.active \in c.profiles

(* coreconfig.Load through mutableConfig: no bytes are an empty            *)
(* configuration, whether the file is absent or was caught truncated.      *)
Loads(raw) == raw.kind # "garbled"

(* What a command makes of a configuration; {} if it refuses. *)
Effect(r, c) ==
    CASE r.op = "set" ->
           {[c EXCEPT !.key[r.scope] = r.value, !.profiles = @ \cup ({r.scope} \ {"top"})]}
      [] r.op = "unset" ->
           {[d EXCEPT !.key[r.scope] = ""] :
               d \in {e \in {c} : r.scope \in {"top"} \cup c.profiles}}
      [] r.op = "use" ->
           {[d EXCEPT !.active = IF r.scope = "top" THEN "" ELSE r.scope] :
               d \in {e \in {c} : r.scope \in {"top"} \cup c.profiles}}
      [] r.op = "reset-profile" ->
           {[c EXCEPT !.profiles = @ \ {r.scope}, !.key[r.scope] = "",
                      !.active = IF @ = r.scope THEN "" ELSE @]}

(* validatedConfigJSON: only a coherent configuration is written. *)
AnyWritable(r, c) == Effect(r, c)      \* mutant: does not validate
Writable(r, c) == {d \in Effect(r, c) : Coherent(d)}

(* What a file holds after new was written over it from its first byte. *)
Overwritten(old, new) ==
    IF new = Empty THEN {old}
    ELSE IF old \in {Empty, new} THEN {new} ELSE {new, Garbled}

Goto(p, stage) == proc' = [proc EXCEPT ![p].stage = stage]

(* The command starts: the file is read, before any question is asked.     *)
(* History: the content it met, and whether another command runs.          *)
Start(p, r) ==
    /\ proc[p].stage = "ready"
    /\ r.op = "reset-profile" => r.scope # "top"
    /\ proc' = [q \in Procs |->
          IF q = p
          THEN [stage |-> IF r.op \in {"reset", "reset-profile"} THEN "confirm" ELSE "apply",
                req |-> r, raw |-> file, base |-> file, next |-> 1, opened |-> FALSE,
                alone |-> \A o \in Procs : ~InProgress(o)]
          ELSE [proc[q] EXCEPT !.alone = @ /\ ~InProgress(q)]]
    /\ UNCHANGED <<file, backups, linked>>

Confirm(p) ==
    /\ proc[p].stage = "confirm"
    /\ \/ Goto(p, IF proc[p].req.op = "reset" THEN "stat" ELSE "apply")
       \/ Goto(p, "failed")
    /\ UNCHANGED <<file, backups, linked>>

(* The key is changed in the copy read at the start, and os.WriteFile opens *)
(* the file and truncates it.                                               *)
Apply(p) ==
    /\ proc[p].stage = "apply"
    /\ LET r == proc[p].req
           raw == proc[p].raw
       IN  IF Loads(raw) /\ Writable(r, raw.config) # {}
           THEN /\ proc' = [proc EXCEPT ![p].stage = "write", ![p].opened = TRUE,
                      ![p].raw = Content("config",
                                         CHOOSE d \in Writable(r, raw.config) : TRUE)]
                /\ file' = Empty
                /\ linked' = linked \cup {p}
           ELSE Goto(p, "failed") /\ UNCHANGED <<file, linked>>
    /\ UNCHANGED backups

(* The file cannot be created or opened, or the answer cannot be read. *)
ApplyFails(p) ==
    /\ proc[p].stage = "apply"
    /\ Goto(p, "failed")
    /\ UNCHANGED <<file, backups, linked>>

(* The write succeeds; the message that says so may not. *)
Write(p) ==
    /\ proc[p].stage = "write"
    /\ IF p \in linked THEN file' \in Overwritten(file, proc[p].raw)
                       ELSE UNCHANGED file
    /\ linked' = linked \ {p}
    /\ Goto(p, "ok") \/ Goto(p, "failed")
    /\ UNCHANGED backups

WriteFailsQuietly(p) ==               \* mutant: drops the error of the write
    /\ proc[p].stage = "write"
    /\ file' \in IF p \in linked THEN {file, Garbled} ELSE {file}
    /\ linked' = linked \ {p}
    /\ Goto(p, "ok")
    /\ UNCHANGED backups

(* The write stops before its end. *)
WriteFails(p) ==
    /\ proc[p].stage = "write"
    /\ file' \in IF p \in linked THEN {file, Garbled} ELSE {file}
    /\ linked' = linked \ {p}
    /\ Goto(p, "failed")
    /\ UNCHANGED backups

-----------------------------------------------------------------------------
(* config reset, once confirmed: runConfigReset and backupConfigFile.      *)

(* Nothing to reset is a success. *)
Stat(p) ==
    /\ proc[p].stage = "stat"
    /\ Goto(p, IF file = Absent THEN "ok" ELSE "read")
    /\ UNCHANGED <<file, backups, linked>>

ReadForBackup(p) ==
    /\ proc[p].stage = "read"
    /\ IF file = Absent THEN Goto(p, "failed")
       ELSE proc' = [proc EXCEPT ![p].stage = "probe", ![p].raw = file]
    /\ UNCHANGED <<file, backups, linked>>

(* The first backup name that is not taken: .bak, .bak.2, ... A stat that  *)
(* fails for another reason counts as taken.                               *)
ProbeOnce(p) ==                       \* mutant: takes the first name it tries
    /\ proc[p].stage = "probe"
    /\ Goto(p, "create")
    /\ UNCHANGED <<file, backups, linked>>
Probe(p) ==
    /\ proc[p].stage = "probe" /\ proc[p].next <= MaxBackups
    /\ \/ backups[proc[p].next] = Absent /\ Goto(p, "create")
       \/ proc' = [proc EXCEPT ![p].next = @ + 1]
    /\ UNCHANGED <<file, backups, linked>>

(* os.WriteFile of the backup opens and truncates what has the name now. *)
CreateBackup(p) ==
    /\ proc[p].stage = "create"
    /\ backups' = [backups EXCEPT ![proc[p].next] = Empty]
    /\ Goto(p, "copy")
    /\ UNCHANGED <<file, linked>>

CopyToBackup(p) ==
    /\ proc[p].stage = "copy"
    /\ \E c \in Overwritten(backups[proc[p].next], proc[p].raw) :
          backups' = [backups EXCEPT ![proc[p].next] = c]
    /\ Goto(p, "remove")
    /\ UNCHANGED <<file, linked>>

(* A call fails; a backup may stay behind, empty or in part. *)
BackupFails(p) ==
    /\ proc[p].stage \in {"stat", "read", "create", "copy"}
    /\ backups' \in IF proc[p].stage = "copy"
                    THEN {backups, [backups EXCEPT ![proc[p].next] = Garbled]}
                    ELSE {backups}
    /\ Goto(p, "failed")
    /\ UNCHANGED <<file, linked>>

(* Whoever has the removed file open goes on writing to it, unseen.  The   *)
(* message that names the backup may fail to be written.                   *)
Remove(p) ==
    /\ proc[p].stage = "remove"
    /\ \/ /\ file # Absent
          /\ file' = Absent
          /\ linked' = {}
          /\ Goto(p, "ok") \/ Goto(p, "failed")
       \/ Goto(p, "failed") /\ UNCHANGED <<file, linked>>
    /\ UNCHANGED backups

Kill(p) ==
    /\ InProgress(p)
    /\ Goto(p, "killed")
    /\ linked' = linked \ {p}
    /\ UNCHANGED <<file, backups>>

Step(p) ==
    \/ Confirm(p)
    \/ Apply(p)
    \/ ApplyFails(p)
    \/ Write(p)
    \/ WriteFails(p)
    \/ Stat(p)
    \/ ReadForBackup(p)
    \/ Probe(p)
    \/ CreateBackup(p)
    \/ CopyToBackup(p)
    \/ BackupFails(p)
    \/ Remove(p)

Next == \E p \in Procs : (\E r \in Requests : Start(p, r)) \/ Step(p) \/ Kill(p)

Spec == Init /\ [][Next]_vars

-----------------------------------------------------------------------------
Kept == {backups[i] : i \in 1..MaxBackups}

(* However commands overlap, fail or are killed: every configuration that  *)
(* appears in the file is coherent and is what one command made, as a      *)
(* whole, of the content it read, never a mixture of two.  That content    *)
(* may be empty: a command that reads the file after another one truncated *)
(* it and before that writes makes its change of nothing, and the user's   *)
(* settings are gone.  This the property allows, as the code does.         *)
NeverMixed ==
    [][file' # file /\ file'.kind = "config" =>
         /\ Coherent(file'.config)
         /\ \E p \in Procs : /\ proc[p].stage = "write" /\ proc'[p].stage # "write"
                            /\ file'.config \in Effect(proc[p].req, proc[p].base.config)]_vars

(* A command that ran alone and reports success changed what it was asked  *)
(* to and nothing else; one that fails before it opens the file leaves it. *)
SuccessIsExact ==
    [][\A p \in Procs :
         LET q == proc[p] IN
         InProgress(p) /\ q.alone =>
            /\ proc'[p].stage = "ok" /\ q.req.op # "reset"
               => file' = Content("config",
                             CHOOSE d \in Effect(q.req, q.base.config) : TRUE)
            /\ proc'[p].stage = "ok" /\ q.req.op = "reset"
               => file' = Absent /\ q.base \in {Absent} \cup Kept'
            /\ proc'[p].stage = "failed" /\ ~q.opened /\ q.stage # "remove"
               => file' = q.base]_vars

(* A config reset that runs alone never holds the only copy: wherever it   *)
(* fails or is killed, the content it found is in the file or whole in a   *)
(* backup, and every earlier backup is as it was.                          *)
ResetLosesNothing ==
    [][\A p \in Procs :
         InProgress(p) /\ proc[p].alone /\ proc[p].req.op = "reset" =>
            /\ proc[p].base \in {file'} \cup Kept'
            /\ \A i \in 1..MaxBackups :
                  backups[i] # Absent /\ ~(proc[p].stage = "copy" /\ i = proc[p].next)
                  => backups'[i] = backups[i]]_vars

(* "config reset ... creates a backup before deleting the current config   *)
(* file" (README-EN.md): what is deleted is in a backup.                   *)
DeletedIsBackedUp ==
    [][file.kind = "config" /\ file' = Absent => file \in Kept]_vars
=============================================================================
