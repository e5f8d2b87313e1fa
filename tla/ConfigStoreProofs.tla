--------------------------- MODULE ConfigStoreProofs ---------------------------
(***************************************************************************)
(* Theorems about ConfigStore, for any number of processes, profiles,      *)
(* values and backups.                                                     *)
(***************************************************************************)
EXTENDS ConfigStore, TLAPS

Jobs == [stage : Stages, raw : Contents, base : Contents, req : Requests,
         next : 1..(MaxBackups + 1), alone : BOOLEAN, opened : BOOLEAN]

Type ==
    /\ file \in Contents
    /\ backups \in [1..MaxBackups -> Contents]
    /\ linked \subseteq Procs
    /\ proc \in [Procs -> Jobs]

(* Every operation but config reset. *)
Changing == {"set", "unset", "reset-profile", "use"}

Resetting == {"stat", "read", "probe", "create", "copy", "remove"}

(* What the record r of a process says by itself: a command changes what   *)
(* it read at its start, and writes only what may be written.              *)
Follows(r) ==
    /\ r.stage \in {"confirm", "apply"} => r.raw = r.base
    /\ r.stage \in {"apply", "write"} => r.req.op \in Changing
    /\ r.stage = "write" =>
          /\ r.opened
          /\ \E d \in Writable(r.req, r.base.config) : r.raw = Content("config", d)
    /\ r.stage \in Resetting => r.req.op = "reset"
    /\ r.stage \in {"create", "copy", "remove"} => r.next <= MaxBackups

(* What a command that nobody disturbs can rely on at the file f and the   *)
(* backups b: up to its write, the content it read; and in a reset, where  *)
(* the copy has got to.                                                    *)
Held(r, f, b) ==
    /\ r.stage \in {"confirm", "apply"} \cup Resetting => f = r.base
    /\ r.stage = "write" => f = Empty
    /\ r.stage \in {"probe", "create", "copy", "remove"} => r.raw = r.base
    /\ r.stage = "create" => b[r.next] = Absent
    /\ r.stage = "copy" => b[r.next] = Empty
    /\ r.stage = "remove" => b[r.next] = r.base

Undisturbed(p) ==
    proc[p].alone /\ InProgress(p) =>
        /\ \A q \in Procs : q # p => ~InProgress(q)
        /\ Held(proc[p], file, backups)
        /\ proc[p].stage = "write" => p \in linked

Inv == /\ Type
       /\ \A p \in Procs : Follows(proc[p])
       /\ \A p \in Procs : Undisturbed(p)

-----------------------------------------------------------------------------
(* Contents are told apart by their kind. *)
LEMMA Kinds ==
    /\ Absent \in Contents /\ Empty \in Contents /\ Garbled \in Contents
    /\ Absent.kind = "absent" /\ Empty.kind = "empty" /\ Garbled.kind = "garbled"
    /\ \A d \in Configs : /\ Content("config", d) \in Contents
                          /\ Content("config", d).kind = "config"
                          /\ Content("config", d).config = d
<1>1. NoConfig \in Configs
    BY ConfigAssumption DEF NoConfig, Configs, Scopes
<1> HIDE DEF NoConfig
<1> QED
    BY <1>1 DEF Absent, Empty, Garbled, Content, Contents

(* What a command makes of a configuration is a configuration. *)
LEMMA EffectTyped ==
    ASSUME NEW r \in Requests, r.op \in Changing, NEW c \in Configs, NEW d \in Effect(r, c)
    PROVE  d \in Configs
<1>1. /\ c \in [active : Profiles \cup {""}, profiles : SUBSET Profiles,
                key : [Scopes -> Values \cup {""}]]
      /\ \A s \in Profiles \ c.profiles : c.key[s] = ""
      /\ r.scope \in Scopes /\ r.value \in Values \cup {""}
    BY DEF Configs, Requests
<1>2. CASE r.op = "set"
  <2> DEFINE k == [c.key EXCEPT ![r.scope] = r.value]
             ps == c.profiles \cup ({r.scope} \ {"top"})
  <2>1. d = [c EXCEPT !.key = k, !.profiles = ps]
      BY <1>1, <1>2 DEF Effect
  <2>2. k \in [Scopes -> Values \cup {""}]
      BY <1>1
  <2>3. ps \subseteq Profiles
      BY <1>1 DEF Scopes
  <2>4. ASSUME NEW s \in Profiles \ ps PROVE k[s] = ""
    <3>1. s \in Scopes /\ s # "top" /\ s \notin c.profiles
        BY ConfigAssumption DEF Scopes
    <3>2. s # r.scope
        BY <3>1
    <3> QED
        BY <1>1, <3>1, <3>2
  <2> HIDE DEF k, ps
  <2> QED
      BY <1>1, <2>1, <2>2, <2>3, <2>4 DEF Configs
<1>3. CASE r.op = "unset"
  <2> DEFINE k == [c.key EXCEPT ![r.scope] = ""]
  <2>1. d = [c EXCEPT !.key = k]
      BY <1>1, <1>3 DEF Effect
  <2>2. k \in [Scopes -> Values \cup {""}] /\ \A s \in Profiles \ c.profiles : k[s] = ""
      BY <1>1 DEF Scopes
  <2> HIDE DEF k
  <2> QED
      BY <1>1, <2>1, <2>2 DEF Configs
<1>4. CASE r.op = "use"
  <2> DEFINE a == IF r.scope = "top" THEN "" ELSE r.scope
  <2>1. d = [c EXCEPT !.active = a]
      BY <1>1, <1>4 DEF Effect
  <2>2. a \in Profiles \cup {""}
      BY <1>1 DEF Scopes
  <2> HIDE DEF a
  <2> QED
      BY <1>1, <2>1, <2>2 DEF Configs
<1>5. CASE r.op = "reset-profile"
  <2> DEFINE k == [c.key EXCEPT ![r.scope] = ""]
             ps == c.profiles \ {r.scope}
             a == IF c.active = r.scope THEN "" ELSE c.active
  <2>1. d = [c EXCEPT !.profiles = ps, !.key = k, !.active = a]
      BY <1>1, <1>5 DEF Effect
  <2>2. /\ k \in [Scopes -> Values \cup {""}] /\ ps \subseteq Profiles
        /\ \A s \in Profiles \ ps : k[s] = "" /\ a \in Profiles \cup {""}
      BY <1>1 DEF Scopes
  <2>3. a \in Profiles \cup {""}
      BY <1>1
  <2> HIDE DEF k, ps, a
  <2> QED
      BY <1>1, <2>1, <2>2, <2>3 DEF Configs
<1> QED
    BY <1>2, <1>3, <1>4, <1>5 DEF Changing

(* A command makes at most one thing of a configuration. *)
LEMMA EffectSingle ==
    ASSUME NEW r, r.op \in Changing, NEW c, NEW d \in Effect(r, c), NEW e \in Effect(r, c)
    PROVE  d = e
<1>1. CASE r.op = "set"
    BY <1>1 DEF Effect
<1>2. CASE r.op = "unset"
    BY <1>2 DEF Effect
<1>3. CASE r.op = "use"
    BY <1>3 DEF Effect
<1>4. CASE r.op = "reset-profile"
    BY <1>4 DEF Effect
<1> QED
    BY <1>1, <1>2, <1>3, <1>4 DEF Changing

(* What a write leaves in the file is typed, and is the new content where  *)
(* it is a configuration that was not there before.                        *)
LEMMA Overwriting ==
    ASSUME NEW old \in Contents, NEW new \in Contents, NEW f \in Overwritten(old, new)
    PROVE  /\ f \in Contents
           /\ f \in {old, new, Garbled}
           /\ old = Empty => f = new
BY Kinds DEF Overwritten

-----------------------------------------------------------------------------
(* The backup names that are tried. *)
LEMMA Names ==
    /\ MaxBackups \in Nat /\ 1 \in 1..(MaxBackups + 1)
    /\ \A k \in 1..(MaxBackups + 1) : k <= MaxBackups =>
          k \in 1..MaxBackups /\ k + 1 \in 1..(MaxBackups + 1)
<1>1. MaxBackups \in Nat
    BY ConfigAssumption
<1> QED
    BY <1>1

(* What the invariant says of one process. *)
LEMMA Here ==
    ASSUME Inv, NEW p \in Procs
    PROVE  /\ proc \in [Procs -> Jobs] /\ proc[p] \in Jobs /\ file \in Contents
           /\ backups \in [1..MaxBackups -> Contents] /\ linked \subseteq Procs
           /\ Follows(proc[p]) /\ Undisturbed(p)
BY DEF Inv, Type

(* A step of a process that is in progress: whoever else ran is not alone, *)
(* and need rely on nothing.                                               *)
LEMMA Becomes ==
    ASSUME Inv, NEW p \in Procs, InProgress(p), NEW n \in Jobs, proc' = [proc EXCEPT ![p] = n],
           file' \in Contents, backups' \in [1..MaxBackups -> Contents],
           linked' \subseteq Procs, Follows(n), n.alone = proc[p].alone,
           NEW f, f = file', NEW b, b = backups',
           (proc[p].alone /\ Held(proc[p], file, backups) /\ n.stage \in Working)
              => Held(n, f, b) /\ (n.stage = "write" => p \in linked')
    PROVE  Inv'
<1>1. /\ proc' \in [Procs -> Jobs] /\ proc'[p] = n
      /\ \A q \in Procs : q # p => proc'[q] = proc[q]
    BY DEF Inv, Type
<1>2. Type'
    BY <1>1 DEF Type
<1>3. \A q \in Procs : Follows(proc[q])'
    BY <1>1 DEF Inv
<1>4. ASSUME NEW q \in Procs PROVE Undisturbed(q)'
  <2>1. CASE q = p
    <3> SUFFICES ASSUME (proc[p].alone /\ InProgress(p))'
                 PROVE  /\ \A o \in Procs : o # p => ~InProgress(o)'
                        /\ Held(proc[p], file, backups)'
                        /\ (proc[p].stage = "write" => p \in linked)'
        BY <2>1 DEF Undisturbed
    <3>1. proc[p].alone /\ n.stage \in Working
        BY <1>1 DEF InProgress
    <3>2. /\ \A o \in Procs : o # p => ~InProgress(o)
          /\ Held(proc[p], file, backups)
        BY <3>1 DEF Inv, Undisturbed
    <3>3. \A o \in Procs : o # p => ~InProgress(o)'
        BY <1>1, <3>2 DEF InProgress
    <3>4. Held(n, f, b) /\ (n.stage = "write" => p \in linked')
        BY <3>1, <3>2
    <3> QED
        BY <1>1, <3>3, <3>4
  <2>2. CASE q # p
    <3>1. ~(proc[q].alone /\ InProgress(q))
        BY <2>2 DEF Inv, Undisturbed
    <3> QED
        BY <1>1, <2>2, <3>1 DEF Undisturbed, InProgress
  <2> QED
      BY <2>1, <2>2
<1> QED
    BY <1>2, <1>3, <1>4 DEF Inv

(* The same where only the stage changes, and with it perhaps the link. *)
LEMMA Moves ==
    ASSUME Inv, NEW p \in Procs, InProgress(p), NEW s \in Stages, Goto(p, s),
           file' \in Contents, backups' \in [1..MaxBackups -> Contents],
           linked' \subseteq Procs, NEW f, f = file', NEW b, b = backups',
           s \notin {"confirm", "write"},
           s = "apply" => proc[p].stage = "confirm" /\ proc[p].req.op \in Changing,
           s \in Resetting => proc[p].req.op = "reset",
           s \in {"create", "copy", "remove"} => proc[p].next <= MaxBackups,
           (proc[p].alone /\ Held(proc[p], file, backups) /\ s \in Working)
              => Held([proc[p] EXCEPT !.stage = s], f, b)
    PROVE  Inv'
<1> DEFINE n == [proc[p] EXCEPT !.stage = s]
<1>1. proc[p] \in Jobs /\ Follows(proc[p])
    BY Here
<1>2. proc' = [proc EXCEPT ![p] = n]
    BY Here DEF Goto
<1>3. /\ n \in Jobs /\ n.stage = s /\ n.raw = proc[p].raw /\ n.base = proc[p].base
      /\ n.req = proc[p].req /\ n.next = proc[p].next /\ n.alone = proc[p].alone
    BY <1>1 DEF Jobs
<1>4. (proc[p].alone /\ Held(proc[p], file, backups) /\ s \in Working) => Held(n, f, b)
    OBVIOUS
<1> HIDE DEF n
<1>5. Follows(n)
    BY <1>1, <1>3 DEF Follows
<1> QED
    BY <1>2, <1>3, <1>4, <1>5, Becomes

(* The same with the file and the backups as they are. *)
LEMMA MovesHere ==
    ASSUME Inv, NEW p \in Procs, InProgress(p), NEW s \in Working \ {"confirm", "write"},
           Goto(p, s), UNCHANGED <<file, backups, linked>>,
           s = "apply" => proc[p].stage = "confirm" /\ proc[p].req.op \in Changing,
           s # "apply" => proc[p].req.op = "reset",
           s \in {"create", "copy", "remove"} => proc[p].next <= MaxBackups,
           Held(proc[p], file, backups) => Held([proc[p] EXCEPT !.stage = s], file, backups)
    PROVE  Inv'
<1>1. /\ s \in Stages /\ file' = file /\ backups' = backups /\ file' \in Contents
      /\ backups' \in [1..MaxBackups -> Contents] /\ linked' \subseteq Procs
      /\ s \notin {"confirm", "write"} /\ (s \in Resetting => proc[p].req.op = "reset")
    BY Here DEF Stages, Resetting
<1> QED
    BY <1>1, Moves

-----------------------------------------------------------------------------
(* Every step keeps the invariant.                                         *)

(* A process that starts is alone if no other is in progress, and none     *)
(* that is in progress is alone any more.                                  *)
LEMMA StartInv == ASSUME Inv, NEW p \in Procs, NEW r \in Requests, Start(p, r) PROVE Inv'
<1> DEFINE a == \A o \in Procs : ~InProgress(o)
           s == IF r.op \in {"reset", "reset-profile"} THEN "confirm" ELSE "apply"
           n == [stage |-> s, req |-> r, raw |-> file, base |-> file, next |-> 1,
                 opened |-> FALSE, alone |-> a]
<1>1. s \in Stages /\ 1 \in 1..(MaxBackups + 1) /\ file \in Contents /\ a \in BOOLEAN
      /\ (s = "apply" => r.op \in Changing) /\ s \in {"confirm", "apply"}
    BY Names, Here DEF Stages, Working, Requests, Changing
<1>2. proc'[p] = n /\ \A q \in Procs : q # p => proc'[q] = [proc[q] EXCEPT !.alone = @ /\ ~InProgress(q)]
    BY DEF Start
<1>3. DOMAIN proc' = Procs /\ proc' = [q \in Procs |-> proc'[q]] /\ UNCHANGED <<file, backups, linked>>
    BY DEF Start
<1>4. a => \A o \in Procs : ~InProgress(o)
    OBVIOUS
<1> HIDE DEF a, s
<1>5. /\ n \in Jobs /\ n.stage = s /\ n.req = r /\ n.raw = file /\ n.base = file
      /\ n.alone = a
    BY <1>1 DEF Jobs
<1> HIDE DEF n
<1>6. ASSUME NEW q \in Procs, q # p
      PROVE  /\ proc'[q] \in Jobs /\ proc'[q].stage = proc[q].stage
             /\ proc'[q].raw = proc[q].raw /\ proc'[q].base = proc[q].base
             /\ proc'[q].req = proc[q].req /\ proc'[q].next = proc[q].next
             /\ proc'[q].opened = proc[q].opened
             /\ (InProgress(q) => ~proc'[q].alone)
  <2> DEFINE b == proc[q].alone /\ ~InProgress(q)
  <2>1. proc'[q] = [proc[q] EXCEPT !.alone = b] /\ proc[q] \in Jobs
      BY <1>2, <1>6, Here
  <2>2. b \in BOOLEAN /\ (InProgress(q) => b = FALSE)
      BY <2>1 DEF Jobs
  <2> HIDE DEF b
  <2> QED
      BY <2>1, <2>2 DEF Jobs
<1>7. Type'
  <2>1. proc' \in [Procs -> Jobs]
      BY <1>2, <1>3, <1>5, <1>6
  <2> QED
      BY <2>1, <1>3 DEF Inv, Type
<1>8. \A q \in Procs : Follows(proc[q])'
    BY <1>1, <1>2, <1>5, <1>6 DEF Inv, Follows, Resetting
<1>9. ASSUME NEW q \in Procs PROVE Undisturbed(q)'
  <2>1. CASE q # p
      BY <1>6, <2>1 DEF Undisturbed, InProgress
  <2>2. CASE q = p
    <3> SUFFICES ASSUME a
                 PROVE  /\ \A o \in Procs : o # p => ~InProgress(o)'
                        /\ Held(proc[p], file, backups)'
                        /\ (proc[p].stage = "write" => p \in linked)'
        BY <1>2, <1>5, <2>2 DEF Undisturbed
    <3>1. \A o \in Procs : o # p => ~InProgress(o)'
        BY <1>4, <1>6 DEF InProgress
    <3>2. Held(proc[p], file, backups)' /\ (proc[p].stage = "write" => p \in linked)'
        BY <1>1, <1>2, <1>3, <1>5 DEF Held, Resetting
    <3> QED
        BY <3>1, <3>2
  <2> QED
      BY <2>1, <2>2
<1> QED
    BY <1>7, <1>8, <1>9 DEF Inv

(* A step that ends the command. *)
LEMMA Ends ==
    ASSUME Inv, NEW p \in Procs, InProgress(p), NEW s \in {"ok", "failed", "killed"}, Goto(p, s),
           file' \in Contents, backups' \in [1..MaxBackups -> Contents],
           linked' \subseteq Procs
    PROVE  Inv'
BY Moves DEF Stages, Working, Resetting

LEMMA ConfirmInv == ASSUME Inv, NEW p \in Procs, Confirm(p) PROVE Inv'
<1> DEFINE s == IF proc[p].req.op = "reset" THEN "stat" ELSE "apply"
<1>1. proc[p].stage = "confirm" /\ proc[p].req.op \in Changing \cup {"reset"} /\ InProgress(p)
    BY Here DEF Confirm, Jobs, Requests, Changing, InProgress, Working
<1>2. Held(proc[p], file, backups) => Held([proc[p] EXCEPT !.stage = s], file, backups)
    BY <1>1, Here DEF Held, Jobs, Resetting
<1>3. CASE Goto(p, s)
  <2>1. /\ s \in Working \ {"confirm", "write"} /\ (s = "apply" => proc[p].req.op \in Changing)
        /\ (s # "apply" => proc[p].req.op = "reset") /\ s \notin {"create", "copy", "remove"}
      BY <1>1 DEF Working
  <2> HIDE DEF s
  <2> QED
      BY <1>1, <1>2, <1>3, <2>1, MovesHere DEF Confirm
<1>4. CASE Goto(p, "failed")
    BY <1>1, <1>4, Here, Ends DEF Confirm
<1> QED
    BY <1>3, <1>4 DEF Confirm

LEMMA ApplyInv == ASSUME Inv, NEW p \in Procs, Apply(p) PROVE Inv'
<1> DEFINE r == proc[p]
<1>1. /\ r \in Jobs /\ r.stage = "apply" /\ r.raw = r.base /\ r.req.op \in Changing
      /\ r.req \in Requests /\ r.base \in Contents /\ r.base.config \in Configs /\ InProgress(p)
    BY Here DEF Apply, Follows, Jobs, Contents, InProgress, Working
<1>2. CASE Goto(p, "failed") /\ UNCHANGED <<file, linked>>
    BY <1>1, <1>2, Here, Ends DEF Apply
<1>3. CASE /\ Writable(r.req, r.raw.config) # {}
           /\ proc' = [proc EXCEPT ![p].stage = "write", ![p].opened = TRUE,
                      ![p].raw = Content("config",
                                         CHOOSE d \in Writable(r.req, r.raw.config) : TRUE)]
           /\ file' = Empty
           /\ linked' = linked \cup {p}
  <2>1. PICK d \in Writable(r.req, r.base.config) :
           proc' = [proc EXCEPT ![p].stage = "write", ![p].opened = TRUE,
                                ![p].raw = Content("config", d)]
      BY <1>1, <1>3
  <2>2. d \in Configs
      BY <1>1, EffectTyped DEF Writable
  <2> DEFINE c == Content("config", d)
             n == [r EXCEPT !.stage = "write", !.opened = TRUE, !.raw = c]
  <2>3. c \in Contents
      BY <2>2, Kinds
  <2>4. proc' = [proc EXCEPT ![p] = n]
      BY <2>1, Here
  <2>5. c = Content("config", d)
      OBVIOUS
  <2> HIDE DEF c
  <2>6. /\ n \in Jobs /\ n.stage = "write" /\ n.opened = TRUE /\ n.raw = c /\ n.base = r.base
        /\ n.req = r.req /\ n.alone = r.alone
      BY <1>1, <2>3 DEF Jobs, Stages, Working
  <2> HIDE DEF n
  <2>7. Follows(n)
      BY <1>1, <2>1, <2>5, <2>6 DEF Follows, Resetting
  <2>8. Held(n, Empty, backups) /\ p \in linked'
      BY <1>3, <2>6 DEF Held, Resetting
  <2>9. /\ file' = Empty /\ file' \in Contents /\ backups' = backups
        /\ backups' \in [1..MaxBackups -> Contents] /\ linked' \subseteq Procs
      BY <1>3, Here, Kinds DEF Apply
  <2> HIDE DEF r
  <2>10. n.alone = proc[p].alone
      BY <2>6 DEF r
  <2> QED
      BY <1>1, <2>4, <2>6, <2>7, <2>8, <2>9, <2>10, Becomes
<1> QED
    BY <1>2, <1>3 DEF Apply

LEMMA ApplyFailsInv == ASSUME Inv, NEW p \in Procs, ApplyFails(p) PROVE Inv'
BY Here, Ends DEF ApplyFails, InProgress, Working

LEMMA WriteInv == ASSUME Inv, NEW p \in Procs, Write(p) \/ WriteFails(p) PROVE Inv'
<1>1. InProgress(p) /\ proc[p].raw \in Contents
    BY Here DEF Write, WriteFails, InProgress, Working, Jobs
<1>2. file' \in Contents
    BY <1>1, Here, Overwriting, Kinds DEF Write, WriteFails
<1>3. PICK s \in {"ok", "failed"} : Goto(p, s)
    BY DEF Write, WriteFails
<1>4. backups' \in [1..MaxBackups -> Contents] /\ linked' \subseteq Procs
    BY Here DEF Write, WriteFails
<1> QED
    BY <1>1, <1>2, <1>3, <1>4, Ends

LEMMA StatInv == ASSUME Inv, NEW p \in Procs, Stat(p) PROVE Inv'
<1>1. /\ proc[p].stage = "stat" /\ InProgress(p) /\ proc[p].req.op = "reset"
      /\ UNCHANGED <<file, backups, linked>>
    BY Here DEF Stat, InProgress, Working, Follows, Resetting
<1>2. Held(proc[p], file, backups) => Held([proc[p] EXCEPT !.stage = "read"], file, backups)
    BY <1>1, Here DEF Held, Jobs, Resetting
<1>3. CASE Goto(p, "ok")
    BY <1>1, <1>3, Here, Ends
<1>4. CASE Goto(p, "read")
    BY <1>1, <1>2, <1>4, MovesHere DEF Working
<1> QED
    BY <1>3, <1>4 DEF Stat

LEMMA ReadForBackupInv == ASSUME Inv, NEW p \in Procs, ReadForBackup(p) PROVE Inv'
<1> DEFINE r == proc[p]
           n == [r EXCEPT !.stage = "probe", !.raw = file]
<1>1. /\ r.stage = "read" /\ InProgress(p) /\ r.req.op = "reset" /\ r \in Jobs
      /\ file \in Contents /\ UNCHANGED <<file, backups, linked>>
    BY Here DEF ReadForBackup, InProgress, Working, Follows, Resetting
<1>2. CASE Goto(p, "failed")
    BY <1>1, <1>2, Here, Ends
<1>3. CASE proc' = [proc EXCEPT ![p].stage = "probe", ![p].raw = file]
  <2>1. proc' = [proc EXCEPT ![p] = n]
      BY <1>3, Here
  <2>2. /\ n \in Jobs /\ n.stage = "probe" /\ n.raw = file /\ n.base = r.base
        /\ n.req = r.req /\ n.alone = r.alone
      BY <1>1 DEF Jobs, Stages, Working
  <2> HIDE DEF n
  <2>3. Follows(n)
      BY <1>1, <2>2 DEF Follows, Resetting
  <2>4. Held(r, file, backups) => Held(n, file, backups)
      BY <1>1, <2>2 DEF Held, Resetting
  <2> QED
      BY <1>1, <2>1, <2>2, <2>3, <2>4, Here, Becomes
<1> QED
    BY <1>2, <1>3 DEF ReadForBackup

LEMMA ProbeInv == ASSUME Inv, NEW p \in Procs, Probe(p) PROVE Inv'
<1> DEFINE r == proc[p]
           k == r.next + 1
           n == [r EXCEPT !.next = k]
<1>1. /\ r.stage = "probe" /\ InProgress(p) /\ r.req.op = "reset" /\ r \in Jobs
      /\ r.next <= MaxBackups /\ UNCHANGED <<file, backups, linked>>
    BY Here DEF Probe, InProgress, Working, Follows, Resetting
<1>2. CASE backups[r.next] = Absent /\ Goto(p, "create")
  <2>1. Held(r, file, backups) => Held([r EXCEPT !.stage = "create"], file, backups)
      BY <1>1, <1>2 DEF Held, Jobs, Resetting
  <2> QED
      BY <1>1, <1>2, <2>1, MovesHere DEF Working
<1>3. CASE proc' = [proc EXCEPT ![p].next = @ + 1]
  <2>1. proc' = [proc EXCEPT ![p] = n]
      BY <1>3, Here
  <2>2. k \in 1..(MaxBackups + 1)
      BY <1>1, Names DEF Jobs
  <2> HIDE DEF k
  <2>3. /\ n \in Jobs /\ n.stage = "probe" /\ n.raw = r.raw /\ n.base = r.base
        /\ n.req = r.req /\ n.alone = r.alone
      BY <1>1, <2>2 DEF Jobs, Stages, Working
  <2> HIDE DEF n
  <2>4. Follows(n)
      BY <1>1, <2>3 DEF Follows, Resetting
  <2>5. Held(r, file, backups) => Held(n, file, backups)
      BY <1>1, <2>3 DEF Held, Resetting
  <2> QED
      BY <1>1, <2>1, <2>3, <2>4, <2>5, Here, Becomes
<1> QED
    BY <1>2, <1>3 DEF Probe

LEMMA CreateBackupInv == ASSUME Inv, NEW p \in Procs, CreateBackup(p) PROVE Inv'
<1> DEFINE r == proc[p]
           b == [backups EXCEPT ![r.next] = Empty]
<1>1. /\ r.stage = "create" /\ InProgress(p) /\ r.req.op = "reset" /\ r \in Jobs
      /\ r.next \in 1..MaxBackups /\ UNCHANGED <<file, linked>> /\ backups' = b
      /\ Goto(p, "copy")
    BY Here DEF CreateBackup, InProgress, Working, Follows, Resetting, Jobs
<1>2. b \in [1..MaxBackups -> Contents] /\ b[r.next] = Empty
    BY <1>1, Here, Kinds
<1>3. backups' = b
    BY <1>1
<1> HIDE DEF b
<1>4. Held(r, file, backups) => Held([r EXCEPT !.stage = "copy"], file, b)
    BY <1>1, <1>2 DEF Held, Jobs, Resetting
<1>5. /\ "copy" \in Stages /\ file' = file /\ file' \in Contents /\ linked' \subseteq Procs
      /\ r.next <= MaxBackups
    BY <1>1, Here, Names DEF Stages, Working
<1> QED
    BY <1>1, <1>2, <1>3, <1>4, <1>5, Moves

LEMMA CopyToBackupInv == ASSUME Inv, NEW p \in Procs, CopyToBackup(p) PROVE Inv'
<1> DEFINE r == proc[p]
<1>1. /\ r.stage = "copy" /\ InProgress(p) /\ r.req.op = "reset" /\ r \in Jobs
      /\ r.next \in 1..MaxBackups /\ UNCHANGED <<file, linked>> /\ Goto(p, "remove")
      /\ r.raw \in Contents
    BY Here DEF CopyToBackup, InProgress, Working, Follows, Resetting, Jobs
<1>2. PICK c \in Overwritten(backups[r.next], r.raw) :
         backups' = [backups EXCEPT ![r.next] = c]
    BY DEF CopyToBackup
<1> DEFINE b == [backups EXCEPT ![r.next] = c]
<1>3. c \in Contents /\ (backups[r.next] = Empty => c = r.raw)
  <2>1. backups[r.next] \in Contents
      BY <1>1, Here
  <2> QED
      BY <1>1, <2>1, Overwriting
<1>4. b \in [1..MaxBackups -> Contents] /\ b[r.next] = c
    BY <1>1, <1>3, Here
<1>5. backups' = b
    BY <1>2
<1> HIDE DEF b
<1>6. Held(r, file, backups) => Held([r EXCEPT !.stage = "remove"], file, b)
    BY <1>1, <1>3, <1>4 DEF Held, Jobs, Resetting
<1>7. /\ "remove" \in Stages /\ file' = file /\ file' \in Contents /\ linked' \subseteq Procs
      /\ r.next <= MaxBackups
    BY <1>1, Here, Names DEF Stages, Working
<1> QED
    BY <1>1, <1>4, <1>5, <1>6, <1>7, Moves

LEMMA BackupFailsInv == ASSUME Inv, NEW p \in Procs, BackupFails(p) PROVE Inv'
<1>1. backups' \in [1..MaxBackups -> Contents]
    BY Here, Kinds DEF BackupFails
<1> QED
    BY <1>1, Here, Ends DEF BackupFails, InProgress, Working

LEMMA RemoveInv == ASSUME Inv, NEW p \in Procs, Remove(p) PROVE Inv'
<1>1. file' \in Contents /\ linked' \subseteq Procs /\ backups' \in [1..MaxBackups -> Contents]
    BY Here, Kinds DEF Remove
<1>2. PICK s \in {"ok", "failed"} : Goto(p, s)
    BY DEF Remove
<1> QED
    BY <1>1, <1>2, Ends DEF Remove, InProgress, Working

LEMMA KillInv == ASSUME Inv, NEW p \in Procs, Kill(p) PROVE Inv'
<1>1. file' \in Contents /\ linked' \subseteq Procs /\ backups' \in [1..MaxBackups -> Contents]
    BY Here DEF Kill
<1> QED
    BY <1>1, Ends DEF Kill

LEMMA InitInv == Init => Inv
<1> SUFFICES ASSUME Init PROVE Inv
    OBVIOUS
<1> DEFINE q == [op |-> "reset", scope |-> "top", value |-> ""]
           n == [stage |-> "ready", raw |-> Absent, base |-> Absent, req |-> q,
                 next |-> 1, alone |-> TRUE, opened |-> FALSE]
<1>1. q \in Requests /\ 1 \in 1..(MaxBackups + 1)
    BY Names DEF Requests, Scopes
<1>2. proc = [p \in Procs |-> n]
    BY DEF Init
<1> HIDE DEF q
<1>3. n \in Jobs /\ n.stage = "ready"
    BY <1>1, Kinds DEF Jobs, Stages
<1> HIDE DEF n
<1>4. Type
    BY <1>2, <1>3, Kinds DEF Init, Type
<1>5. \A p \in Procs : Follows(proc[p]) /\ Undisturbed(p)
    BY <1>2, <1>3 DEF Follows, Undisturbed, InProgress, Working, Resetting
<1> QED
    BY <1>4, <1>5 DEF Inv

LEMMA StepInv == Inv /\ [Next]_vars => Inv'
<1> SUFFICES ASSUME Inv, [Next]_vars PROVE Inv'
    OBVIOUS
<1>1. ASSUME NEW p \in Procs, NEW r \in Requests, Start(p, r) PROVE Inv'
    BY <1>1, StartInv
<1>2. ASSUME NEW p \in Procs, Step(p) PROVE Inv'
    BY <1>2, ConfirmInv, ApplyInv, ApplyFailsInv, WriteInv, StatInv, ReadForBackupInv,
       ProbeInv, CreateBackupInv, CopyToBackupInv, BackupFailsInv, RemoveInv DEF Step
<1>3. ASSUME NEW p \in Procs, Kill(p) PROVE Inv'
    BY <1>3, KillInv
<1>4. CASE UNCHANGED vars
    BY <1>4 DEF vars, Inv, Type, Undisturbed, InProgress
<1> QED
    BY <1>1, <1>2, <1>3, <1>4 DEF Next

(* The invariant, and with it the types. *)
THEOREM StoreInvariant == Spec => []Inv
BY InitInv, StepInv, PTL DEF Spec

(* Every variable has its type. *)
THEOREM StoreTyped == Spec => []TypeOK
<1>1. Inv => TypeOK
    BY DEF Inv, Type, TypeOK, Jobs
<1> QED
    BY <1>1, StoreInvariant, PTL

-----------------------------------------------------------------------------
(* What a write by p leaves in the file that is new and a configuration is *)
(* the one that p made.                                                    *)
LEMMA WrittenWhole ==
    ASSUME Inv, NEW p \in Procs, Write(p), file' # file, file'.kind = "config"
    PROVE  /\ Coherent(file'.config)
           /\ proc[p].stage = "write" /\ proc'[p].stage # "write"
           /\ file'.config \in Effect(proc[p].req, proc[p].base.config)
<1> DEFINE r == proc[p]
<1>1. /\ r.stage = "write" /\ r \in Jobs /\ Follows(r) /\ r.raw \in Contents
      /\ r.base.config \in Configs /\ r.req \in Requests /\ file \in Contents
    BY Here DEF Write, Jobs, Contents
<1>2. file' = r.raw
    BY <1>1, Overwriting, Kinds DEF Write
<1>3. PICK d \in Writable(r.req, r.base.config) : r.raw = Content("config", d)
    BY <1>1 DEF Follows
<1>4. d \in Effect(r.req, r.base.config) /\ Coherent(d)
    BY <1>3 DEF Writable
<1>5. d \in Configs
    BY <1>1, <1>4, EffectTyped DEF Follows
<1>6. file'.config = d
    BY <1>2, <1>3, <1>5, Kinds
<1>7. proc'[p].stage # "write"
    BY <1>1, Here DEF Write, Goto, Jobs
<1> QED
    BY <1>1, <1>4, <1>6, <1>7

(* Whatever overlaps, fails or is killed: a configuration that appears in  *)
(* the file is coherent and what one command made of what it read.         *)
THEOREM FileNeverMixed == Spec => NeverMixed
<1>1. Inv /\ [Next]_vars =>
        [file' # file /\ file'.kind = "config" =>
         /\ Coherent(file'.config)
         /\ \E p \in Procs : /\ proc[p].stage = "write" /\ proc'[p].stage # "write"
                            /\ file'.config \in Effect(proc[p].req, proc[p].base.config)]_vars
  <2> SUFFICES ASSUME Inv, Next, file' # file, file'.kind = "config"
               PROVE  \E p \in Procs : Write(p)
      BY WrittenWhole
  <2>1. ASSUME NEW p \in Procs, NEW r \in Requests, Start(p, r) PROVE FALSE
      BY <2>1 DEF Start
  <2>2. ASSUME NEW p \in Procs, Kill(p) PROVE FALSE
      BY <2>2 DEF Kill
  <2>3. ASSUME NEW p \in Procs, Step(p), ~Write(p) PROVE FALSE
    <3>1. CASE Apply(p) \/ WriteFails(p) \/ Remove(p)
        BY <3>1, Kinds DEF Apply, WriteFails, Remove
    <3>2. CASE \/ Confirm(p) \/ ApplyFails(p) \/ Stat(p) \/ ReadForBackup(p) \/ Probe(p)
               \/ CreateBackup(p) \/ CopyToBackup(p) \/ BackupFails(p)
        BY <3>2 DEF Confirm, ApplyFails, Stat, ReadForBackup, Probe, CreateBackup,
           CopyToBackup, BackupFails
    <3> QED
        BY <2>3, <3>1, <3>2 DEF Step
  <2> QED
      BY <2>1, <2>2, <2>3 DEF Next
<1> QED
    BY <1>1, StoreInvariant, PTL DEF Spec, NeverMixed

-----------------------------------------------------------------------------
(* Only a process in progress takes a step or is killed. *)
LEMMA StepsInProgress ==
    ASSUME NEW p \in Procs, Step(p) \/ Kill(p)
    PROVE  InProgress(p)
BY DEF Step, Kill, Confirm, Apply, ApplyFails, Write, WriteFails, Stat, ReadForBackup, Probe,
       CreateBackup, CopyToBackup, BackupFails, Remove, InProgress, Working

(* While a command is alone, the others do no more than start. *)
LEMMA AloneSteps ==
    ASSUME Inv, Next, NEW p \in Procs, InProgress(p), proc[p].alone
    PROVE  \/ Step(p) \/ Kill(p)
           \/ proc'[p].stage = proc[p].stage /\ UNCHANGED <<file, backups>>
<1>1. \A q \in Procs : q # p => ~InProgress(q)
    BY Here DEF Undisturbed
<1>2. ASSUME NEW q \in Procs, Step(q) \/ Kill(q) PROVE q = p
    BY <1>1, <1>2, StepsInProgress
<1>3. ASSUME NEW q \in Procs, NEW r \in Requests, Start(q, r)
      PROVE  proc'[p].stage = proc[p].stage /\ UNCHANGED <<file, backups>>
  <2>1. q # p
      BY <1>3 DEF Start, InProgress, Working
  <2> QED
      BY <1>3, <2>1, Here DEF Start, Jobs
<1> QED
    BY <1>2, <1>3 DEF Next

(* A step to another stage. *)
LEMMA GotoStage ==
    ASSUME Inv, NEW p \in Procs, NEW s, Goto(p, s)
    PROVE  proc'[p].stage = s
BY Here DEF Goto, Jobs

(* A command that is alone and ends well has changed what it was asked to; *)
(* one that fails before it opens the file has left it.                    *)
LEMMA ExactStep ==
    ASSUME Inv, NEW p \in Procs, InProgress(p), proc[p].alone, Step(p)
    PROVE  LET q == proc[p] IN
           /\ proc'[p].stage = "ok" /\ q.req.op # "reset"
               => file' = Content("config",
                             CHOOSE d \in Effect(q.req, q.base.config) : TRUE)
           /\ proc'[p].stage = "ok" /\ q.req.op = "reset"
               => file' = Absent /\ q.base \in {Absent} \cup Kept'
           /\ proc'[p].stage = "failed" /\ ~q.opened /\ q.stage # "remove"
               => file' = q.base
<1> DEFINE r == proc[p]
<1>1. /\ r \in Jobs /\ Follows(r) /\ Held(r, file, backups) /\ file \in Contents
      /\ r.raw \in Contents /\ r.req \in Requests /\ r.base.config \in Configs
      /\ backups \in [1..MaxBackups -> Contents] /\ (r.stage = "write" => p \in linked)
    BY Here DEF Undisturbed, Jobs, Contents
<1>2. CASE Confirm(p)
  <2>1. proc'[p].stage # "ok" /\ file' = file /\ r.stage = "confirm"
      BY <1>2, GotoStage DEF Confirm
  <2> QED
      BY <1>1, <2>1 DEF Held
<1>3. CASE Apply(p) \/ ApplyFails(p)
  <2>1. r.stage = "apply" /\ (proc'[p].stage # "failed" \/ file' = file)
      BY <1>3, <1>1, Here DEF Apply, ApplyFails, Jobs
  <2>2. proc'[p].stage # "ok"
      BY <1>3, <1>1, Here, GotoStage DEF Apply, ApplyFails, Jobs
  <2> QED
      BY <1>1, <2>1, <2>2 DEF Held
<1>4. CASE Write(p)
  <2>1. r.stage = "write" /\ r.opened /\ r.req.op \in Changing /\ file = Empty
      BY <1>1, <1>4 DEF Write, Follows, Held
  <2>2. file' = r.raw
      BY <1>1, <1>4, <2>1, Overwriting, Kinds DEF Write
  <2>3. PICK d \in Writable(r.req, r.base.config) : r.raw = Content("config", d)
      BY <1>1, <2>1 DEF Follows
  <2>4. d \in Effect(r.req, r.base.config)
      BY <2>3 DEF Writable
  <2>5. (CHOOSE e \in Effect(r.req, r.base.config) : TRUE) = d
      BY <2>1, <2>4, EffectSingle
  <2>6. r.req.op # "reset"
      BY <2>1 DEF Changing
  <2> QED
      BY <2>1, <2>2, <2>3, <2>5, <2>6
<1>5. CASE WriteFails(p)
  <2>1. r.opened /\ proc'[p].stage = "failed"
      BY <1>1, <1>5, GotoStage DEF WriteFails, Follows
  <2> QED
      BY <2>1
<1>6. CASE Stat(p)
  <2>1. r.stage = "stat" /\ file' = file /\ proc'[p].stage # "failed"
        /\ (proc'[p].stage = "ok" => file = Absent)
      BY <1>6, GotoStage DEF Stat
  <2>2. r.req.op = "reset" /\ file = r.base
      BY <1>1, <2>1 DEF Follows, Held, Resetting
  <2> QED
      BY <2>1, <2>2
<1>7. CASE ReadForBackup(p)
  <2>1. r.stage = "read" /\ file' = file
      BY <1>7 DEF ReadForBackup
  <2>2. proc'[p].stage # "ok"
      BY <1>1, <1>7, Here, GotoStage DEF ReadForBackup, Jobs
  <2> QED
      BY <1>1, <2>1, <2>2 DEF Held, Resetting
<1>8. CASE Probe(p)
  <2>1. proc'[p].stage \in {"probe", "create"}
    <3>1. CASE Goto(p, "create")
        BY <3>1, GotoStage
    <3>2. CASE proc' = [proc EXCEPT ![p].next = @ + 1]
        BY <1>1, <1>8, <3>2, Here DEF Probe, Jobs
    <3> QED
        BY <1>8, <3>1, <3>2 DEF Probe
  <2> QED
      BY <2>1
<1>9. CASE CreateBackup(p) \/ CopyToBackup(p)
  <2>1. proc'[p].stage \in {"copy", "remove"}
      BY <1>9, GotoStage DEF CreateBackup, CopyToBackup
  <2> QED
      BY <2>1
<1>10. CASE BackupFails(p)
  <2>1. r.stage \in {"stat", "read", "create", "copy"} /\ file' = file /\ proc'[p].stage = "failed"
      BY <1>10, GotoStage DEF BackupFails
  <2> QED
      BY <1>1, <2>1 DEF Held, Resetting
<1>11. CASE Remove(p)
  <2>1. r.stage = "remove" /\ backups' = backups /\ (proc'[p].stage = "ok" => file' = Absent)
      BY <1>11, GotoStage DEF Remove
  <2>2. r.req.op = "reset" /\ r.next \in 1..MaxBackups /\ backups[r.next] = r.base
      BY <1>1, <2>1, Names DEF Follows, Held, Resetting, Jobs
  <2>3. r.base \in Kept'
      BY <2>1, <2>2 DEF Kept
  <2> QED
      BY <2>1, <2>2, <2>3
<1> QED
    BY <1>2, <1>3, <1>4, <1>5, <1>6, <1>7, <1>8, <1>9, <1>10, <1>11 DEF Step

(* A command that ran alone and reports success changed what it was asked  *)
(* to and nothing else; one that fails before it opens the file leaves it. *)
THEOREM SuccessExact == Spec => SuccessIsExact
<1>1. Inv /\ [Next]_vars =>
        [\A p \in Procs :
         LET q == proc[p] IN
         InProgress(p) /\ q.alone =>
            /\ proc'[p].stage = "ok" /\ q.req.op # "reset"
               => file' = Content("config",
                             CHOOSE d \in Effect(q.req, q.base.config) : TRUE)
            /\ proc'[p].stage = "ok" /\ q.req.op = "reset"
               => file' = Absent /\ q.base \in {Absent} \cup Kept'
            /\ proc'[p].stage = "failed" /\ ~q.opened /\ q.stage # "remove"
               => file' = q.base]_vars
  <2> SUFFICES ASSUME Inv, Next, NEW p \in Procs, InProgress(p), proc[p].alone
               PROVE  \/ Step(p)
                      \/ proc'[p].stage \notin {"ok", "failed"}
      BY ExactStep
  <2>1. CASE Kill(p)
      BY <2>1, GotoStage DEF Kill
  <2>2. CASE proc'[p].stage = proc[p].stage
      BY <2>2 DEF InProgress, Working
  <2> QED
      BY <2>1, <2>2, AloneSteps
<1> QED
    BY <1>1, StoreInvariant, PTL DEF Spec, SuccessIsExact

-----------------------------------------------------------------------------
(* In a reset that runs alone the content it found is in the file or in a  *)
(* backup, and earlier backups stay.                                       *)
LEMMA ResetStep ==
    ASSUME Inv, NEW p \in Procs, InProgress(p), proc[p].alone, proc[p].req.op = "reset",
           \/ Step(p) \/ Kill(p)
           \/ proc'[p].stage = proc[p].stage /\ UNCHANGED <<file, backups>>
    PROVE  /\ proc[p].base \in {file'} \cup Kept'
           /\ \A i \in 1..MaxBackups :
                 backups[i] # Absent /\ ~(proc[p].stage = "copy" /\ i = proc[p].next)
                 => backups'[i] = backups[i]
<1> DEFINE r == proc[p]
<1>1. /\ r \in Jobs /\ Follows(r) /\ Held(r, file, backups)
      /\ backups \in [1..MaxBackups -> Contents]
    BY Here DEF Undisturbed
<1>2. r.stage \in {"confirm"} \cup Resetting
    BY <1>1 DEF InProgress, Working, Follows, Changing, Resetting
<1>3. file = r.base
    BY <1>1, <1>2 DEF Held
<1>4. CASE Remove(p)
  <2>1. backups' = backups /\ r.next \in 1..MaxBackups /\ backups[r.next] = r.base
      BY <1>1, <1>4, Names DEF Remove, Follows, Held, Jobs
  <2> QED
      BY <2>1 DEF Kept
<1>5. CASE file' = file /\ backups' = backups
    BY <1>3, <1>5
<1>6. CASE CreateBackup(p)
  <2>1. /\ file' = file /\ backups' = [backups EXCEPT ![r.next] = Empty]
        /\ backups[r.next] = Absent
      BY <1>1, <1>6 DEF CreateBackup, Held
  <2> QED
      BY <1>1, <1>3, <2>1
<1>7. CASE CopyToBackup(p)
  <2>1. /\ file' = file /\ r.stage = "copy"
        /\ \E c : backups' = [backups EXCEPT ![r.next] = c]
      BY <1>7 DEF CopyToBackup
  <2> QED
      BY <1>1, <1>3, <2>1
<1>8. CASE BackupFails(p)
  <2>1. /\ file' = file
        /\ \/ backups' = backups
           \/ r.stage = "copy" /\ backups' = [backups EXCEPT ![r.next] = Garbled]
      BY <1>8 DEF BackupFails
  <2> QED
      BY <1>1, <1>3, <2>1
<1>9. CASE Confirm(p) \/ Stat(p) \/ ReadForBackup(p) \/ Probe(p) \/ Kill(p)
    BY <1>5, <1>9 DEF Confirm, Stat, ReadForBackup, Probe, Kill
<1>10. ~(Apply(p) \/ ApplyFails(p) \/ Write(p) \/ WriteFails(p))
    BY <1>2 DEF Apply, ApplyFails, Write, WriteFails, Resetting
<1> QED
    BY <1>4, <1>5, <1>6, <1>7, <1>8, <1>9, <1>10 DEF Step

(* A config reset that runs alone never holds the only copy: wherever it   *)
(* fails or is killed, the content it found is in the file or whole in a   *)
(* backup, and every earlier backup is as it was.                          *)
THEOREM ResetKeeps == Spec => ResetLosesNothing
<1>1. Inv /\ [Next]_vars =>
        [\A p \in Procs :
         InProgress(p) /\ proc[p].alone /\ proc[p].req.op = "reset" =>
            /\ proc[p].base \in {file'} \cup Kept'
            /\ \A i \in 1..MaxBackups :
                  backups[i] # Absent /\ ~(proc[p].stage = "copy" /\ i = proc[p].next)
                  => backups'[i] = backups[i]]_vars
    BY AloneSteps, ResetStep
<1> QED
    BY <1>1, StoreInvariant, PTL DEF Spec, ResetLosesNothing
=============================================================================
