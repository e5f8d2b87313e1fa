------------------------------ MODULE Invocation ------------------------------
(***************************************************************************)
(* A user at a terminal and one ctyun process after the other: a line is   *)
(* typed with the help of completion and entered; the process reads the    *)
(* configuration, loads the installed plugins one by one and does what the *)
(* line says, or runs the checks of doctor local; where it is refused for  *)
(* the state of the machine, the user enters the command that repairs it   *)
(* and then the first line again.  Other processes replace the             *)
(* configuration and the plugins while it runs.                            *)
(*                                                                         *)
(* What plugin and configuration commands do on disk, step by step, is in  *)
(* PluginStore and ConfigStore; here they change their object at once, or  *)
(* they fail.                                                              *)
(***************************************************************************)
EXTENDS Completion, ConfigResolution

CONSTANTS
    Plugins,     \* the names of the plugins that can be installed
    BundleOf,    \* what each of them holds once it is valid
    Order,       \* Plugins as a sequence, in the order of their directories
    Tokens,      \* what the user types
    Goals,       \* the lines that the user enters
    Files,       \* what the configuration file may hold
    Envs,        \* the environments
    MaxTokens,   \* bound: the longest line that is no goal
    MaxChanges   \* bound: how often other processes change something or a call fails

\* A file that is there and cannot be read: its permissions, or a directory.
Unreadable == [is |-> "unreadable", holds |-> <<>>]

ASSUME InvocationAssumption ==
    /\ ToSet(Order) = Plugins /\ DOMAIN BundleOf = Plugins
    /\ Missing \in Files /\ Envs # {}
    /\ \A f \in Files : f \in {Missing, Torn, Unreadable} \/ (f = Whole(f.holds) /\ IsConfig(f.holds))
    /\ MaxTokens \in Nat /\ MaxChanges \in Nat

VARIABLES
    line,     \* the line that is typed or runs
    goal,     \* the line that the user wants to run, <<>> while it is typed
    run,      \* the running process: [stage, file, todo, loaded, outcome, report]
    file,     \* the configuration file
    plugins,  \* "absent", "valid" or "invalid" for each plugin
    env,      \* the environment
    seen,     \* history: what file and plugins were since the process started
    changes   \* how often something was changed from outside, or failed

vars == <<line, goal, run, file, plugins, env, seen, changes>>

PluginStates == {"absent", "valid", "invalid"}

NoReport == [k \in {} |-> ""]

Idle == [stage |-> "typing", file |-> Missing, todo |-> {}, loaded |-> <<>>,
         outcome |-> "", report |-> NoReport]

\* The state of the machine when a process starts, and every change since.
SeenNow == [files |-> {file'}, plugins |-> [p \in Plugins |-> {plugins'[p]}]]
SeenMore == [files |-> seen.files \cup {file'},
             plugins |-> [p \in Plugins |-> seen.plugins[p] \cup {plugins'[p]}]]

ResetLine      == <<Word("config"), Word("reset"), Long("yes")>>
RemoveLine(p)  == <<Word("plugin"), Word("remove"), Word(p), Long("yes")>>
InstallLine(p) == <<Word("plugin"), Word("install"), Word(p)>>

Holds(sequence) == [i \in DOMAIN sequence |-> BundleOf[sequence[i]]]

Parsed == ParseGlobals(line)
Args == Parsed.rest

\* The profile named on the line; the language has no part in what follows.
ResolutionOf(content) ==
    Input(content, env,
          IF "profile" \in DOMAIN Parsed.opts THEN Parsed.opts["profile"].name ELSE Unset,
          Unset, Unset)

Init ==
    /\ line = <<>> /\ goal = <<>> /\ run = Idle
    /\ file = Missing /\ plugins = [p \in Plugins |-> "valid"]
    /\ env = CHOOSE e \in Envs : TRUE
    /\ seen = [files |-> {Missing}, plugins |-> [p \in Plugins |-> {"valid"}]]
    /\ changes = 0
-----------------------------------------------------------------------------
(* The user.                                                               *)

Bundles == Holds(Order)

\* The outcome with every plugin, or with a broken one, and a configuration.
OutcomeOf(tokens, broken) == Outcome(tokens, Bundles, broken, FALSE, FALSE)

\* A line on which an option still needs a value.
Open(tokens) ==
    /\ tokens # <<>> /\ Last(tokens).dash # ""
    /\ Last(tokens) \in ValueNames(Bundles) \cup {Long("output-file")}

\* The user goes on with a line that names nothing unknown, and gives no option
\* as the value of another one; beyond the bound, towards a goal.
Type(token) ==
    /\ run.stage = "typing"
    /\ Len(line) < MaxTokens \/ \E g \in Goals : IsPrefix(Append(line, token), g)
    /\ OutcomeOf(line, FALSE) \in RefusedNames => Args = <<>>
    /\ Open(line) => token.dash = ""
    /\ line' = Append(line, token)
    /\ UNCHANGED <<goal, run, file, plugins, env, seen, changes>>

Start == run' = [Idle EXCEPT !.stage = "started"]

\* The machine is in any state when the line is entered.
Enter ==
    /\ run.stage = "typing" /\ line \in Goals
    /\ goal' = line
    /\ file' \in Files
    /\ env' \in Envs
    /\ plugins' \in [Plugins -> PluginStates]
    /\ seen' = SeenNow
    /\ Start
    /\ UNCHANGED <<line, changes>>

\* What a user does about an outcome: the message names the cause, and doctor
\* local the plugin.
Repairs(outcome) ==
    CASE outcome = "config" -> {ResetLine}
      [] outcome = "plugin" ->
            { RemoveLine(p) : p \in {q \in Plugins : plugins[q] = "invalid"} }
      [] outcome \in {"unknown command", "unknown option"} ->
            { InstallLine(p) : p \in {q \in Plugins : plugins[q] = "absent"} }
      [] OTHER -> {}

\* After a failure the repair, or the same line where there is nothing to repair
\* any more; after a repair, failed or not, the line that was wanted.  No command
\* of ctyun mends a file that it cannot read: the user stops at that message.
NextLines ==
    IF Repairs(run.outcome) # {} THEN Repairs(run.outcome)
    ELSE IF line # goal \/ run.outcome \in {"plugin", "config", "unknown command", "unknown option"}
    THEN {goal} ELSE {}

TryAgain ==
    /\ run.stage = "done"
    /\ line' \in NextLines
    /\ Start
    /\ UNCHANGED <<goal, file, plugins, env, changes>>
    /\ seen' = SeenNow
-----------------------------------------------------------------------------
(* One process.                                                            *)

Diagnoses == IsDoctorLocal(Args) /\ "help" \notin DOMAIN Parsed.opts

Ends(outcome) == [run EXCEPT !.stage = "done", !.outcome = outcome]

\* A call of the operating system or to a server fails.
Fault == changes < MaxChanges /\ changes' = changes + 1

Fails(content) == ResolveFails(ResolutionOf(content))

\* Run up to the dispatch: what the line itself is refused for, the single read
\* of the file, and whether the command needs the plugins next.  A read that
\* fails ends every command, config reset and the help of all included.
ReadConfig ==
    /\ run.stage = "started" /\ ~Diagnoses
    /\ LET outcome == Outcome(line, <<>>, FALSE, Fails(file), LoadFails(file))
           loads == Outcome(line, <<>>, TRUE, Fails(file), LoadFails(file)) = "plugin"
       IN  run' = IF file = Unreadable /\ ReadsConfig(Parsed)
                  THEN [Ends("unreadable") EXCEPT !.file = file]
                  ELSE IF loads THEN [run EXCEPT !.stage = "lists", !.file = file]
                  ELSE [Ends(outcome) EXCEPT !.file = file,
                            !.stage = IF outcome = "runs" THEN "acts" ELSE "done"]
    /\ UNCHANGED <<line, goal, file, plugins, env, seen, changes>>

Installed == { p \in Plugins : plugins[p] # "absent" }

\* The listed plugins are loaded in the order of their directories.
NextListed == Order[Min({ i \in DOMAIN Order : Order[i] \in run.todo })]

\* pluginDirs lists the directories once; where that fails there are none.
ListPlugins ==
    /\ run.stage = "lists"
    /\ \/ run' = [run EXCEPT !.stage = "loads", !.todo = Installed] /\ UNCHANGED changes
       \/ run' = [run EXCEPT !.stage = "loads"] /\ Fault
    /\ UNCHANGED <<line, goal, file, plugins, env, seen>>

\* loadBundles stops at the first bundle that does not load.
LoadPlugin ==
    /\ run.stage = "loads" /\ run.todo # {}
    /\ LET p == NextListed
       IN  run' = IF plugins[p] = "valid"
                  THEN [run EXCEPT !.todo = @ \ {p}, !.loaded = Append(@, p)]
                  ELSE Ends("plugin")
    /\ UNCHANGED <<line, goal, file, plugins, env, seen, changes>>

Dispatch ==
    /\ run.stage = "loads" /\ run.todo = {}
    /\ run' = Ends(Outcome(line, Holds(run.loaded), FALSE, Fails(run.file), LoadFails(run.file)))
    /\ UNCHANGED <<line, goal, file, plugins, env, seen, changes>>

Explains == Is(Args, 1, {"config"}) /\ Is(Args, 2, {"explain"})

Resets == Is(Args, 1, {"config"}) /\ Is(Args, 2, {"reset"})

\* The plugin that a plugin command names.
Named ==
    IF Is(Args, 1, {"plugin", "plugins"}) THEN { p \in Plugins : Is(Args, 3, {p}) } ELSE {}

\* config reset copies the file first; install and reinstall load what is there.
Works ==
    /\ Resets => file # Unreadable
    /\ \A p \in Named :
          /\ Is(Args, 2, {"install"}) => plugins[p] # "invalid"
          /\ Is(Args, 2, {"reinstall"}) => plugins[p] = "valid"

\* The effect of a core command that was not refused.
Act ==
    /\ run.stage = "acts" /\ Works
    /\ file' = IF Resets THEN Missing ELSE file
    /\ plugins' = [p \in Plugins |->
                     IF p \notin Named THEN plugins[p]
                     ELSE IF Is(Args, 2, {"remove"}) THEN "absent"
                     ELSE IF Is(Args, 2, {"install", "reinstall"}) THEN "valid" ELSE plugins[p]]
    /\ run' = [run EXCEPT !.stage = "done",
                          !.report = IF Explains
                                     THEN Inspect(ResolutionOf(run.file)).settings ELSE NoReport]
    /\ seen' = SeenMore
    /\ UNCHANGED <<line, goal, env, changes>>

\* The command fails: it finds what it cannot handle, or a call or a download
\* fails.  A removal may have begun by then.
ActFails ==
    /\ run.stage = "acts"
    /\ IF Works THEN (Resets \/ Named # {}) /\ Fault ELSE UNCHANGED changes
    /\ \/ UNCHANGED plugins
       \/ /\ Is(Args, 2, {"remove"})
          /\ \E p \in Named \cap Installed : plugins' = [plugins EXCEPT ![p] = "invalid"]
    /\ run' = Ends("failed")
    /\ UNCHANGED <<line, goal, file, env>>
    /\ seen' = SeenMore
-----------------------------------------------------------------------------
(* doctor local.                                                           *)

\* The first look at the file: Lstat and its permissions, here always tight.
StatConfig ==
    /\ run.stage = "started" /\ Diagnoses
    /\ LET outcome == Outcome(line, <<>>, FALSE, FALSE, FALSE)
       IN  run' = IF outcome # "runs" THEN Ends(outcome)
                  ELSE IF file = Missing
                  THEN [run EXCEPT !.stage = "inspects", !.outcome = "missing"]
                  ELSE [run EXCEPT !.stage = "reads"]
    /\ UNCHANGED <<line, goal, file, plugins, env, seen, changes>>

\* What is no regular file is found out by the first look already, with the
\* same result.
ReadChecked ==
    /\ run.stage = "reads"
    /\ run' = [run EXCEPT !.stage = "inspects", !.file = file,
                          !.outcome = IF file \in {Missing, Unreadable} THEN "blocked" ELSE "read"]
    /\ UNCHANGED <<line, goal, file, plugins, env, seen, changes>>

\* configFindings, and the plugin directory; plugins stands for the findings
\* about all of them and about the directory, which cannot be read.
CheckConfig ==
    /\ run.stage = "inspects"
    /\ LET config == ConfigFindings(run.outcome, ResolutionOf(run.file), FALSE)
       IN  \/ /\ run' = [run EXCEPT !.stage = "checks", !.todo = Installed,
                                    !.report = [plugins |-> "passed", config |-> config]]
             /\ UNCHANGED changes
          \/ /\ run' = [run EXCEPT !.stage = "checks",
                                    !.report = [plugins |-> "failed", config |-> config]]
             /\ Fault
    /\ UNCHANGED <<line, goal, file, plugins, env, seen>>

\* evaluatePlugins goes on after a bundle that does not load.
CheckPlugin ==
    /\ run.stage = "checks" /\ run.todo # {}
    /\ LET p == NextListed
       IN  run' = [run EXCEPT !.todo = @ \ {p},
                              !.report.plugins = IF plugins[p] = "valid" THEN @ ELSE "failed"]
    /\ UNCHANGED <<line, goal, file, plugins, env, seen, changes>>

Healthy(report) ==
    /\ report.plugins # "failed"
    /\ \A k \in DOMAIN report.config : report.config[k] # "failed"

Report ==
    /\ run.stage = "checks" /\ run.todo = {}
    /\ run' = Ends(IF Healthy(run.report) THEN "runs" ELSE "unhealthy")
    /\ UNCHANGED <<line, goal, file, plugins, env, seen, changes>>
-----------------------------------------------------------------------------
(* Other processes.                                                        *)

Running == run.stage \notin {"typing", "done"}

Change ==
    /\ Running /\ changes < MaxChanges
    /\ changes' = changes + 1
    /\ \/ file' \in Files /\ UNCHANGED plugins
       \/ /\ \E p \in Plugins, s \in PluginStates : plugins' = [plugins EXCEPT ![p] = s]
          /\ UNCHANGED file
    /\ seen' = SeenMore
    /\ UNCHANGED <<line, goal, run, env>>

Process ==
    \/ ReadConfig \/ ListPlugins \/ LoadPlugin \/ Dispatch \/ Act \/ ActFails
    \/ StatConfig \/ ReadChecked \/ CheckConfig \/ CheckPlugin \/ Report

Next == (\E token \in Tokens : Type(token)) \/ Enter \/ TryAgain \/ Process \/ Change

\* HTTPGetBytes sets no deadline: a command that downloads may wait for ever.
Downloading ==
    /\ run.stage = "acts"
    /\ \/ Is(Args, 1, {"update", "upgrade"})
       \/ Is(Args, 1, {"plugin", "plugins"}) /\ ~Is(Args, 2, {"remove"})

\* A process that was started goes on unless it waits for a download, and the
\* user does not give up; nobody has to type or to enter anything.  A running
\* process always has a step, so the first conjunct is weak fairness of
\* ~Downloading /\ Process with its ENABLED spelled out.
Fairness ==
    /\ <>[](Running /\ ~Downloading) => []<><<Process>>_vars
    /\ WF_vars(TryAgain)

Spec == Init /\ [][Next]_vars /\ Fairness
-----------------------------------------------------------------------------
(* Properties.                                                             *)

\* A line that names nothing unknown; an option that waits for its value is one
\* that completion offered.
Known(tokens, bundles, broken) ==
    /\ OutcomeOf(tokens, broken) \notin RefusedNames
    /\ Open(tokens) => Last(tokens) \in Offered(Front(tokens), bundles, TRUE)

\* What completion offers after a line, but for "-o=json".
AllOffered(tokens, bundles) ==
    LET inline == { c \in OfferedInline(tokens, bundles) : c.dash = "--" }
    IN  Offered(tokens, bundles, TRUE) \cup Offered(tokens, bundles, FALSE)
        \cup (IF Open(tokens) THEN {} ELSE inline)

\* Completion never leads astray: with all plugins or with a broken one, no
\* candidate makes Run refuse a known line for an option, a command or a value
\* that it does not know.  Two tables have to agree for it: completionOptions,
\* and globalOptionAllowed with the parsers.  Three lines are left out that the
\* code completes and refuses: any command after --version, "-o=json", and
\* --help together with a command's own option.  Shared options that come before
\* the command are judged once it is there.
OfferedIsKnown ==
    run.stage = "typing" /\ "version" \notin DOMAIN Parsed.opts =>
        \A broken \in BOOLEAN :
            LET bundles == IF broken THEN <<>> ELSE Bundles
                judged(c) ==
                    LET split == ParseGlobals(Append(line, c))
                    IN  /\ split.rest # <<>>
                        /\ "help" \in DOMAIN split.opts => \A t \in ToSet(split.rest) : t.dash = ""
            IN  Known(line, bundles, broken) =>
                    \A c \in AllOffered(line, bundles) :
                        judged(c) => OutcomeOf(Append(line, c), broken) \notin RefusedNames

\* config explain reports, for the file that it read, the credentials, the
\* region and the warning control that a command with that file would use.  A
\* blank warning control in the environment is left out of the last: explain
\* reports it as true, and the commands that warn trim it and go on to the
\* profile (resolution.go:265, config.go:79).
ExplainIsUsed ==
    run.stage = "done" /\ run.outcome = "runs" /\ Explains =>
        LET profile == Inspect(ResolutionOf(run.file)).profile
        IN  /\ \A key \in {"ak", "sk"} :
                  run.report[key].value = UsedCredential(env, profile, key).value
            /\ run.report.region.value = profile.region
            /\ Trimmed(env.warn) = env.warn =>
                  run.report.warn.value = UsedWarning(env, profile)

\* A clean report of doctor local is true of one state of the configuration
\* that there was while it ran: it is readable, resolves and has credentials; each
\* plugin was valid, or not there, at some moment of the run.
HealthIsTrue ==
    run.stage = "done" /\ run.outcome = "runs" /\ Diagnoses =>
        /\ \E content \in seen.files :
              /\ content # Unreadable /\ ~Fails(content)
              /\ ~CredentialsFail(env, Inspect(ResolutionOf(content)).profile)
        /\ \A p \in Plugins : seen.plugins[p] # {"invalid"}

\* Whatever the configuration and the plugins are, whatever other processes do to
\* them and whichever repair fails, the repairs that ctyun offers lead to the line
\* that was wanted: it runs, or it is refused for something that no state of the
\* machine changes, or for a configuration that cannot be read, which no command
\* mends; unless a download never ends.  (A line that names a profile needs one,
\* which no reset brings back.)
RepairsEnd ==
    run.stage = "started" /\ "profile" \notin DOMAIN ParseGlobals(goal).opts
        ~> (run.stage = "done" /\ line = goal /\ NextLines = {}) \/ []Downloading
=============================================================================
