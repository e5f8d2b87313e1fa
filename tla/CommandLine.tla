------------------------------ MODULE CommandLine ------------------------------
(***************************************************************************)
(* How internal/cli reads a command line, finds the command that it names, *)
(* and completes it: the parsers, the help routes and the completion       *)
(* resolver, as functions of the line and the plugin bundles.  Release     *)
(* builds only: a development build also takes --bundled, --offline,       *)
(* --fixture and plugin lint.                                              *)
(*                                                                         *)
(* A token is [dash, name, value]: its leading hyphens, the text up to the *)
(* first "=" and the text after it ("" without one).  A bundle is the      *)
(* sequence of its commands in file order.  A command is [path, region,    *)
(* params, download, response, waiters, dangerous]; "{}" in a path is a    *)
(* placeholder, and region is set when the last one is {region_id} and the *)
(* operation can take it from the profile.  A parameter is [flag, allowed, *)
(* with]: the values it may have ({} for any), and the flags whose         *)
(* presence makes it required ("" for always).                             *)
(***************************************************************************)
EXTENDS Naturals, Sequences, FiniteSets, SequencesExt

Token(dash, name, value) == [dash |-> dash, name |-> name, value |-> value]
Word(name)   == Token("", name, "")
Long(name)   == Token("--", name, "")
Short(name)  == Token("-", name, "")
Words(names) == { Word(n) : n \in names }
Bare(token)  == [token EXCEPT !.value = ""]

\* The i-th argument is one of these words.
Is(args, i, names) == Len(args) >= i /\ args[i] \in Words(names)
From(args, i) == SubSeq(args, i, Len(args))

Option(long, short, takes) == [long |-> long, short |-> short, takes |-> takes]

\* globalOptionsHelp
Globals ==
    { Option("output", "o", TRUE), Option("cols", "c", TRUE), Option("no-header", "H", FALSE),
      Option("filter", "f", TRUE), Option("sort", "s", TRUE), Option("lang", "l", TRUE),
      Option("yes", "y", FALSE), Option("wait", "w", TRUE), Option("table", "t", TRUE),
      Option("timeout", "T", TRUE), Option("config", "C", TRUE), Option("profile", "P", TRUE),
      Option("debug", "d", FALSE), Option("version", "v", FALSE), Option("help", "h", FALSE) }

OptionNames(g) ==
    {Long(g.long), Short(g.short)} \cup (IF g.long = "lang" THEN {Long("language")} ELSE {})

GlobalNamed(token) == { g \in Globals : token \in OptionNames(g) }
GlobalOf(token) == CHOOSE g \in GlobalNamed(token) : TRUE

CoreCommands == {"completion", "config", "doctor", "help", "plugin", "plugins",
                 "update", "upgrade", "version"}
Shells  == {"bash", "fish", "powershell", "zsh"}
Sources == {"auto", "gitee", "github"}
Channels == {"alpha", "beta", "stable"}
PluginSubcommands == {"install", "list", "remove", "reinstall", "search", "update", "upgrade"}
ConfigSubcommands == {"explain", "path", "show", "set", "unset", "profile", "profiles", "reset"}
ProfileSubcommands == {"list", "use", "set", "unset", "set-secret", "reset"}
SecretKeys == {"ak", "sk"}
SettingKeys == {"profile", "language", "region", "endpoint", "ak", "sk", "warn"}

(* An outcome is "runs", "help", "confirm" (the command asks first), or the  *)
(* reason it was refused for.                                                *)

\* Refused for what it names, as against for what it lacks or where it ran.
RefusedNames == {"unknown option", "unknown command", "unsupported value"}

\* commandBoundaryError
Boundary(args) == IF Last(args).dash = "" THEN "unknown command" ELSE "unknown option"

\* validatePositionalArguments
Positionals(values, minimum, maximum) ==
    IF \E i \in DOMAIN values : values[i].dash # "" THEN "unknown option"
    ELSE IF Len(values) < minimum THEN "incomplete"
    ELSE IF Len(values) > maximum THEN "unexpected argument" ELSE "runs"

\* The checks that follow one that refuses nothing.
AndThen(outcome, next) == IF outcome = "runs" THEN next ELSE outcome

Shown(outcome) == AndThen(outcome, "help")
-----------------------------------------------------------------------------
(* Global options.                                                         *)

InlineGlobals ==
    { Long(g.long) : g \in {h \in Globals : h.takes} } \cup {Long("language")}

\* parseGlobalOptions takes global options out of the line, wherever they are.
TakeGlobal(state, token) ==
    LET name == IF Bare(token) \in InlineGlobals THEN Bare(token) ELSE token
        inline == name # token
        set(key, value) == [state EXCEPT !.opts = [k \in DOMAIN @ \cup {key} |->
                                                      IF k = key THEN value ELSE @[k]],
                                         !.wants = ""]
    IN  IF state.wants # "" THEN set(state.wants, token)
        ELSE IF GlobalNamed(name) = {} THEN [state EXCEPT !.rest = Append(@, token)]
        ELSE LET g == GlobalOf(name)
             IN  IF ~g.takes THEN set(g.long, token)
                 ELSE IF inline THEN set(g.long, Word(token.value))
                 ELSE [state EXCEPT !.wants = g.long]

NoGlobals == [opts |-> [k \in {} |-> Word("")], rest |-> <<>>, wants |-> ""]

\* The refusals of parseGlobalOptions and of the values that Run checks first.
GlobalsOutcome(split) ==
    LET bad(key, words) == key \in DOMAIN split.opts /\ split.opts[key] \notin Words(words)
    IN  IF split.wants # "" THEN "incomplete"
        ELSE IF split.rest # <<>> /\ Head(split.rest).dash # "" THEN "unknown option"
        ELSE IF \/ bad("output", {"table", "json", "raw"})
                \/ bad("table", {"bordered", "compact", "plain"})
                \/ bad("timeout", {"30"})
        THEN "unsupported value" ELSE "runs"

ParseGlobals(line) ==
    LET taken[n \in 0 .. Len(line)] ==
            IF n = 0 THEN NoGlobals ELSE TakeGlobal(taken[n - 1], line[n])
    IN  taken[Len(line)]

OutputKeys == {"output", "cols", "no-header", "filter", "sort", "table"}

GlobalAllowed(args, key) ==
    \/ key \in {"help", "lang", "config", "profile"}
    \/ key = "version" /\ args = <<>>
    \/ /\ key # "version" /\ args # <<>>
       /\ \/ ~Is(args, 1, CoreCommands)
          \/ Is(args, 1, {"doctor"}) /\ Is(args, 2, {"local"}) /\ key \in OutputKeys
          \/ Is(args, 1, {"doctor"}) /\ Is(args, 2, {"network"}) /\ key \in OutputKeys \cup {"timeout"}
          \/ Is(args, 1, {"plugin", "plugins"}) /\ Is(args, 2, {"list", "search"}) /\ key \in OutputKeys
          \/ Is(args, 1, {"plugin", "plugins"}) /\ Is(args, 2, {"remove"}) /\ key = "yes"
          \/ Is(args, 1, {"config"}) /\ Is(args, 2, {"explain"}) /\ key \in OutputKeys
          \/ /\ Is(args, 1, {"config"}) /\ key = "yes"
             /\ \/ Is(args, 2, {"reset"})
                \/ Is(args, 2, {"profile", "profiles"}) /\ Is(args, 3, {"reset"})

\* validateGlobalOptionScope
Scope(args, opts) ==
    IF /\ Is(args, 1, CoreCommands \ {"help"})
       /\ "output" \in DOMAIN opts /\ opts["output"] = Word("raw")
    THEN "unsupported value"
    ELSE IF \E key \in DOMAIN opts : ~GlobalAllowed(args, key) THEN "unknown option" ELSE "runs"
-----------------------------------------------------------------------------
(* Core commands.                                                          *)

\* parseCommandTokens over flags and options that take a value.
TakeOption(flags, valued, state, token) ==
    LET name == Bare(token).name
    IN  IF state.outcome # "runs" THEN state
        ELSE IF state.wants # ""
        THEN [state EXCEPT !.wants = "", !.options = @ \cup {<<state.wants, token>>}]
        ELSE IF token.dash = "" THEN [state EXCEPT !.positionals = Append(@, token)]
        ELSE IF token = Long(name) /\ name \in flags THEN [state EXCEPT !.present = @ \cup {name}]
        ELSE IF token.dash = "--" /\ name \in valued
        THEN IF token.value = "" THEN [state EXCEPT !.wants = name]
             ELSE [state EXCEPT !.options = @ \cup {<<name, Word(token.value)>>}]
        ELSE [state EXCEPT !.outcome = "unknown option"]

CommandTokens(args, flags, valued) ==
    LET nothing == [positionals |-> <<>>, present |-> {}, options |-> {},
                    wants |-> "", outcome |-> "runs"]
        taken[n \in 0 .. Len(args)] ==
            IF n = 0 THEN nothing ELSE TakeOption(flags, valued, taken[n - 1], args[n])
        parsed == taken[Len(args)]
    IN  IF parsed.outcome = "runs" /\ parsed.wants # ""
        THEN [parsed EXCEPT !.outcome = "incomplete"] ELSE parsed

\* A source or channel that the command does not have.  A repeated option
\* keeps its last value in the code; each of them is checked here.
BadValue(parsed, channels) ==
    \E o \in parsed.options : o[2] \notin Words(IF o[1] = "source" THEN Sources ELSE channels)

\* The parsers of plugin_manager.go, and what they require.
PluginOutcome(args) ==
    LET sub == Head(args)
        has(names) == sub \in Words(names)
        flags == IF has({"list"}) THEN {"updates", "available"}
                 ELSE IF has({"search"}) THEN {} ELSE {"all"}
        valued == IF has({"remove"}) THEN {} ELSE {"source", "channel"}
        channels == IF has({"list", "search"}) THEN Channels \cup {"all"} ELSE Channels
        parsed == CommandTokens(Tail(args), flags, valued)
        count == Len(parsed.positionals)
        all == "all" \in parsed.present
    IN  IF ~has(PluginSubcommands) THEN Boundary(args)
        ELSE AndThen(parsed.outcome,
             IF \/ count > 1 /\ has({"search", "update", "upgrade"})
                \/ count > 0 /\ has({"list"})
             THEN "unexpected argument"
             ELSE IF BadValue(parsed, channels) THEN "unsupported value"
             ELSE IF \/ all /\ count > 0
                     \/ {"updates", "available"} \subseteq parsed.present
                     \/ /\ has({"list"}) /\ <<"channel", Word("all")>> \in parsed.options
                        /\ "available" \notin parsed.present
             THEN "conflict"
             ELSE IF count = 0 /\ ~all /\ ~has({"list"}) THEN "incomplete" ELSE "runs")

\* parseUpgradeOptions and parseDoctorNetworkOptions
Sourced(args, flags, valued) ==
    LET parsed == CommandTokens(args, flags, valued)
    IN  AndThen(parsed.outcome,
            IF parsed.positionals # <<>> THEN "unexpected argument"
            ELSE IF BadValue(parsed, Channels) THEN "unsupported value" ELSE "runs")

Arity ==
    [path |-> <<0, 0>>, show |-> <<0, 0>>, explain |-> <<0, 1>>, set |-> <<2, 2>>,
     unset |-> <<1, 1>>, reset |-> <<0, 0>>]
ProfileArity ==
    [list |-> <<0, 0>>, use |-> <<1, 1>>, set |-> <<2, 3>>, unset |-> <<2, 2>>, reset |-> <<1, 1>>]

\* runConfigProfile
ProfileOutcome(args) ==
    LET sub == Head(args)
        rest == Tail(args)
        parsed == CommandTokens(rest, {"from-stdin"}, {})
    IN  IF sub = Word("set-secret")
        THEN AndThen(parsed.outcome,
             AndThen(Positionals(parsed.positionals, 2, 2),
                 IF "from-stdin" \notin parsed.present THEN "incomplete"
                 ELSE IF parsed.positionals[2] \notin Words(SecretKeys)
                 THEN "unsupported value" ELSE "runs"))
        ELSE IF sub \in Words(ProfileSubcommands)
        THEN AndThen(Positionals(rest, ProfileArity[sub.name][1], ProfileArity[sub.name][2]),
                 IF sub = Word("set") /\ Len(rest) = 2 /\ rest[2].value = ""
                 THEN "incomplete" ELSE "runs")
        ELSE Boundary(<<Word("config"), Word("profile")>> \o args)

\* The keys that set and unset take for the file itself, and for a profile.
FileKeys == {"active_profile", "ak", "sk", "warn_config_credentials", "warn_deprecated"}
ProfileKeys ==
    (FileKeys \ {"active_profile"}) \cup {"endpoint_url", "language", "region", "timeout_seconds"}

\* profileSetPair takes "key=value" too.
UnknownKey(args, named) ==
    LET profile == Is(args, 2, {"profile", "profiles"})
        key == args[IF profile THEN 5 ELSE 3]
    IN  /\ Is(args, IF profile THEN 3 ELSE 2, {"set", "unset"})
        /\ (IF profile /\ Is(args, 3, {"set"}) /\ Len(args) = 5 THEN Bare(key) ELSE key)
             \notin Words(IF profile \/ named THEN ProfileKeys ELSE FileKeys)

\* runConfigCommand, its first word included; named is set when the line has
\* --profile, torn when the file is no configuration.  What a write refuses of
\* the name of a profile or of a value is left out.
ConfigOutcome(args, named, yes, fails, torn) ==
    LET sub == args[2]
        rest == From(args, 3)
        profile == sub \in Words({"profile", "profiles"})
        outcome == IF profile THEN ProfileOutcome(rest)
                   ELSE IF sub.dash = "" /\ sub.name \in DOMAIN Arity
                   THEN Positionals(rest, Arity[sub.name][1], Arity[sub.name][2])
                   ELSE Boundary(args)
        resets == sub = Word("reset") \/ (profile /\ Head(rest) = Word("reset"))
    IN  IF Len(args) = 1 \/ (profile /\ rest = <<>>) THEN "help"
        ELSE AndThen(outcome,
             IF resets /\ ~yes THEN "confirm"
             ELSE IF IF sub = Word("explain") THEN fails
                     ELSE \/ torn /\ sub \notin Words({"path", "reset"})
                          \/ fails /\ named /\ sub \in Words({"show", "unset"})
             THEN "config"
             ELSE IF \/ sub = Word("explain") /\ rest # <<>> /\ Head(rest) \notin Words(SettingKeys)
                     \/ UnknownKey(args, named)
             THEN "unsupported value" ELSE "runs")
-----------------------------------------------------------------------------
(* Product commands.                                                       *)

Fits(segment, token) == segment = "{}" \/ token = Word(segment)

\* matchPathPrefix and matchPath
FitsPrefix(path, args) ==
    Len(path) <= Len(args) /\ \A i \in DOMAIN path : Fits(path[i], args[i])
FitsPath(path, args) == Len(path) = Len(args) /\ FitsPrefix(path, args)

\* matchMissingPathArgs
MissesArguments(path, args) ==
    /\ Len(args) < Len(path)
    /\ \A i \in DOMAIN path : IF i <= Len(args) THEN Fits(path[i], args[i]) ELSE path[i] = "{}"

NoMatch == [path |-> <<>>]
FirstOf(seq) == IF seq = <<>> THEN NoMatch ELSE Head(seq)

\* All commands in the order of the bundles and of their files.
Commands(bundles) == FlattenSeq(bundles)

\* findPluginCommand: in each bundle a command whose region may come from the
\* profile goes first, then the first whose path starts the line.
FindPluginCommand(bundles, args) ==
    LET short(c) == SubSeq(c.path, 1, Len(c.path) - 1)
        regional(c) == /\ c.region /\ FitsPrefix(short(c), args)
                       /\ Len(args) >= Len(c.path) => args[Len(c.path)].dash = "--"
        leading(c) == FitsPrefix(c.path, args)
        rest(c) == From(args, IF regional(c) THEN Len(c.path) ELSE Len(c.path) + 1)
        found(bundle) == SelectSeq(bundle, regional) \o SelectSeq(bundle, leading)
        command == FirstOf(FlattenSeq([b \in DOMAIN bundles |-> found(bundles[b])]))
    IN  [command |-> command, rest |-> IF command = NoMatch THEN <<>> ELSE rest(command)]

\* parseCommandParameters over one token.
TakeParameter(command, state, token) ==
    LET flag == Bare(token).name
        known == { p \in command.params : p.flag = flag }
        transfer == command.download /\ flag = "output-file"
        take(name, value) ==
            LET allowed == UNION { p.allowed : p \in {q \in command.params : q.flag = name} }
            IN  [state EXCEPT !.values = @ \cup {name}, !.wants = "",
                              !.outcome = IF allowed # {} /\ value \notin Words(allowed)
                                          THEN "unsupported value" ELSE @]
    IN  IF state.outcome # "runs" THEN state
        ELSE IF state.wants # "" THEN take(state.wants, token)
        ELSE IF token.dash = "" THEN [state EXCEPT !.outcome = "unexpected argument"]
        ELSE IF command.download /\ token = Long("overwrite") THEN take("overwrite", token)
        ELSE IF token.dash = "--" /\ (transfer \/ known # {})
        THEN IF token.value = "" THEN [state EXCEPT !.wants = flag]
             ELSE take(flag, Word(token.value))
        ELSE [state EXCEPT !.outcome = "unknown option"]

ParseParameters(command, args) ==
    LET step(state, token) == TakeParameter(command, state, token)
        parsed == FoldLeft(step, [values |-> {}, wants |-> "", outcome |-> "runs"], args)
        missing == \E p \in command.params :
                      p.flag \notin parsed.values /\ p.with \cap (parsed.values \cup {""}) # {}
    IN  IF parsed.outcome = "runs" /\ (parsed.wants # "" \/ missing)
        THEN [parsed EXCEPT !.outcome = "incomplete"] ELSE parsed

\* validateTransportOutput
TransportOutcome(command, values, opts) ==
    LET raw == "output" \in DOMAIN opts /\ opts["output"] = Word("raw")
        destination == "output-file" \in values
    IN  IF "overwrite" \in values /\ ~destination THEN "incomplete"
        ELSE IF raw /\ command.response = "none" THEN "unsupported value"
        ELSE IF command.response = "binary" /\ ~destination /\ ~raw THEN "incomplete"
        ELSE IF \/ /\ destination \/ raw
                   /\ {"cols", "filter", "sort", "no-header", "table", "wait"} \cap DOMAIN opts # {}
                \/ destination /\ "output" \in DOMAIN opts
        THEN "conflict" ELSE "runs"

\* matchPluginCommandForHelp, the prefix check and the group index of runHelp.
HelpCommand(bundles, args) ==
    LET shown(c) == FitsPath(c.path, args)
        misses(c) == MissesArguments(c.path, args)
        found(bundle) == SelectSeq(bundle, shown) \o SelectSeq(bundle, misses)
    IN  FirstOf(FlattenSeq([b \in DOMAIN bundles |-> found(bundles[b])]))

ProductHelp(bundles, broken, args) ==
    LET leading(c) == FitsPrefix(c.path, args)
        longer(c) == /\ Len(args) < Len(c.path)
                     /\ \A i \in DOMAIN args : args[i] = Word(c.path[i])
        prefix == FirstOf(SelectSeq(Commands(bundles), leading))
    IN  IF broken THEN "plugin"
        ELSE IF HelpCommand(bundles, args) # NoMatch THEN "help"
        ELSE IF prefix # NoMatch THEN Shown(Positionals(From(args, Len(prefix.path) + 1), 0, 0))
        ELSE IF FirstOf(SelectSeq(Commands(bundles), longer)) # NoMatch THEN "help" ELSE Boundary(args)

\* runHelp, printCoreHelp and the help of each group.
HelpOutcome(bundles, broken, args) ==
    LET depth == CASE Is(args, 1, {"config"}) /\ Is(args, 2, {"profile", "profiles"})
                          /\ Is(args, 3, ProfileSubcommands)                        -> 3
                   [] Is(args, 1, {"config"}) /\ Is(args, 2, ConfigSubcommands \ {"profile", "profiles"})
                                                                                    -> 2
                   [] Is(args, 1, {"doctor"}) /\ Is(args, 2, {"local", "network"})  -> 2
                   [] Is(args, 1, {"plugin", "plugins"}) /\ Is(args, 2, PluginSubcommands) -> 2
                   [] Is(args, 1, {"completion", "help", "update", "upgrade", "version"})  -> 1
                   [] OTHER -> 0
        overview == \/ Len(args) <= 1 /\ Is(args, 1, {"config", "doctor", "plugin", "plugins"})
                    \/ Len(args) = 2 /\ Is(args, 1, {"config"}) /\ Is(args, 2, {"profile", "profiles"})
    IN  IF args = <<>> \/ overview THEN "help"
        ELSE IF depth > 0 THEN Shown(Positionals(From(args, depth + 1), 0, 0))
        ELSE ProductHelp(bundles, broken, args)

\* The checks of runPluginCommand once the command is found.
RequestOutcome(command, parsed, opts) ==
    AndThen(parsed.outcome,
    AndThen(TransportOutcome(command, parsed.values, opts),
        IF "wait" \in DOMAIN opts /\ opts["wait"] \notin Words(command.waiters)
        THEN "unsupported value"
        ELSE IF command.dangerous /\ "yes" \notin DOMAIN opts THEN "confirm" ELSE "runs"))

\* runPluginCommand up to the request.
ProductOutcome(bundles, broken, args, opts) ==
    LET found == FindPluginCommand(bundles, args)
        misses(c) == MissesArguments(c.path, args)
    IN  IF broken THEN "plugin"
        ELSE IF found.command # NoMatch
        THEN RequestOutcome(found.command, ParseParameters(found.command, found.rest), opts)
        ELSE IF FirstOf(SelectSeq(Commands(bundles), misses)) # NoMatch THEN "incomplete"
        ELSE HelpOutcome(bundles, broken, args)
-----------------------------------------------------------------------------
(* Run.                                                                    *)

IsDoctorLocal(args) == Is(args, 1, {"doctor"}) /\ Is(args, 2, {"local"})
IsDoctorLocalHelp(args) == Is(args, 1, {"help"}) /\ IsDoctorLocal(Tail(args))

\* The lines for which Run reads the configuration file before anything else.
ReadsConfig(split) ==
    /\ AndThen(GlobalsOutcome(split), Scope(split.rest, split.opts)) = "runs"
    /\ "version" \notin DOMAIN split.opts
    /\ ~IsDoctorLocal(split.rest) /\ ~IsDoctorLocalHelp(split.rest)

\* mutant: every command resolves the configuration strictly
StrictForAll(args) == TRUE

\* The commands that stop when the configuration does not resolve.
Strict(args) == ~Is(args, 1, {"config"})

\* The outcome of a line, split by ParseGlobals, with these bundles.  broken: an
\* installed plugin does not load.  fails: the configuration does not resolve;
\* torn: nor load.
OutcomeOfSplit(split, bundles, broken, fails, torn) ==
    LET args == split.rest
        opts == split.opts
        yes == "yes" \in DOMAIN opts
        helps == "help" \in DOMAIN opts
    IN  AndThen(GlobalsOutcome(split), AndThen(Scope(args, opts),
        IF "version" \in DOMAIN opts THEN "runs"
        ELSE IF IsDoctorLocalHelp(args) THEN HelpOutcome(bundles, broken, Tail(args))
        ELSE IF IsDoctorLocal(args)
        THEN IF helps THEN HelpOutcome(bundles, broken, args) ELSE Positionals(From(args, 3), 0, 0)
        ELSE IF fails /\ Strict(args) THEN "config"
        ELSE IF helps THEN HelpOutcome(bundles, broken, args)
        ELSE IF args = <<>> THEN "incomplete"
        ELSE CASE Is(args, 1, {"version"})    -> Positionals(Tail(args), 0, 0)
               [] Is(args, 1, {"help"})       -> HelpOutcome(bundles, broken, Tail(args))
               [] Is(args, 1, {"completion"}) ->
                     AndThen(Positionals(Tail(args), 1, 1),
                         IF ~Is(args, 2, Shells) THEN "unsupported value" ELSE "runs")
               [] Is(args, 1, {"doctor"})     ->
                     IF Len(args) = 1 THEN "help"
                     ELSE IF ~Is(args, 2, {"network"}) THEN Boundary(args)
                     ELSE Sourced(From(args, 3), {}, {"source"})
               [] Is(args, 1, {"config"})     -> ConfigOutcome(args, "profile" \in DOMAIN opts, yes, fails, torn)
               [] Is(args, 1, {"update", "upgrade"}) ->
                     Sourced(Tail(args), {"check"}, {"source", "channel"})
               [] Is(args, 1, {"plugin", "plugins"}) ->
                     IF Len(args) = 1 THEN "help"
                     ELSE AndThen(PluginOutcome(Tail(args)),
                          LET hosted == \E i \in DOMAIN args : args[i] \in {Long("updates"), Long("available")}
                          IN  IF Is(args, 2, {"list"}) /\ broken /\ ~hosted THEN "plugin"
                              ELSE IF Is(args, 2, {"remove"}) /\ ~yes THEN "confirm" ELSE "runs")
               [] OTHER -> ProductOutcome(bundles, broken, args, opts)))

Outcome(line, bundles, broken, fails, torn) ==
    OutcomeOfSplit(ParseGlobals(line), bundles, broken, fails, torn)
=============================================================================
