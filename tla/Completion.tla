------------------------------ MODULE Completion ------------------------------
(***************************************************************************)
(* The shell-neutral completion resolver of internal/cli/completion.go:    *)
(* the candidates for the token after a line, or for one that starts with  *)
(* a hyphen or with "--name=".  It has its own view of the line: it drops  *)
(* options by name, and it falls back to no bundles where one is broken.   *)
(***************************************************************************)
EXTENDS CommandLine

Choice(names, takes, values) == [names |-> names, takes |-> takes, values |-> values]

NoValues == {}
Flag(name) == Choice({Long(name)}, FALSE, NoValues)
SourceOption == Choice({Long("source")}, TRUE, Sources)
ChannelOption(more) == Choice({Long("channel")}, TRUE, Channels \cup more)

\* pluginCompletionOptions
PluginOptions(sub) ==
    CASE sub \in {"install", "reinstall", "update", "upgrade"} ->
            {Flag("all"), SourceOption, ChannelOption({})}
      [] sub = "search" -> {SourceOption, ChannelOption({"all"})}
      [] sub = "list"   -> {Flag("available"), Flag("updates"), SourceOption, ChannelOption({"all"})}
      [] sub = "remove" -> {Flag("all")}

AllCommands(bundles) == ToSet(Commands(bundles))

\* completionOptionValueNames: what takes the next token, in any command.
ValueNames(bundles) ==
    UNION { OptionNames(g) : g \in {h \in Globals : h.takes} }
    \cup {Long("source"), Long("channel")}
    \cup { Long(p.flag) : p \in UNION { c.params : c \in AllCommands(bundles) } }

\* completionPathTokens: a name that takes a value also takes the token after it.
PathTokens(tokens, bundles) ==
    LET step(state, token) ==
            IF state.skip THEN [state EXCEPT !.skip = FALSE]
            ELSE IF token.dash = "" THEN [state EXCEPT !.path = Append(@, token)]
            ELSE [state EXCEPT !.skip = token \in ValueNames(bundles)]
    IN  FoldLeft(step, [path |-> <<>>, skip |-> FALSE], tokens).path

\* completionContextFor
Context(tokens, bundles) ==
    LET path == PathTokens(tokens, bundles)
        matches(c) == FitsPath(c.path, path)
    IN  [tokens |-> tokens, bundles |-> bundles, path |-> path,
         command |-> FirstOf(SelectSeq(Commands(bundles), matches))]

\* plugin.OutputFormats
OutputFormats(command) ==
    CASE command.response = "none"   -> {"json", "table"}
      [] command.response = "binary" -> {"raw"}
      [] command.response = "text"   -> {"json", "raw", "table"}

\* productGlobalOptionAllowed
ProductGlobalAllowed(command, key) ==
    command.response = "binary" => key \notin {"cols", "filter", "sort", "no-header", "table", "wait"}

\* globalCompletionOptionValues; column keys are left out.
GlobalValues(key, command) ==
    CASE key = "output" -> IF command = NoMatch THEN {"json", "table"} ELSE OutputFormats(command)
      [] key = "table"  -> {"bordered", "compact", "plain"}
      [] key = "lang"   -> {"en-GB", "en-US", "zh-CN"}
      [] key = "wait"   -> IF command = NoMatch THEN NoValues ELSE command.waiters
      [] OTHER          -> NoValues

\* mutant: completion does not ask where a global option applies
GlobalsEverywhere(context) ==
    { Choice(OptionNames(g), g.takes, GlobalValues(g.long, context.command)) :
        g \in { h \in Globals : context.path # <<>> => h.long # "version" } }

\* The global options among completionOptions.
GlobalCandidates(context) ==
    { Choice(OptionNames(g), g.takes, GlobalValues(g.long, context.command)) :
        g \in { h \in Globals :
                  /\ context.command # NoMatch => ProductGlobalAllowed(context.command, h.long)
                  /\ context.path # <<>> => h.long # "version" /\ GlobalAllowed(context.path, h.long) } }

\* completionOptions
CompletionOptions(context) ==
    LET path == context.path
        command == context.command
    IN  GlobalCandidates(context)
        \cup (IF Is(path, 1, {"plugin", "plugins"}) /\ Is(path, 2, PluginSubcommands)
              THEN PluginOptions(path[2].name) ELSE {})
        \cup (IF Is(path, 1, {"update", "upgrade"})
              THEN {Flag("check"), SourceOption, ChannelOption({})} ELSE {})
        \cup (IF Is(path, 1, {"doctor"}) /\ Is(path, 2, {"network"}) THEN {SourceOption} ELSE {})
        \cup (IF /\ Is(path, 1, {"config"}) /\ Is(path, 2, {"profile", "profiles"})
                 /\ Is(path, 3, {"set-secret"})
              THEN {Flag("from-stdin")} ELSE {})
        \cup (IF command = NoMatch THEN {}
              ELSE { Choice({Long(p.flag)}, TRUE, p.allowed) : p \in command.params }
                   \cup (IF command.download
                         THEN {Choice({Long("output-file")}, TRUE, NoValues), Flag("overwrite")} ELSE {}))

\* optionCompletions: the options of which no spelling is there yet.
OptionCompletions(context) ==
    LET used == { Bare(t) : t \in {u \in ToSet(context.tokens) : u.dash # ""} }
    IN  UNION { o.names : o \in {p \in CompletionOptions(context) : p.names \cap used = {}} }

TopLevel(bundles) ==
    CoreCommands \cup ({ Head(c.path) : c \in AllCommands(bundles) } \ {"{}"})

\* nextPluginPathCompletions
NextSegments(path, bundles) ==
    { c.path[Len(path) + 1] :
        c \in { d \in AllCommands(bundles) :
                  Len(path) < Len(d.path) /\ FitsPrefix(SubSeq(d.path, 1, Len(path)), path) } } \ {"{}"}

\* configCommandCompletions
ConfigWords(path) ==
    CASE Len(path) = 1 -> ConfigSubcommands
      [] Len(path) = 2 /\ Is(path, 2, {"explain"}) -> SettingKeys
      [] Len(path) = 2 /\ Is(path, 2, {"profile", "profiles"}) -> ProfileSubcommands
      [] Len(path) = 4 /\ Is(path, 2, {"profile", "profiles"}) /\ Is(path, 3, {"set-secret"}) -> SecretKeys
      [] OTHER -> {}

\* helpCompletionCommands
HelpWords(path, bundles) ==
    CASE path = <<>> -> TopLevel(bundles)
      [] Is(path, 1, {"config"}) -> ConfigWords(path)
      [] Is(path, 1, {"doctor"}) -> IF Len(path) = 1 THEN {"local", "network"} ELSE {}
      [] Is(path, 1, {"plugin", "plugins"}) -> IF Len(path) = 1 THEN PluginSubcommands ELSE {}
      [] OTHER -> NextSegments(path, bundles)

\* commandCompletions
CommandCompletions(context) ==
    LET path == context.path
        size == Len(path)
        options == OptionCompletions(context)
    IN  CASE path = <<>> -> Words(TopLevel(context.bundles))
          [] Is(path, 1, {"config"}) ->
                Words(ConfigWords(path))
                \cup (IF size > 1 /\ (Is(path, 2, {"profile", "profiles"}) => size > 2) THEN options ELSE {})
          [] Is(path, 1, {"completion"}) -> IF size = 1 THEN Words(Shells) ELSE {}
          [] Is(path, 1, {"doctor"}) ->
                IF size = 1 THEN Words({"local", "network"})
                ELSE IF size = 2 /\ Is(path, 2, {"local", "network"}) THEN options ELSE {}
          [] Is(path, 1, {"help"}) -> Words(HelpWords(Tail(path), context.bundles))
          [] Is(path, 1, {"plugin", "plugins"}) ->
                IF size = 1 THEN Words(PluginSubcommands)
                ELSE IF Is(path, 2, PluginSubcommands) THEN options ELSE {}
          [] Is(path, 1, {"update", "upgrade"}) -> options
          [] Is(path, 1, {"version"}) -> {}
          [] OTHER -> IF context.command # NoMatch THEN options
                      ELSE Words(NextSegments(path, context.bundles))

\* completeArgs for the token after these, which is empty or starts with "-".
Offered(tokens, bundles, dashed) ==
    LET context == Context(tokens, bundles)
        pending == { o \in CompletionOptions(context) : o.takes /\ Last(tokens) \in o.names }
    IN  IF tokens # <<>> /\ pending # {}
        THEN IF dashed THEN {} ELSE Words(UNION { o.values : o \in pending })
        ELSE IF dashed THEN OptionCompletions(context) ELSE CommandCompletions(context)

\* inlineOptionValueCompletions for a token that starts with "name=", for every name.
OfferedInline(tokens, bundles) ==
    LET options == { o \in CompletionOptions(Context(tokens, bundles)) : o.takes }
    IN  UNION { { [n EXCEPT !.value = v] : n \in o.names, v \in o.values } : o \in options }
=============================================================================
