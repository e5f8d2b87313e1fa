----------------------------- MODULE MCInvocation -----------------------------
EXTENDS Invocation

Command(path, params) ==
    [path |-> path, region |-> FALSE, params |-> params, download |-> FALSE,
     response |-> "none", waiters |-> {}, dangerous |-> FALSE]
Param(flag, allowed, with) == [flag |-> flag, allowed |-> allowed, with |-> with]

MCBundleOf ==
    [ecs |-> << [Command(<<"ecs", "list", "{}">>,
                         {Param("status", {"running"}, {}), Param("name", {}, {})})
                    EXCEPT !.region = TRUE, !.waiters = {"ready"}],
                [Command(<<"ecs", "delete", "{}">>, {}) EXCEPT !.dangerous = TRUE] >>,
     oos |-> << [Command(<<"oos", "get", "{}">>, {})
                    EXCEPT !.download = TRUE, !.response = "binary"],
                [Command(<<"oos", "list">>, {Param("marker", {}, {""})}) EXCEPT !.response = "text"] >>]

MCOrder == <<"ecs", "oos">>

MCTokens ==
    Words({"config", "explain", "reset", "profile", "set-secret", "plugin", "list", "remove",
           "doctor", "local", "network", "update", "help", "ecs", "oos", "get", "x", "json"})
    \cup { Long(n) : n \in {"output", "yes", "status", "source", "profile", "help", "version",
                         "output-file"} }
    \cup {Short("o"), Token("--", "output", "json"), Token("--", "source", "gitee")}

MCGoals ==
    { <<Word("ecs"), Word("list"), Word("x")>>, <<Word("help"), Word("ecs"), Word("list")>>,
      <<Word("config"), Word("explain")>>, <<Word("doctor"), Word("local")>>,
      <<Word("config"), Word("explain"), Long("profile"), Word("x")>>,
      <<Word("doctor"), Word("local"), Long("profile"), Word("x")>>,
      <<Word("plugin"), Word("list")>> }

Own == [NoProfile EXCEPT !.ak = "own", !.sk = "own", !.warn = "false", !.region = "r1"]

MCFiles ==
    { Missing, Torn, Unreadable,
      Whole([NoConfig EXCEPT !.ak = "shared", !.sk = "shared", !.warn = "true",
                             !.profiles = [x |-> Own]]),
      Whole([NoConfig EXCEPT !.sk = "shared", !.profiles = [x |-> [Own EXCEPT !.sk = Unset], y |-> NoProfile]]),
      Whole([NoConfig EXCEPT !.active = "gone", !.ak = "shared", !.sk = "shared"]) }

NoEnv == [ak |-> Unset, sk |-> Unset, language |-> Unset, warn |-> Unset]

\* The credentials and the warning control are looked up apart.
MCEnvs ==
    { [NoEnv EXCEPT !.ak = a, !.sk = s] : a \in {Unset, "env"}, s \in {Unset, "env"} }
    \cup { [NoEnv EXCEPT !.warn = w] : w \in {"off", "blank"} }
=============================================================================
