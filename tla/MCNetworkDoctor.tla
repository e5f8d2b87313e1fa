------------------------- MODULE MCNetworkDoctor -------------------------
(* Instance of NetworkDoctor for TLC: two mirrors of one source that are   *)
(* reached directly; the same over one proxy, with any key; two subjects   *)
(* that share an origin.  Each with one API endpoint.                      *)
EXTENDS NetworkDoctor

Source(subject, candidates) == [subject |-> subject, candidates |-> candidates]

Origins == {"github", "gitee", "api"}
Direct  == [o \in Origins |-> o]
Proxied == [o \in Origins |-> "proxy"]

Input(sources, route, key) ==
    [sources |-> sources, endpoints |-> <<"api">>, route |-> route, key |-> key]

Mirrored == <<Source("core", <<"github", "gitee">>)>>
Shared   == <<Source("core", <<"github">>), Source("plugin", <<"github">>)>>

MCInputs == {Input(Mirrored, Direct, "good"), Input(Shared, Direct, "good")}
            \cup {Input(Mirrored, Proxied, key) : key \in {"good", "bad", "missing"}}
=============================================================================
