------------------------ MODULE MCReleasePublication ------------------------
(* A version released on two channels, on one platform or on both, and a   *)
(* second one, and a plugin with a version on two channels and one whose   *)
(* files never change.                                                     *)
EXTENDS ReleasePublication

MCCoreReleases == { [version |-> 1, channel |-> "stable"],
                    [version |-> 1, channel |-> "beta"],
                    [version |-> 2, channel |-> "stable"] }

\* Two platforms at once, or one of them alone.
MCPlatformLists ==
    [r \in MCCoreReleases |->
        IF r.version = 2 THEN { <<"linux", "windows">> }
        ELSE IF r.channel = "beta" THEN { <<"linux">> }
        ELSE { <<"linux">>, <<"linux", "windows">> }]

MCPluginStates == { [version |-> 1, channel |-> "beta", content |-> "first"],
                    [version |-> 1, channel |-> "stable", content |-> "first"],
                    [version |-> 2, channel |-> "stable", content |-> "second"] }
=============================================================================
