SPECIFICATION Spec
CONSTANTS
    PlatformLists <- MCPlatformLists
    CoreReleases <- MCCoreReleases
    Plugins = {"ecs"}
    PluginStates <- MCPluginStates
    MaxRuns = 3
INVARIANTS
    ReleaseInstallable
    EntriesPreserved
    PluginsAlwaysServed
CHECK_DEADLOCK FALSE
