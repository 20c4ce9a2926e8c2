CONSTANTS
    Configs <- MCConfigs
    Registered = {"auth", "audit"}
SPECIFICATION Spec
INVARIANTS
    StartsIff
    Wired
    PluginsWhole
    ClosedOnExit
    ServedByOwn
