\* With one worker, an up-to-date cache and no failure the protocol implements
\* Leadership (nobody takes a Secret from its leader, one Secret per path), only
\* the tracked leader creates, no leader no longer exists, and, under the fairness
\* of the work queue, every instance that shares gets its key and configuration.
SPECIFICATION FairSpec
CONSTANTS
    a = a
    b = b
    Instance = {a, b}
    Name <- MCName
    Path <- MCPath
    LastPathParent <- MCLastPathParent
    KeyPath = "key.true"
    ConfigPath <- MCConfigPath
    PathOf <- MCPathOf
    InitialResources = {{}}
    Disabled = "disabled"
    MaxConcurrentReconciles = 1
    MaxLag = 0
    MaxUserEdits = 2
    MaxFaults = 0
INVARIANTS NoDeadOwner CreatesOnlyAsLeader
PROPERTIES  SharedResourcesProvided
CHECK_DEADLOCK FALSE
