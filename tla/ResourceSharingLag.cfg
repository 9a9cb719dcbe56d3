\* One worker reading a cache that is up to one watch event old, with one edit
\* and one failed call or operator restart: no owner cycle, no duplicated
\* entry, well-typed trackers.
SPECIFICATION Spec
CONSTANTS
    a = a
    b = b
    Instance = {a, b}
    Name <- MCNameSmall
    Path <- MCPath
    LastPathParent <- MCLastPathParent
    KeyPath = "key.true"
    ConfigPath <- MCConfigPath
    PathOf <- MCPathOfSmall
    InitialResources = {{}}
    Disabled = "disabled"
    MaxConcurrentReconciles = 1
    MaxLag = 1
    MaxUserEdits = 1
    MaxFaults = 1
SYMMETRY InstanceSymmetry
INVARIANTS TypeOK NoOwnerCycle 
CHECK_DEADLOCK FALSE
