\* A resource deleted while its trace is being enabled: the write of the
\* status conflicts, the finalizer does not know of the trace, and the trace
\* stays.
SPECIFICATION Spec
CONSTANTS
    a = a
    p = p
    q = q
    Key = {a}
    Pod = {p, q}
    MaxUserEdits = 1
    MaxPodChanges = 0
    MaxFaults = 1
SYMMETRY TraceSymmetry
INVARIANTS NoUnwantedTrace
CHECK_DEADLOCK FALSE
