\* One resource that is edited to another pod and back, disabled and deleted,
\* with pods that restart, failed calls, conflicting edits and operator
\* restarts: no trace is forgotten while nothing fails, and a wanted trace is
\* on or an error is reported whatever fails.
SPECIFICATION Spec
CONSTANTS
    a = a
    p = p
    q = q
    Key = {a}
    Pod = {p, q}
    MaxUserEdits = 3
    MaxPodChanges = 2
    MaxFaults = 2
SYMMETRY TraceSymmetry
INVARIANTS TypeOK NoOrphanTrace WantedIsTracedOrError
CHECK_DEADLOCK FALSE
