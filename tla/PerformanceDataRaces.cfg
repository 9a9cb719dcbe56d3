\* Two resources whose requests, scripts, callbacks and reconciles interleave
\* in every way: undisturbed starts keep to a maximum of one worker, and a
\* successful collection is mistaken for a lost connection only while its
\* callback has not stored the outcome.
SPECIFICATION Spec
CONSTANTS
    a = a
    b = b
    Key = {a, b}
    MinWorkers = 1
    MaxWorkers = 100
    DefaultMax = 1
    MaxSessions = 2
    MaxPending = 1
    DesiredWorkers = {1, 2}
    PodPhases = {"running"}
    MaxUserEdits = 1
    MaxFaults = 0
SYMMETRY KeySymmetry
INVARIANTS UndisturbedOneWorker
PROPERTIES LostOnlyInCallback
CHECK_DEADLOCK FALSE
