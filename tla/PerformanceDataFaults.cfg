\* One resource with a failed call or an operator restart, an edit or
\* deletion, pods in every phase and an invalid maximum: the same, the maximum
\* stays in range, and a registered script is reported under the fairness of
\* queue and goroutines.
SPECIFICATION FairSpec
CONSTANTS
    a = a
    b = b
    Key = {a}
    MinWorkers = 1
    MaxWorkers = 100
    DefaultMax = 1
    MaxSessions = 2
    MaxPending = 1
    DesiredWorkers = {0, 1}
    PodPhases = {"running", "pending", "gone"}
    MaxUserEdits = 1
    MaxFaults = 1
INVARIANTS TypeOK CompletedMeansCollected
PROPERTIES RegisteredIsReported CompletedIsFinal
CHECK_DEADLOCK FALSE
