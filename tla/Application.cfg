\* An application that is edited, deleted or given another image twice at any
\* point of its reconciles, with one failed call or restart, on a cluster with
\* all optional kinds of resources and on one with Ingress only: no second
\* workload, no claim of completeness before it is true, nothing made after
\* deletion, and in the end everything is as the last specification asks.
SPECIFICATION FairSpec
CONSTANTS
    i1 = i1
    i2 = i2
    d1 = d1
    d2 = d2
    is = is
    Specs <- MCSpecs
    FirstSpecs <- MCFirst
    Clusters <- MCClusters
    Streams = {is}
    Tags = {i1, i2}
    Digests = {d1, d2}
    Version <- MCVersion
    MaxUserEdits = 2
    MaxFaults = 1
INVARIANTS TypeOK OneWorkload VersionIsOfImage
PROPERTIES ObservedIsComplete NothingAfterDeletion Settles PulledAgain
CHECK_DEADLOCK FALSE
