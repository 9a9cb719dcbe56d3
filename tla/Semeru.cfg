\* Two edits of image, port, switch or issuer during any rollout, and one
\* failed call, conflict or restart, with cert-manager and with OpenShift's
\* service CA: no compiler in use is deleted, the list that deletions work
\* from stays in order, and application and compiler come to agree.
SPECIFICATION FairSpec
CONSTANTS
    i1 = i1
    i2 = i2
    p = p
    q = q
    Images = {i1, i2}
    Ports = {p, q}
    InitialSpecs <- MCInitialSpecs
    Platforms = {"cert-manager", "openshift"}
    MaxGen = 4
    MaxUserEdits = 2
    MaxFaults = 1
INVARIANTS TypeOK CompletedInOrder DeploymentsListed OwnCertificate
PROPERTIES UsedCompilerKept Converges OldGenerationsGo
CHECK_DEADLOCK FALSE
