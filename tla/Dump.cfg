\* Two resources with edits between and during reconciles, failed calls and an
\* operator restart: the controller implements the abstract operation (an
\* outcome is that of a dump that was run, and final; while no write is lost
\* there is one dump, reported started before), and a dump that was run is
\* reported.
SPECIFICATION FairSpec
CONSTANTS
    a = a
    b = b
    Key = {a, b}
    MaxUserEdits = 2
    MaxFaults = 2
    MaxRestarts = 1
INVARIANTS TypeOK
PROPERTIES  DumpIsReported
CHECK_DEADLOCK FALSE
