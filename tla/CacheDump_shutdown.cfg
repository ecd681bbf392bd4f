\* The background task is not stopped before the shutdown dump.
CONSTANTS
    Shards = 2
    Dumpers = {"background", "shutdown"}
    MaxWrites = 2
    MaxDumps = 2
    MaxCrashes = 0
SPECIFICATION Spec
INVARIANTS
    DumpAtomic
CHECK_DEADLOCK FALSE
