\* One built-in tracker and another, two overlapping synchronisations, more than two intervals.
SPECIFICATION Spec
CONSTANTS
    Trackers = {builtin, other}
    Builtins = {builtin}
    TrackerLists = {{builtin, other}, {other}, {}}
    Blacklists = {{}, {builtin}}
    Syncs = {s1, s2}
    Interval = 2
    MaxNow = 6
    MaxOps = 3
INVARIANTS
    TypeOK
    FlagMeansNotEnded
    BlacklistedOnlyAsFallback
    ReloadGivesMemory
    AttemptedRecently
\* The clock's bound ends every behaviour.
CHECK_DEADLOCK FALSE
