\* Seconds of two ticks, and buckets of two seconds' worth; one limit next to
\* "unlimited".  Windows of two ticks, and packets of which one or three fill a
\* budget.  One torrent, a tracker of each kind, a sweep, and two operations.
\* What bounds the clock and the operations ends the behaviours, hence no
\* deadlock check.
SPECIFICATION NetworkSpec
CHECK_DEADLOCK FALSE
CONSTANTS
    Second = 2
    Limits = {0, 1}
    Virtual = 2
    MaxBytes = 3
    MaxNow = 2
    MaxRefills = 2
    Hashes = {t1}
    Window = 2
    maxQueriesPerSecond = 2
    maxBytes = 3
    Packets = {1, 3}
    MaxDhtNow = 4
    UdpTrackers = {u}
    HttpTrackers = {w}
    Sweeps = {s1}
    MaxOps = 2
INVARIANTS
    NetworkTypeOK
    GrantedWithinBudget
    AnyWindowWithinTwoBudgets
PROPERTIES
    TrackersFollow
