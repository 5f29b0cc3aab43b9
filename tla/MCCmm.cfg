\* Two databases and one download; two calls that overlap, two changes by the
\* user or by CMM.  Folder b is in a, s the system's.  Of the page two calls
\* overlap, fewer than its budget.  Two files, and a dialog opened while another's
\* extraction runs.  The bounds end the behaviours, hence no deadlock check.
SPECIFICATION CmmSpec
CHECK_DEADLOCK FALSE
CONSTANTS
    Paths = {d1, d2}
    NoPath = NoPath
    Hashes = {h1}
    Calls = {c1, c2}
    MaxOps = 2
    Folders = {"a", "b", "s"}
    NoFolder = ""
    Above <- TreeAbove
    System = {"s"}
    Reports <- SomeReports
    Loads = {l1, l2}
    MaxFolderOps = 2
    Slots = {s1, s2}
    Budget = 3
    MaxEvents = 4
    Offerings <- SomeOfferings
    MaxExtractions = 2
    Dialogs = {b1, b2}
    MaxSteps = 5
INVARIANTS
    CmmTypeOK
    FlagMeansAttached
    NearestWins
    FormFollowsFile
PROPERTIES
    AttachmentHeals
    FoldersConverge
    PageFollowsCmm
